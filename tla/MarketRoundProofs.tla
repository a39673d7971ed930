------------------------- MODULE MarketRoundProofs -------------------------
(***************************************************************************)
(* What holds of the resident market for any orders, nodes, quantities,    *)
(* deadlines and bounds: the inductive invariant, its steps, and the       *)
(* properties of MarketRound.                                              *)
(*                                                                         *)
(* Everything but the two queues is stated for a current order c, a        *)
(* previous order v, a book and a set of completed orders: most steps      *)
(* leave these four alone.  Completion and intake move the market to       *)
(* another order.                                                          *)
(***************************************************************************)
EXTENDS MarketRound, TLAPS

-----------------------------------------------------------------------------
(* The invariant *)

\* Orders complete in the order of their intake, each taken in once.
QueueSound ==
    /\ intake \in Seq(Orders) /\ completed \in Seq(Orders)
    /\ \A i, j \in 1..Len(intake) : intake[i] = intake[j] => i = j
    /\ Len(completed) <= Len(intake)
    /\ \A i \in 1..Len(completed) : completed[i] = intake[i]

JournalShape == DOMAIN journal = Kinds /\ \A k \in Kinds : DOMAIN journal[k] = Orders

BookSound(c, v, book, done) ==
    /\ done \subseteq Orders /\ c \in (Orders \ done) \cup {None} /\ v \in done \cup {None}
    /\ DOMAIN book \subseteq done /\ \A p \in DOMAIN book : book[p] \in Nat

\* What the round of c opened fits the book.
ResultSound(r, c, book) ==
    /\ DOMAIN r.fills = DOMAIN book
    /\ \A p \in DOMAIN book : r.fills[p] \in Nat /\ r.fills[p] <= book[p]
    /\ r.left \in Nat /\ (r.left # 0 => r.left = Quantity[c] - Taken(r.fills))

\* The records of an order exist in the order of the stages, and only for a
\* completed order or the current one.
OrderSound(o, c, book, done) ==
    /\ \A k \in Kinds : Has(k, o) => o \in done \cup {c}
    /\ output[o] # None => Has("plan", o)
    /\ Has("plan", o) =>
        /\ Has("certificate", o) /\ Saved("plan", o).certificate = Saved("certificate", o)
        /\ Saved("plan", o).expires \in Nat
        /\ o = c => Saved("plan", o).resting = DOMAIN book
    /\ Has("execution", o) =>
        Has("plan", o) /\ Saved("execution", o) = output[o] /\ \A n \in Nodes : node[n].completed[o] # None
    /\ Has("signed", o) =>
        Matched(o) /\ Saved("signed", o) \in Nat /\ Saved("signed", o) <= ledger.root
    /\ Has("settled", o) =>
        /\ Has("signed", o) /\ Saved("settled", o) = Saved("signed", o)
        /\ Statement(o, Saved("signed", o)) \in ledger.accepted
    /\ o = c /\ output[o] # None => ResultSound(output[o], c, book)

\* What the worker holds in memory belongs to the current order.
PendingSound(c) ==
    pending # None =>
        /\ c # None
        /\ \/ /\ pending.step = "signing" /\ pending.parent \in Nat /\ pending.parent <= ledger.root
              /\ Matched(c) /\ ~Has("signed", c)
           \/ /\ pending.step = "settled" /\ Has("signed", c) /\ ~Has("settled", c)
              /\ pending.parent = Saved("signed", c) /\ Statement(c, pending.parent) \in ledger.accepted
           \/ pending.step = "final" /\ Has("settled", c) /\ EveryNodeFinal(c)

NodeShape(s) ==
    /\ DOMAIN s = {"head", "stage", "round", "completed", "debris", "observed", "finalized", "heads"}
    /\ DOMAIN s.completed = Orders /\ DOMAIN s.heads = Orders
    /\ s.stage \in {"idle", "running", "finished"}

\* A node is at the journal's last certificate or at the current one, where it
\* stays from the start of its party on.
PartySound(s, c, v) ==
    /\ s.head = HeadOf(v) \/ (c # None /\ Has("certificate", c) /\ s.head = HeadOf(c))
    /\ s.stage # "idle" =>
        /\ c # None /\ s.round = c /\ Has("plan", c) /\ s.head = HeadOf(c)
        /\ s.completed[c] = None /\ <<"dir", c>> \notin s.debris
    /\ \A o \in Orders : s.completed[o] # None =>
        s.completed[o] = output[o] /\ (o = c => s.head = HeadOf(c))

\* Its shares add up to the book before it finalizes the current round and to
\* the next book afterwards.
HeadsSound(s, c, book, done) ==
    /\ \A o \in s.finalized : o \in Orders /\ Has("settled", o)
    /\ \A p \in DOMAIN book :
        Amount(s, p) = IF c \in s.finalized THEN book[p] - Fills(c)[p] ELSE book[p]
    /\ \A o \in Orders \ done :
        s.heads[o] = IF o \in s.finalized /\ Saved("execution", o).left > 0
                     THEN Saved("execution", o).left ELSE None

NodeSound(s, c, v, book, done) ==
    NodeShape(s) /\ PartySound(s, c, v) /\ HeadsSound(s, c, book, done)

AcceptedRound(o) == \E s \in ledger.accepted : s.round = o

\* The ledger holds the book before it accepts the current round and the next
\* book afterwards.
LedgerSound(c, book, done) ==
    /\ ledger.root \in Nat
    /\ \A s \in ledger.accepted :
        /\ s.round \in Orders /\ Has("signed", s.round)
        /\ s = Statement(s.round, Saved("signed", s.round)) /\ Saved("signed", s.round) < ledger.root
    /\ \A p \in DOMAIN book :
        /\ p \in ledger.open
        /\ ledger.remaining[p] = IF AcceptedRound(c) THEN book[p] - Fills(c)[p] ELSE book[p]
    /\ \A o \in Orders \ done :
        IF AcceptedRound(o)
        THEN /\ Saved("execution", o).left # 0 => o \in ledger.open
             /\ ledger.remaining[o] = Quantity[o] - Taken(Fills(o))
        ELSE o \in ledger.open /\ ledger.remaining[o] = Quantity[o]

\* All of it, for a given position of the market.
Sound(c, v, book, done) ==
    /\ JournalShape /\ DOMAIN output = Orders /\ DOMAIN node = Nodes
    /\ BookSound(c, v, book, done)
    /\ \A o \in Orders : OrderSound(o, c, book, done)
    /\ PendingSound(c)
    /\ \A n \in Nodes : \A s \in {node[n]} : NodeSound(s, c, v, book, done)
    /\ LedgerSound(c, book, done)

IInv ==
    /\ QueueSound /\ now \in Nat
    /\ \A c \in {Current}, v \in {Previous}, book \in {Book}, done \in {Done} : Sound(c, v, book, done)

-----------------------------------------------------------------------------
(* Where the market stands *)

\* The place of the market in its two queues.
At(c, v, book, done) == c = Current /\ v = Previous /\ book = Book /\ done = Done

\* pump works on the intake after the last completed one, if there is one.
NextInLine ==
    /\ Current = IF Len(completed) < Len(intake) THEN intake[Len(completed) + 1] ELSE None
    /\ Len(completed) < Len(intake) => Current \in Intaken /\ Current \in Orders \ Done
    /\ Done \subseteq Intaken /\ Intaken \subseteq Orders

\* next() finds the order in line.
LEMMA CurrentFacts ==
    QueueSound => NextInLine
<1> SUFFICES ASSUME QueueSound
             PROVE  NextInLine
  OBVIOUS
<1>0. intake \in Seq(Orders) /\ completed \in Seq(Orders) /\ Len(completed) <= Len(intake)
  BY Zenon DEF QueueSound
<1>1. Len(intake) \in Nat /\ Len(completed) \in Nat
  BY <1>0
<1>2. ASSUME NEW i \in 1..Len(intake)
      PROVE  intake[i] \in Done <=> i <= Len(completed)
  BY <1>1 DEF QueueSound, Done
<1>3. ASSUME NEW i \in 1..Len(intake), intake[i] \notin Done, \A j \in 1..(i - 1) : intake[j] \in Done
      PROVE  i = Len(completed) + 1
  <2>1. i > Len(completed)
    BY <1>1, <1>2, <1>3
  <2>2. ASSUME i > Len(completed) + 1
        PROVE  FALSE
    <3>1. Len(completed) + 1 \in 1..(i - 1) /\ Len(completed) + 1 \in 1..Len(intake)
      BY <1>0, <1>1, <2>2
    <3>2. intake[Len(completed) + 1] \in Done
      BY Zenon, <3>1, <1>3
    <3> QED
      BY <3>1, <3>2, <1>2, <1>1
  <2> QED
    BY <1>1, <2>1, <2>2
<1>4. ASSUME Len(completed) < Len(intake)
      PROVE  /\ Len(completed) + 1 \in 1..Len(intake) /\ intake[Len(completed) + 1] \notin Done
             /\ \A j \in 1..((Len(completed) + 1) - 1) : intake[j] \in Done
  <2>1. Len(completed) + 1 \in 1..Len(intake)
    BY <1>0, <1>1, <1>4
  <2>2. intake[Len(completed) + 1] \notin Done
    BY <1>1, <1>2, <2>1
  <2>3. ASSUME NEW j \in 1..((Len(completed) + 1) - 1)
        PROVE  intake[j] \in Done
    BY <1>0, <1>1, <1>2, <1>4
  <2> QED
    BY Zenon, <2>1, <2>2, <2>3
<1>5. FirstWaiting = IF Len(completed) < Len(intake) THEN {Len(completed) + 1} ELSE {}
  <2>1. CASE Len(completed) < Len(intake)
    BY Zenon, <1>0, <1>1, <1>3, <1>4, <2>1 DEF FirstWaiting
  <2>2. CASE ~(Len(completed) < Len(intake))
    BY <1>0, <1>1, <1>2, <1>3, <2>2 DEF FirstWaiting
  <2> QED
    BY Zenon, <2>1, <2>2
<1>6. Done \subseteq Intaken /\ Intaken \subseteq Orders
  BY <1>0, <1>1 DEF QueueSound, Done, Intaken
<1>7. ASSUME Len(completed) < Len(intake)
      PROVE  Current = intake[Len(completed) + 1]
  BY Zenon, <1>1, <1>5, <1>7 DEF Current
<1>8. ASSUME Len(completed) < Len(intake)
      PROVE  Current \in Intaken /\ Current \in Orders \ Done
  BY Zenon, <1>6, <1>4, <1>7, <1>8 DEF Intaken
<1>9. ASSUME ~(Len(completed) < Len(intake))
      PROVE  Current = None
  BY Zenon, <1>5, <1>9 DEF Current
<1> QED
  BY Zenon, <1>6, <1>7, <1>8, <1>9 DEF NextInLine

\* The same of the state after a step.
LEMMA CurrentFactsNext ==
    QueueSound' => NextInLine'
BY CurrentFacts, PTL

-----------------------------------------------------------------------------
(* What a step leaves alone *)

\* Records are first-seen, and only the round of c gets new ones.
Grows(c) ==
    /\ JournalShape' /\ DOMAIN output' = Orders
    /\ \A k \in Kinds : \A o \in Orders : (o # c \/ journal[k][o] # None) => journal'[k][o] = journal[k][o]
    /\ \A o \in Orders : (o # c \/ output[o] # None) => output'[o] = output[o]

\* The committee keeps its receipts and the ledger what it accepted.
Keeps ==
    /\ \A n \in Nodes : \A o \in Orders : node[n].completed[o] # None => node'[n].completed[o] # None
    /\ ledger.root \in Nat /\ ledger'.root \in Nat /\ ledger.root <= ledger'.root
    /\ ledger.accepted \subseteq ledger'.accepted

\* put() of a missing record changes that record alone.
LEMMA PutFacts ==
    ASSUME JournalShape, NEW kind \in Kinds, NEW o \in Orders, NEW body, Put(kind, o, body)
    PROVE  /\ JournalShape'
           /\ journal'[kind][o] = body
           /\ \A k \in Kinds : \A p \in Orders : (k # kind \/ p # o) => journal'[k][p] = journal[k][p]
BY Zenon DEF JournalShape, Put

\* A put() for c of a record that c lacks, the rest of the system unchanged.
LEMMA PutGrows ==
    ASSUME JournalShape, DOMAIN output = Orders, UNCHANGED output,
           NEW kind \in Kinds, NEW c \in Orders, NEW body, Put(kind, c, body), ~Has(kind, c)
    PROVE  Grows(c)
<1>1. /\ JournalShape'
      /\ \A k \in Kinds : \A p \in Orders : (k # kind \/ p # c) => journal'[k][p] = journal[k][p]
  BY PutFacts
<1> QED
  BY Zenon, <1>1 DEF Grows, Has, Saved

\* The records of an order whose journal and output a step does not touch.
LEMMA OrderFrame ==
    ASSUME NEW c, NEW book, NEW done, NEW o \in Orders, OrderSound(o, c, book, done), Keeps,
           \A k \in Kinds : journal'[k][o] = journal[k][o], output'[o] = output[o]
    PROVE  OrderSound(o, c, book, done)'
<1>1. \A k \in {"certificate", "plan", "execution", "signed", "settled"} : journal'[k][o] = journal[k][o]
  BY Zenon DEF Kinds
<1>2. \A k \in Kinds : Has(k, o)' => o \in done \cup {c}
  BY Zenon DEF OrderSound, Has, Saved
<1>3. (output[o] # None => Has("plan", o))'
  BY Zenon, <1>1 DEF OrderSound, Has, Saved
<1>4. (Has("plan", o) =>
        /\ Has("certificate", o) /\ Saved("plan", o).certificate = Saved("certificate", o)
        /\ Saved("plan", o).expires \in Nat
        /\ o = c => Saved("plan", o).resting = DOMAIN book)'
  BY Zenon, <1>1 DEF OrderSound, Has, Saved
<1>5. (Has("execution", o) =>
        Has("plan", o) /\ Saved("execution", o) = output[o] /\ \A n \in Nodes : node[n].completed[o] # None)'
  BY Zenon, <1>1 DEF OrderSound, Has, Saved, Keeps
<1>6. (Has("signed", o) =>
        Matched(o) /\ Saved("signed", o) \in Nat /\ Saved("signed", o) <= ledger.root)'
  BY <1>1 DEF OrderSound, Has, Saved, Keeps, Matched, Filled, Fills
<1>7. (Has("settled", o) =>
        /\ Has("signed", o) /\ Saved("settled", o) = Saved("signed", o)
        /\ Statement(o, Saved("signed", o)) \in ledger.accepted)'
  BY Zenon, <1>1 DEF OrderSound, Has, Saved, Keeps, Statement
<1>8. (o = c /\ output[o] # None => ResultSound(output[o], c, book))'
  BY Zenon DEF OrderSound
<1> QED
  BY Zenon, <1>2, <1>3, <1>4, <1>5, <1>6, <1>7, <1>8 DEF OrderSound

\* The certificates that nodes stand on stay.
LEMMA HeadFrame ==
    ASSUME NEW c, NEW v, NEW book, NEW done, BookSound(c, v, book, done), Grows(c)
    PROVE  /\ HeadOf(v)' = HeadOf(v)
           /\ c \in Orders /\ Has("certificate", c) => Has("certificate", c)' /\ HeadOf(c)' = HeadOf(c)
<1>1. "certificate" \in Kinds
  BY Zenon DEF Kinds
<1>2. v = None \/ (v \in Orders /\ v # c)
  BY Zenon DEF BookSound
<1> QED
  BY <1>1, <1>2 DEF Grows, HeadOf, Has, Saved, Digest

\* A node that a step does not touch.
LEMMA NodeFrame ==
    ASSUME NEW c, NEW v, NEW book, NEW done, BookSound(c, v, book, done),
           \A o \in Orders : OrderSound(o, c, book, done), Grows(c),
           NEW s, NodeSound(s, c, v, book, done)
    PROVE  NodeSound(s, c, v, book, done)'
<1>1. {"certificate", "plan", "execution", "signed", "settled"} \subseteq Kinds
  BY Zenon DEF Kinds
<1>2. c \in Orders \/ c = None
  BY Zenon DEF BookSound
<1>3. PartySound(s, c, v)'
  <2>1. (s.head = HeadOf(v) \/ (c # None /\ Has("certificate", c) /\ s.head = HeadOf(c)))'
    BY Zenon, <1>2, HeadFrame DEF NodeSound, PartySound
  <2>2. ASSUME s.stage # "idle"
        PROVE  /\ c # None /\ s.round = c /\ Has("plan", c)' /\ s.head = HeadOf(c)'
               /\ s.completed[c] = None /\ <<"dir", c>> \notin s.debris
    <3>1. /\ c \in Orders /\ s.round = c /\ Has("plan", c) /\ s.head = HeadOf(c)
          /\ s.completed[c] = None /\ <<"dir", c>> \notin s.debris
      BY Zenon, <1>2, <2>2 DEF NodeSound, PartySound
    <3>2. Has("plan", c)' /\ Has("certificate", c)
      BY Zenon, <3>1, <1>1 DEF OrderSound, Has, Saved, Grows
    <3> QED
      BY Zenon, <3>1, <3>2, <1>2, HeadFrame, MarketAssumption
  <2>3. ASSUME NEW o \in Orders, s.completed[o] # None
        PROVE  s.completed[o] = output'[o] /\ (o = c => s.head = HeadOf(c)')
    <3>1. s.completed[o] = output[o] /\ (o = c => s.head = HeadOf(c))
      BY Zenon, <2>3 DEF NodeSound, PartySound
    <3>2. Has("certificate", o)
      BY Zenon, <3>1, <2>3 DEF OrderSound
    <3> QED
      BY Zenon, <3>1, <3>2, <2>3, HeadFrame DEF Grows
  <2> QED
    BY Zenon, <2>1, <2>2, <2>3 DEF PartySound
<1>4. ASSUME NEW o \in s.finalized
      PROVE  /\ o \in Orders /\ Has("settled", o) /\ Has("settled", o)'
             /\ Has("execution", o) /\ Saved("execution", o)' = Saved("execution", o)
  <2>1. o \in Orders /\ Has("settled", o)
    BY Zenon DEF NodeSound, HeadsSound
  <2>2. Has("execution", o)
    BY Zenon, <2>1 DEF OrderSound, Matched
  <2> QED
    BY Zenon, <2>1, <2>2, <1>1 DEF Grows, Has, Saved
<1>5. HeadsSound(s, c, book, done)'
  BY Zenon, <1>4 DEF NodeSound, HeadsSound, Fills, Amount
<1> QED
  BY Zenon, <1>3, <1>5 DEF NodeSound

\* The ledger where a step does not settle anything.
LEMMA LedgerFrame ==
    ASSUME NEW c, NEW book, NEW done, LedgerSound(c, book, done),
           \A o \in Orders : OrderSound(o, c, book, done), Grows(c), Keeps,
           ledger'.remaining = ledger.remaining, ledger'.open = ledger.open,
           ledger'.accepted = ledger.accepted
    PROVE  LedgerSound(c, book, done)'
<1>1. {"execution", "signed"} \subseteq Kinds
  BY Zenon DEF Kinds
<1>2. \A o : AcceptedRound(o)' <=> AcceptedRound(o)
  BY Zenon DEF AcceptedRound
<1>3. ASSUME NEW o, AcceptedRound(o)
      PROVE  /\ o \in Orders /\ Has("signed", o)
             /\ Saved("signed", o)' = Saved("signed", o) /\ Saved("execution", o)' = Saved("execution", o)
  <2>1. o \in Orders /\ Has("signed", o)
    BY <1>3 DEF LedgerSound, AcceptedRound
  <2>2. Has("execution", o)
    BY Zenon, <2>1 DEF OrderSound, Matched
  <2> QED
    BY Zenon, <2>1, <2>2, <1>1 DEF Grows, Has, Saved
<1>4. ASSUME NEW s \in ledger.accepted
      PROVE  /\ s.round \in Orders /\ Has("signed", s.round)'
             /\ s = Statement(s.round, Saved("signed", s.round)')
             /\ Saved("signed", s.round)' < ledger'.root
  <2>1. /\ AcceptedRound(s.round) /\ s = Statement(s.round, Saved("signed", s.round))
        /\ Saved("signed", s.round) < ledger.root
    BY Zenon DEF LedgerSound, AcceptedRound
  <2>2. Has("signed", s.round)' /\ Saved("signed", s.round)' = Saved("signed", s.round) /\ s.round \in Orders
    BY Zenon, <2>1, <1>3 DEF Has
  <2>3. Saved("signed", s.round) \in Nat
    BY Zenon, <2>1, <1>3 DEF OrderSound
  <2> QED
    BY <2>1, <2>2, <2>3 DEF Keeps
<1>5. \A p \in DOMAIN book :
        /\ p \in ledger'.open
        /\ ledger'.remaining[p] = IF AcceptedRound(c)' THEN book[p] - Fills(c)'[p] ELSE book[p]
  BY Zenon, <1>2, <1>3 DEF LedgerSound, Fills
<1>6. \A o \in Orders \ done :
        IF AcceptedRound(o)'
        THEN /\ Saved("execution", o)'.left # 0 => o \in ledger'.open
             /\ ledger'.remaining[o] = Quantity[o] - Taken(Fills(o)')
        ELSE o \in ledger'.open /\ ledger'.remaining[o] = Quantity[o]
  BY Zenon, <1>2, <1>3 DEF LedgerSound, Fills
<1> QED
  BY Zenon, <1>4, <1>5, <1>6 DEF LedgerSound, Keeps, Statement

\* A step that writes a record of the current order, or opens its output, and
\* touches neither committee nor ledger.
LEMMA RecordStep ==
    ASSUME NEW c \in Orders, NEW v, NEW book, NEW done, Sound(c, v, book, done), Grows(c),
           UNCHANGED <<node, ledger>>, OrderSound(c, c, book, done)', PendingSound(c)'
    PROVE  Sound(c, v, book, done)'
<1>1. Keeps
  BY DEF Keeps, Sound, LedgerSound
<1>2. ASSUME NEW o \in Orders
      PROVE  OrderSound(o, c, book, done)'
  <2>1. CASE o = c
    BY Zenon, <2>1
  <2>2. CASE o # c
    <3>1. /\ \A k \in Kinds : journal'[k][o] = journal[k][o]
          /\ output'[o] = output[o]
      BY Zenon, <2>2 DEF Grows
    <3>2. OrderSound(o, c, book, done)
      BY Zenon DEF Sound
    <3> QED
      BY Zenon, <1>1, <3>1, <3>2, OrderFrame
  <2> QED
    BY Zenon, <2>1, <2>2
<1>3. \A n \in Nodes : \A s \in {node'[n]} : NodeSound(s, c, v, book, done)'
  <2>1. BookSound(c, v, book, done) /\ \A o \in Orders : OrderSound(o, c, book, done)
    BY Zenon DEF Sound
  <2>2. ASSUME NEW n \in Nodes, NEW s \in {node'[n]}
        PROVE  NodeSound(s, c, v, book, done)'
    <3>1. NodeSound(s, c, v, book, done)
      BY Zenon, <2>2 DEF Sound
    <3> QED
      BY Zenon, <2>1, <3>1, NodeFrame
  <2> QED
    BY Zenon, <2>2
<1>4. LedgerSound(c, book, done)'
  BY Zenon, <1>1, LedgerFrame DEF Sound
<1>5. JournalShape' /\ DOMAIN output' = Orders /\ DOMAIN node' = Nodes
  BY Zenon DEF Sound, Grows
<1>6. BookSound(c, v, book, done)'
  BY Zenon DEF Sound, BookSound
<1> QED
  BY Zenon, <1>2, <1>3, <1>4, <1>5, <1>6 DEF Sound

\* A step that only changes what the worker remembers, or moves the ledger's
\* root.
LEMMA MemoryStep ==
    ASSUME NEW c, NEW v, NEW book, NEW done, Sound(c, v, book, done), PendingSound(c)',
           UNCHANGED <<journal, node, output>>,
           ledger'.root \in Nat, ledger.root <= ledger'.root, ledger'.remaining = ledger.remaining,
           ledger'.open = ledger.open, ledger'.accepted = ledger.accepted
    PROVE  Sound(c, v, book, done)'
<1>1. Keeps
  BY Zenon DEF Keeps, Sound, LedgerSound
<1>2. Grows(c)
  BY Zenon DEF Sound, Grows, JournalShape
<1>3. \A o \in Orders : OrderSound(o, c, book, done)'
  BY Zenon, <1>1, OrderFrame DEF Sound
<1>4. \A n \in Nodes : \A s \in {node'[n]} : NodeSound(s, c, v, book, done)'
  BY Zenon, <1>2, NodeFrame DEF Sound
<1>5. LedgerSound(c, book, done)'
  BY Zenon, <1>1, <1>2, LedgerFrame DEF Sound
<1>6. BookSound(c, v, book, done)'
  BY Zenon DEF Sound, BookSound
<1> QED
  BY Zenon, <1>2, <1>3, <1>4, <1>5, <1>6 DEF Sound, Grows

\* A node loses neither a receipt nor a finality.
NodeKeeps(s, t) ==
    /\ \A o \in Orders : s.completed[o] # None => t.completed[o] # None
    /\ s.finalized \subseteq t.finalized

\* A step of one node.
LEMMA NodeStepSound ==
    ASSUME NEW c, NEW v, NEW book, NEW done, Sound(c, v, book, done),
           UNCHANGED <<journal, output, ledger, pending>>,
           NEW n \in Nodes, NEW t, node' = [node EXCEPT ![n] = t], NodeSound(t, c, v, book, done),
           NodeKeeps(node[n], t)
    PROVE  Sound(c, v, book, done)'
<1>0. /\ DOMAIN node = Nodes /\ DOMAIN node' = Nodes /\ node'[n] = t
      /\ \A m \in Nodes : m # n => node'[m] = node[m]
  BY Zenon DEF Sound
<1>1. Keeps
  BY <1>0 DEF Keeps, NodeKeeps, Sound, LedgerSound
<1>2. Grows(c)
  BY Zenon DEF Sound, Grows, JournalShape
<1>3. \A o \in Orders : OrderSound(o, c, book, done)'
  BY Zenon, <1>1, OrderFrame DEF Sound
<1>4. \A m \in Nodes : \A s \in {node'[m]} : NodeSound(s, c, v, book, done)'
  <2>1. BookSound(c, v, book, done) /\ \A o \in Orders : OrderSound(o, c, book, done)
    BY Zenon DEF Sound
  <2>2. ASSUME NEW m \in Nodes, NEW s \in {node'[m]}
        PROVE  NodeSound(s, c, v, book, done)'
    <3>1. NodeSound(s, c, v, book, done)
      BY Zenon, <1>0, <2>2 DEF Sound
    <3> QED
      BY Zenon, <1>2, <2>1, <3>1, NodeFrame
  <2> QED
    BY Zenon, <2>2
<1>5. LedgerSound(c, book, done)'
  BY Zenon, <1>1, <1>2, LedgerFrame DEF Sound
<1>6. BookSound(c, v, book, done)'
  BY Zenon DEF Sound, BookSound
<1>7. PendingSound(c)'
  <2>1. EveryNodeFinal(c) => EveryNodeFinal(c)'
    BY Zenon, <1>0 DEF EveryNodeFinal, NodeKeeps
  <2> QED
    BY Zenon, <2>1 DEF Sound, PendingSound, Matched, Has, Saved, Filled, Fills, Statement
<1> QED
  BY Zenon, <1>0, <1>2, <1>3, <1>4, <1>5, <1>6, <1>7 DEF Sound, Grows

-----------------------------------------------------------------------------
(* The steps of the worker *)

\* The stages of the current order before its execution is recorded.
LEMMA StageFacts ==
    ASSUME NEW c \in Orders, NEW v, NEW book, NEW done, Sound(c, v, book, done)
    PROVE  /\ JournalShape /\ DOMAIN output = Orders /\ c \in Orders /\ c # None
           /\ OrderSound(c, c, book, done)
           /\ ~Has("certificate", c) => ~Has("plan", c)
           /\ ~Has("plan", c) => ~Has("execution", c) /\ output[c] = None
           /\ ~Has("execution", c) => pending = None /\ ~Has("signed", c)
           /\ ~Has("signed", c) => ~Has("settled", c)
<1>1. OrderSound(c, c, book, done) /\ PendingSound(c)
  BY Zenon DEF Sound
<1>2. JournalShape /\ DOMAIN output = Orders /\ c # None
  BY Zenon, MarketAssumption DEF Sound
<1>3. /\ ~Has("certificate", c) => ~Has("plan", c)
      /\ ~Has("plan", c) => ~Has("execution", c) /\ output[c] = None
      /\ ~Has("execution", c) => ~Has("signed", c)
      /\ ~Has("signed", c) => ~Has("settled", c)
  BY Zenon, <1>1 DEF OrderSound, Matched
<1>4. ~Has("execution", c) => pending = None
  BY Zenon, <1>1, <1>3 DEF PendingSound, Matched
<1> QED
  BY Zenon, <1>1, <1>2, <1>3, <1>4

\* collect_order_certificate records the first certificate of the order.
LEMMA CollectCertificateSound ==
    ASSUME NEW c \in Orders, NEW v, NEW book, NEW done, Sound(c, v, book, done), CollectCertificate(c)
    PROVE  Sound(c, v, book, done)'
<1>1. /\ JournalShape /\ DOMAIN output = Orders /\ c \in Orders
      /\ ~Has("certificate", c) /\ ~Has("plan", c) /\ ~Has("execution", c) /\ ~Has("signed", c)
      /\ ~Has("settled", c) /\ output[c] = None /\ pending = None
  BY Zenon, StageFacts DEF CollectCertificate
<1>2. PICK body : Put("certificate", c, body)
  BY Zenon DEF CollectCertificate
<1>3. UNCHANGED <<node, output, ledger, pending>>
  BY Zenon DEF CollectCertificate, worker
<1>4. "certificate" \in Kinds
  BY Zenon DEF Kinds
<1>5. Grows(c)
  BY Zenon, <1>1, <1>2, <1>3, <1>4, PutGrows
<1>6. \A k \in Kinds : k # "certificate" => journal'[k][c] = journal[k][c]
  BY <1>1, <1>2, <1>4, PutFacts
<1>7. OrderSound(c, c, book, done)'
  BY Zenon, <1>1, <1>3, <1>6 DEF OrderSound, Has, Saved, Kinds
<1>8. PendingSound(c)'
  BY Zenon, <1>1, <1>3 DEF PendingSound
<1> QED
  BY Zenon, <1>3, <1>5, <1>7, <1>8, RecordStep

\* RoundPlan::sign fixes the resting orders and the expiry of the round.
LEMMA SignPlanSound ==
    ASSUME NEW c \in Orders, NEW v, NEW book, NEW done, Sound(c, v, book, done), book = Book,
           now \in Nat, SignPlan(c)
    PROVE  Sound(c, v, book, done)'
<1>1. /\ JournalShape /\ DOMAIN output = Orders /\ c \in Orders
      /\ Has("certificate", c) /\ ~Has("plan", c) /\ ~Has("execution", c) /\ ~Has("signed", c)
      /\ ~Has("settled", c) /\ output[c] = None /\ pending = None
  BY Zenon, StageFacts DEF SignPlan, NeedsPlan
<1>2. PICK expires \in PlanExpiry(c) :
        Put("plan", c, [certificate |-> Saved("certificate", c), resting |-> DOMAIN Book, expires |-> expires])
  BY Zenon DEF SignPlan
<1>3. expires \in Nat
  <2>1. expires = now + PlanLife \/ \E p \in DOMAIN Book \cup {c} : expires = Deadline[p]
    BY Zenon, <1>2 DEF PlanExpiry, Ends
  <2>2. DOMAIN Book \cup {c} \subseteq Orders
    BY Zenon DEF Sound, BookSound
  <2>3. Deadline \in [Orders -> Nat] /\ PlanLife \in Nat
    BY Zenon, MarketAssumption
  <2> QED
    BY <2>1, <2>2, <2>3
<1>4. UNCHANGED <<node, output, ledger, pending>>
  BY Zenon DEF SignPlan, worker
<1>5. "plan" \in Kinds
  BY Zenon DEF Kinds
<1>6. Grows(c)
  BY Zenon, <1>1, <1>2, <1>4, <1>5, PutGrows
<1>7. /\ \A k \in Kinds : k # "plan" => journal'[k][c] = journal[k][c]
      /\ journal'["plan"][c] =
           [certificate |-> Saved("certificate", c), resting |-> DOMAIN Book, expires |-> expires]
  BY <1>1, <1>2, <1>5, PutFacts
<1>8. OrderSound(c, c, book, done)'
  BY SMTT(30), <1>1, <1>3, <1>4, <1>7 DEF OrderSound, Has, Saved, Kinds
<1>9. PendingSound(c)'
  BY Zenon, <1>1, <1>4 DEF PendingSound
<1> QED
  BY Zenon, <1>4, <1>6, <1>8, <1>9, RecordStep

\* execute_agreed_round records the result that every node has a receipt of.
LEMMA CollectExecutionSound ==
    ASSUME NEW c \in Orders, NEW v, NEW book, NEW done, Sound(c, v, book, done), CollectExecution(c)
    PROVE  Sound(c, v, book, done)'
<1>1. /\ JournalShape /\ DOMAIN output = Orders /\ c \in Orders
      /\ Has("plan", c) /\ ~Has("execution", c) /\ ~Has("signed", c)
      /\ ~Has("settled", c) /\ pending = None
  BY Zenon, StageFacts DEF CollectExecution, Executing, PlanLive
<1>2. PICK n \in Nodes : Put("execution", c, node[n].completed[c])
  BY Zenon DEF CollectExecution
<1>3. \A m \in Nodes : node[m].completed[c] # None
  BY Zenon DEF CollectExecution, AgreedExecution
<1>4. node[n].completed[c] = output[c]
  BY Zenon, <1>3 DEF Sound, NodeSound, PartySound
<1>5. UNCHANGED <<node, output, ledger, pending>>
  BY Zenon DEF CollectExecution, worker
<1>6. "execution" \in Kinds
  BY Zenon DEF Kinds
<1>7. Grows(c)
  BY Zenon, <1>1, <1>2, <1>5, <1>6, PutGrows
<1>8. /\ \A k \in Kinds : k # "execution" => journal'[k][c] = journal[k][c]
      /\ journal'["execution"][c] = output[c]
  BY <1>1, <1>2, <1>4, <1>6, PutFacts
<1>9. OrderSound(c, c, book, done)'
  <2>1. OrderSound(c, c, book, done)
    BY Zenon DEF Sound
  <2> QED
    BY Zenon, <1>1, <1>3, <1>5, <1>8, <2>1 DEF OrderSound, Has, Saved, Kinds
<1>10. PendingSound(c)'
  BY Zenon, <1>1, <1>5 DEF PendingSound
<1> QED
  BY Zenon, <1>5, <1>7, <1>9, <1>10, RecordStep

\* The worker reads the ledger's root and the authorities of the round.
LEMMA BeginSigningSound ==
    ASSUME NEW c \in Orders, NEW v, NEW book, NEW done, Sound(c, v, book, done), BeginSigning(c)
    PROVE  Sound(c, v, book, done)'
<1>1. ledger.root \in Nat /\ c # None
  BY Zenon, MarketAssumption DEF Sound, LedgerSound
<1>2. UNCHANGED <<journal, node, output, ledger>>
  BY Zenon DEF BeginSigning
<1>3. pending'.step = "signing" /\ pending'.parent = ledger.root /\ Matched(c) /\ ~Has("signed", c)
  BY Zenon DEF BeginSigning
<1>4. PendingSound(c)'
  BY <1>1, <1>2, <1>3 DEF PendingSound, Matched, Has, Saved, Filled, Fills
<1> QED
  BY <1>1, <1>2, <1>4, MemoryStep

\* prepare_native_fill proves one slot or gives the attempt up.
LEMMA SignFillSound ==
    ASSUME NEW c \in Orders, NEW v, NEW book, NEW done, Sound(c, v, book, done), SignFill(c)
    PROVE  Sound(c, v, book, done)'
<1>1. ledger.root \in Nat /\ PendingSound(c)
  BY Zenon DEF Sound, LedgerSound
<1>2. UNCHANGED <<journal, node, output, ledger>>
  BY Zenon DEF SignFill
<1>3. pending # None /\ pending.step = "signing"
  BY Zenon DEF SignFill, Holding
<1>4. pending' = None \/ (pending'.step = "signing" /\ pending'.parent = pending.parent)
  BY Zenon DEF SignFill
<1>5. PendingSound(c)'
  BY Zenon, <1>1, <1>2, <1>3, <1>4 DEF PendingSound, Matched, Has, Saved, Filled, Fills
<1> QED
  BY <1>1, <1>2, <1>5, MemoryStep

\* The signed fills are recorded before they are submitted.
LEMMA RecordSignedSound ==
    ASSUME NEW c \in Orders, NEW v, NEW book, NEW done, Sound(c, v, book, done), RecordSigned(c)
    PROVE  Sound(c, v, book, done)'
<1>1. JournalShape /\ DOMAIN output = Orders /\ OrderSound(c, c, book, done) /\ PendingSound(c)
  BY Zenon DEF Sound
<1>2. /\ pending # None /\ pending.step = "signing" /\ pending' = None
      /\ Put("signed", c, pending.parent) /\ UNCHANGED <<node, output, ledger>>
  BY Zenon DEF RecordSigned, Holding
<1>3. /\ pending.parent \in Nat /\ pending.parent <= ledger.root
      /\ Matched(c) /\ ~Has("signed", c) /\ ~Has("settled", c)
  BY Zenon, <1>1, <1>2 DEF PendingSound, OrderSound
<1>4. "signed" \in Kinds
  BY Zenon DEF Kinds
<1>5. Grows(c)
  BY Zenon, <1>1, <1>2, <1>3, <1>4, PutGrows
<1>6. /\ \A k \in Kinds : k # "signed" => journal'[k][c] = journal[k][c]
      /\ journal'["signed"][c] = pending.parent
  BY <1>1, <1>2, <1>4, PutFacts
<1>7. OrderSound(c, c, book, done)'
  BY Zenon, <1>1, <1>2, <1>3, <1>6 DEF OrderSound, Has, Saved, Kinds, Matched, Filled, Fills
<1>8. PendingSound(c)'
  BY Zenon, <1>2 DEF PendingSound
<1> QED
  BY Zenon, <1>2, <1>5, <1>7, <1>8, RecordStep

\* A ledger that has the statement answers it again.
LEMMA ResubmitSettlementSound ==
    ASSUME NEW c \in Orders, NEW v, NEW book, NEW done, Sound(c, v, book, done), ResubmitSettlement(c)
    PROVE  Sound(c, v, book, done)'
<1>1. ledger.root \in Nat /\ c # None
  BY Zenon, MarketAssumption DEF Sound, LedgerSound
<1>2. UNCHANGED <<journal, node, output, ledger>>
  BY Zenon DEF ResubmitSettlement
<1>3. Request(c) # None /\ Request(c) = Saved("signed", c)
  BY Zenon DEF ResubmitSettlement, Submitting, Request
<1>4. /\ pending'.step = "settled" /\ pending'.parent = Saved("signed", c)
      /\ Has("signed", c) /\ ~Has("settled", c)
      /\ Statement(c, Saved("signed", c)) \in ledger.accepted
  BY Zenon, <1>3 DEF ResubmitSettlement, Submitting, AnswersAgain, Has
<1>5. PendingSound(c)'
  BY Zenon, <1>1, <1>2, <1>4 DEF PendingSound, Has, Saved, Statement
<1> QED
  BY <1>1, <1>2, <1>5, MemoryStep

\* The acceptance is recorded.
LEMMA RecordSettledSound ==
    ASSUME NEW c \in Orders, NEW v, NEW book, NEW done, Sound(c, v, book, done), RecordSettled(c)
    PROVE  Sound(c, v, book, done)'
<1>1. JournalShape /\ DOMAIN output = Orders /\ OrderSound(c, c, book, done) /\ PendingSound(c)
  BY Zenon DEF Sound
<1>2. /\ pending # None /\ pending.step = "settled" /\ pending' = None
      /\ Put("settled", c, pending.parent) /\ UNCHANGED <<node, output, ledger>>
  BY Zenon DEF RecordSettled, Holding
<1>3. /\ Has("signed", c) /\ ~Has("settled", c) /\ pending.parent = Saved("signed", c)
      /\ Statement(c, pending.parent) \in ledger.accepted
  BY Zenon, <1>1, <1>2 DEF PendingSound
<1>4. "settled" \in Kinds
  BY Zenon DEF Kinds
<1>5. Grows(c)
  BY Zenon, <1>1, <1>2, <1>3, <1>4, PutGrows
<1>6. /\ \A k \in Kinds : k # "settled" => journal'[k][c] = journal[k][c]
      /\ journal'["settled"][c] = pending.parent
  BY <1>1, <1>2, <1>4, PutFacts
<1>7. OrderSound(c, c, book, done)'
  BY Zenon, <1>1, <1>2, <1>3, <1>6 DEF OrderSound, Has, Saved, Kinds, Matched, Filled, Fills, Statement
<1>8. PendingSound(c)'
  BY Zenon, <1>2 DEF PendingSound
<1> QED
  BY Zenon, <1>2, <1>5, <1>7, <1>8, RecordStep

\* Every node's finality receipt is recorded, once.
LEMMA RecordFinalitySound ==
    ASSUME NEW c \in Orders, NEW v, NEW book, NEW done, Sound(c, v, book, done), RecordFinality(c)
    PROVE  Sound(c, v, book, done)'
<1>1. /\ JournalShape /\ DOMAIN output = Orders /\ OrderSound(c, c, book, done)
      /\ ledger.root \in Nat /\ c # None
  BY Zenon, MarketAssumption DEF Sound, LedgerSound
<1>2. /\ Has("settled", c) /\ EveryNodeFinal(c) /\ pending'.step = "final"
      /\ UNCHANGED <<node, output, ledger>>
  BY Zenon DEF RecordFinality, Finalizing
<1>3. EveryNodeFinal(c)'
  BY Zenon, <1>2 DEF EveryNodeFinal
<1>4. CASE UNCHANGED journal
  <2>1. PendingSound(c)'
    BY Zenon, <1>1, <1>2, <1>3, <1>4 DEF PendingSound, Has, Saved
  <2> QED
    BY <1>1, <1>2, <1>4, <2>1, MemoryStep
<1>5. CASE ~Has("finality", c) /\ Put("finality", c, "final")
  <2>1. "finality" \in Kinds
    BY Zenon DEF Kinds
  <2>2. Grows(c)
    BY Zenon, <1>1, <1>2, <1>5, <2>1, PutGrows
  <2>3. \A k \in Kinds : k # "finality" => journal'[k][c] = journal[k][c]
    BY <1>1, <1>5, <2>1, PutFacts
  <2>4. OrderSound(c, c, book, done)'
    BY Zenon, <1>1, <1>2, <2>3 DEF OrderSound, Has, Saved, Kinds, Matched, Filled, Fills, Statement
  <2>5. PendingSound(c)'
    BY Zenon, <1>1, <1>2, <1>3, <2>3 DEF PendingSound, Has, Saved, Kinds
  <2> QED
    BY Zenon, <1>2, <2>2, <2>4, <2>5, RecordStep
<1> QED
  BY Zenon, <1>4, <1>5 DEF RecordFinality

\* The result that was recorded for the current order fits the book.
LEMMA ExecutionFacts ==
    ASSUME NEW c \in Orders, NEW v, NEW book, NEW done, Sound(c, v, book, done), Has("execution", c)
    PROVE  /\ Saved("execution", c) = output[c] /\ ResultSound(output[c], c, book)
           /\ c \notin done /\ DOMAIN book \subseteq done /\ done \subseteq Orders
           /\ \A n \in Nodes : node[n].completed[c] = output[c]
<1>1. OrderSound(c, c, book, done)
  BY Zenon DEF Sound
<1>2. Saved("execution", c) = output[c] /\ output[c] # None /\ \A n \in Nodes : node[n].completed[c] # None
  BY Zenon, <1>1 DEF OrderSound, Has
<1>3. ResultSound(output[c], c, book)
  BY Zenon, <1>1, <1>2 DEF OrderSound
<1>4. c \notin done /\ DOMAIN book \subseteq done /\ done \subseteq Orders
  BY Zenon, MarketAssumption DEF Sound, BookSound
<1>5. \A n \in Nodes : node[n].completed[c] = output[c]
  BY Zenon, <1>2 DEF Sound, NodeSound, PartySound
<1> QED
  BY Zenon, <1>2, <1>3, <1>4, <1>5

\* The ledger takes the fills of the current round out of the reservations.
LEMMA SettledLedgerSound ==
    ASSUME NEW c \in Orders, NEW v, NEW book, NEW done, Sound(c, v, book, done), Has("signed", c),
           ledger.root = Saved("signed", c), UNCHANGED journal,
           ledger' = SettledLedger(c, Saved("signed", c))
    PROVE  LedgerSound(c, book, done)'
<1> DEFINE r == Saved("execution", c)
<1>1. /\ Has("execution", c) /\ ledger.root \in Nat /\ LedgerSound(c, book, done)
  BY Zenon DEF Sound, LedgerSound, OrderSound, Matched
<1>2. /\ DOMAIN r.fills = DOMAIN book /\ c \notin done /\ DOMAIN book \subseteq done /\ done \subseteq Orders
  BY Zenon, <1>1, ExecutionFacts DEF ResultSound
<1>3. ~AcceptedRound(c)
  BY SMTT(30), <1>1 DEF AcceptedRound, LedgerSound
<1>4. /\ ledger'.root = ledger.root + 1
      /\ ledger'.open = IF r.left = 0 THEN ledger.open \ {c} ELSE ledger.open
      /\ ledger'.accepted = ledger.accepted \cup {Statement(c, Saved("signed", c))}
      /\ \A p \in DOMAIN book : ledger'.remaining[p] = ledger.remaining[p] - r.fills[p]
      /\ ledger'.remaining[c] = ledger.remaining[c] - Taken(r.fills)
      /\ \A p \in Orders : p \notin DOMAIN book /\ p # c => ledger'.remaining[p] = ledger.remaining[p]
  BY Zenon, <1>2 DEF SettledLedger
<1>5. Statement(c, Saved("signed", c)).round = c
  BY Zenon DEF Statement
<1>6. \A o : AcceptedRound(o)' <=> (AcceptedRound(o) \/ o = c)
  BY Zenon, <1>4, <1>5 DEF AcceptedRound
<1>7. ASSUME NEW s \in ledger'.accepted
      PROVE  /\ s.round \in Orders /\ Has("signed", s.round)'
             /\ s = Statement(s.round, Saved("signed", s.round)')
             /\ Saved("signed", s.round)' < ledger'.root
  <2>1. CASE s \in ledger.accepted
    <3>1. /\ s.round \in Orders /\ Has("signed", s.round)
          /\ s = Statement(s.round, Saved("signed", s.round)) /\ Saved("signed", s.round) < ledger.root
      BY Zenon, <1>1, <2>1 DEF LedgerSound
    <3>2. Saved("signed", s.round) \in Nat
      BY Zenon, <3>1 DEF Sound, OrderSound
    <3> QED
      BY SMTT(30), <3>1, <3>2, <1>1, <1>4 DEF Has, Saved
  <2>2. CASE s = Statement(c, Saved("signed", c))
    BY SMTT(30), <1>1, <1>4, <1>5, <2>2 DEF Has, Saved
  <2> QED
    BY Zenon, <2>1, <2>2, <1>4
<1>8. \A p \in DOMAIN book :
        p \in ledger'.open /\ ledger'.remaining[p] = book[p] - Fills(c)'[p]
  BY Zenon, <1>1, <1>2, <1>3, <1>4 DEF LedgerSound, Fills, Saved
<1>9. ASSUME NEW o \in Orders \ done
      PROVE  IF AcceptedRound(o)'
             THEN /\ Saved("execution", o)'.left # 0 => o \in ledger'.open
                  /\ ledger'.remaining[o] = Quantity[o] - Taken(Fills(o)')
             ELSE o \in ledger'.open /\ ledger'.remaining[o] = Quantity[o]
  <2>1. CASE o = c
    BY Zenon, <1>1, <1>3, <1>4, <1>6, <2>1 DEF LedgerSound, Fills, Saved
  <2>2. CASE o # c
    BY Zenon, <1>1, <1>2, <1>4, <1>6, <2>2 DEF LedgerSound, Fills, Saved
  <2> QED
    BY Zenon, <2>1, <2>2
<1>10. ledger'.root \in Nat
  BY <1>1, <1>4
<1> QED
  BY Zenon, <1>6, <1>7, <1>8, <1>9, <1>10 DEF LedgerSound, Statement

\* The ledger accepts the recorded fills; the answer may be lost.
LEMMA SubmitSettlementSound ==
    ASSUME NEW c \in Orders, NEW v, NEW book, NEW done, Sound(c, v, book, done), SubmitSettlement(c)
    PROVE  Sound(c, v, book, done)'
<1>1. /\ Request(c) = Saved("signed", c) /\ Has("signed", c) /\ ~Has("settled", c)
      /\ ledger.root = Saved("signed", c) /\ UNCHANGED <<journal, node, output>>
      /\ ledger' = SettledLedger(c, Saved("signed", c))
      /\ pending' = None \/ pending' = [step |-> "settled", parent |-> Saved("signed", c)]
  BY Zenon DEF SubmitSettlement, Submitting, Request, Settleable, Has
<1>2. LedgerSound(c, book, done)'
  BY Zenon, <1>1, SettledLedgerSound
<1>3. ledger.root \in Nat /\ c # None
  BY Zenon, MarketAssumption DEF Sound, LedgerSound
<1>4. /\ ledger'.root = ledger.root + 1
      /\ ledger'.accepted = ledger.accepted \cup {Statement(c, Saved("signed", c))}
  BY Zenon, <1>1 DEF SettledLedger
<1>5. Keeps
  BY <1>1, <1>3, <1>4 DEF Keeps
<1>6. Grows(c)
  BY Zenon, <1>1 DEF Sound, Grows, JournalShape
<1>7. \A o \in Orders : OrderSound(o, c, book, done)'
  BY Zenon, <1>1, <1>5, OrderFrame DEF Sound
<1>8. \A n \in Nodes : \A s \in {node'[n]} : NodeSound(s, c, v, book, done)'
  BY Zenon, <1>1, <1>6, NodeFrame DEF Sound
<1>9. PendingSound(c)'
  BY <1>1, <1>3, <1>4 DEF PendingSound, Has, Saved, Statement
<1>10. BookSound(c, v, book, done)'
  BY Zenon DEF Sound, BookSound
<1> QED
  BY Zenon, <1>1, <1>2, <1>6, <1>7, <1>8, <1>9, <1>10 DEF Sound, Grows

-----------------------------------------------------------------------------
(* The steps of the nodes *)

\* A node is sound where its shape and party are and its heads did not change.
LEMMA SameHeads ==
    ASSUME NEW c, NEW v, NEW book, NEW done, NEW s, NodeSound(s, c, v, book, done),
           NEW t, NodeShape(t), PartySound(t, c, v), t.finalized = s.finalized, t.heads = s.heads
    PROVE  NodeSound(t, c, v, book, done)
BY Zenon DEF NodeSound, HeadsSound, Amount

\* A party of the current round starts on a node.
LEMMA StartExecuteSound ==
    ASSUME NEW c \in Orders, NEW v, NEW book, NEW done, Sound(c, v, book, done),
           NEW n \in Nodes, StartExecute(n, c)
    PROVE  Sound(c, v, book, done)'
<1>1. PICK s : s = node[n]
  OBVIOUS
<1>2. PICK t : t = Started(s, c)
  OBVIOUS
<1>3. /\ UNCHANGED <<journal, output, ledger, pending>> /\ node' = [node EXCEPT ![n] = t]
      /\ Has("plan", c) /\ s.completed[c] = None /\ <<"dir", c>> \notin s.debris
  BY Zenon, <1>1, <1>2 DEF StartExecute, worker, Executing, PlanLive
<1>4. NodeSound(s, c, v, book, done) /\ OrderSound(c, c, book, done) /\ c # None
  BY Zenon, <1>1, MarketAssumption DEF Sound
<1>5. /\ NodeShape(t) /\ t.head = Digest(Saved("plan", c).certificate) /\ t.stage = "running" /\ t.round = c
      /\ t.completed = s.completed /\ t.debris = s.debris /\ t.finalized = s.finalized /\ t.heads = s.heads
  BY Zenon, <1>2, <1>4 DEF Started, NodeSound, NodeShape
<1>6. Has("certificate", c) /\ t.head = HeadOf(c)
  BY Zenon, <1>3, <1>4, <1>5 DEF OrderSound, HeadOf
<1>7. PartySound(t, c, v)
  BY Zenon, <1>3, <1>4, <1>5, <1>6 DEF NodeSound, PartySound
<1>8. NodeSound(t, c, v, book, done)
  BY Zenon, <1>4, <1>5, <1>7, SameHeads
<1>9. NodeKeeps(node[n], t)
  BY Zenon, <1>1, <1>5 DEF NodeKeeps
<1> QED
  BY Zenon, <1>9, <1>3, <1>8, NodeStepSound

\* A party ends without a receipt and leaves debris of its round.
LEMMA AbandonedSound ==
    ASSUME NEW c, NEW v, NEW book, NEW done, Sound(c, v, book, done),
           NEW n \in Nodes, NEW left, node' = [node EXCEPT ![n] = Abandoned(node[n], left)],
           UNCHANGED <<journal, output, ledger, pending>>
    PROVE  Sound(c, v, book, done)'
<1>1. PICK s : s = node[n]
  OBVIOUS
<1>2. PICK t : t = Abandoned(s, left)
  OBVIOUS
<1>3. NodeSound(s, c, v, book, done) /\ node' = [node EXCEPT ![n] = t]
  BY Zenon, <1>1, <1>2 DEF Sound
<1>4. /\ NodeShape(t) /\ t.head = s.head /\ t.stage = "idle"
      /\ t.completed = s.completed /\ t.finalized = s.finalized /\ t.heads = s.heads
  BY Zenon, <1>2, <1>3 DEF Abandoned, NodeSound, NodeShape
<1>5. PartySound(t, c, v)
  BY Zenon, <1>3, <1>4 DEF NodeSound, PartySound
<1>6. NodeSound(t, c, v, book, done)
  BY Zenon, <1>3, <1>4, <1>5, SameHeads
<1>9. NodeKeeps(node[n], t)
  BY Zenon, <1>1, <1>4 DEF NodeKeeps
<1> QED
  BY Zenon, <1>9, <1>3, <1>6, NodeStepSound

\* A node records its receipt, unless a file of the round was left.
LEMMA RecordCompletedSound ==
    ASSUME NEW c, NEW v, NEW book, NEW done, Sound(c, v, book, done),
           NEW n \in Nodes, RecordCompleted(n)
    PROVE  Sound(c, v, book, done)'
<1>1. PICK s : s = node[n]
  OBVIOUS
<1>2. PICK t : t = Finished(s)
  OBVIOUS
<1>3. /\ UNCHANGED <<journal, output, ledger, pending>> /\ node' = [node EXCEPT ![n] = t]
      /\ s.stage = "finished"
  BY Zenon, <1>1, <1>2 DEF RecordCompleted, worker
<1>4. NodeSound(s, c, v, book, done) /\ c \in Orders
  BY Zenon, <1>1, <1>3 DEF Sound, NodeSound, PartySound, BookSound
<1>5. s.round = c /\ s.completed[c] = None /\ s.head = HeadOf(c) /\ Has("plan", c) /\ c # None
  BY Zenon, <1>3, <1>4 DEF NodeSound, PartySound
<1>6. /\ NodeShape(t) /\ t.head = s.head /\ t.stage = "idle" /\ t.finalized = s.finalized
      /\ t.heads = s.heads /\ t.completed[c] \in {None, output[c]}
      /\ \A o \in Orders : o # c => t.completed[o] = s.completed[o]
  BY Zenon, <1>2, <1>4, <1>5 DEF Finished, NodeSound, NodeShape
<1>7. PartySound(t, c, v)
  BY Zenon, <1>4, <1>5, <1>6 DEF NodeSound, PartySound
<1>8. NodeSound(t, c, v, book, done)
  BY Zenon, <1>4, <1>6, <1>7, SameHeads
<1>9. NodeKeeps(node[n], t)
  BY Zenon, <1>1, <1>5, <1>6 DEF NodeKeeps
<1> QED
  BY Zenon, <1>9, <1>3, <1>8, NodeStepSound

\* A node has read the settlement in the canonical ledger.
LEMMA ConfirmFinalitySound ==
    ASSUME NEW c, NEW v, NEW book, NEW done, Sound(c, v, book, done),
           NEW n \in Nodes, NEW o, ConfirmFinality(n, o)
    PROVE  Sound(c, v, book, done)'
<1>1. PICK s : s = node[n]
  OBVIOUS
<1>2. PICK t : t = [s EXCEPT !.observed = @ \cup {o}]
  OBVIOUS
<1>3. UNCHANGED <<journal, output, ledger, pending>> /\ node' = [node EXCEPT ![n] = t]
  BY Zenon, <1>1, <1>2 DEF ConfirmFinality, worker
<1>4. NodeSound(s, c, v, book, done)
  BY Zenon, <1>1 DEF Sound
<1>5. /\ NodeShape(t) /\ t.head = s.head /\ t.stage = s.stage /\ t.round = s.round
      /\ t.completed = s.completed /\ t.debris = s.debris /\ t.finalized = s.finalized /\ t.heads = s.heads
  BY Zenon, <1>2, <1>4 DEF NodeSound, NodeShape
<1>6. PartySound(t, c, v)
  BY Zenon, <1>4, <1>5 DEF NodeSound, PartySound
<1>7. NodeSound(t, c, v, book, done)
  BY Zenon, <1>4, <1>5, <1>6, SameHeads
<1>9. NodeKeeps(node[n], t)
  BY Zenon, <1>1, <1>5 DEF NodeKeeps
<1> QED
  BY Zenon, <1>9, <1>3, <1>7, NodeStepSound

\* A node makes the private state of the settled round its head.
LEMMA FinalizeNodeSound ==
    ASSUME NEW c \in Orders, NEW v, NEW book, NEW done, Sound(c, v, book, done),
           NEW n \in Nodes, FinalizeNode(n, c)
    PROVE  Sound(c, v, book, done)'
<1>1. PICK s : s = node[n]
  OBVIOUS
<1>2. PICK t : t = Finalized(s, c)
  OBVIOUS
<1>3. /\ UNCHANGED <<journal, output, ledger, pending>> /\ node' = [node EXCEPT ![n] = t]
      /\ c \notin s.finalized /\ Has("settled", c)
  BY Zenon, <1>1, <1>2 DEF FinalizeNode, Finalizing, worker
<1>4. NodeSound(s, c, v, book, done) /\ Has("execution", c)
  BY Zenon, <1>1, <1>3 DEF Sound, OrderSound, Matched
<1>5. PICK r : r = Saved("execution", c)
  OBVIOUS
<1>6. /\ s.completed[c] = r /\ r = output[c] /\ ResultSound(r, c, book)
      /\ c \notin done /\ DOMAIN book \subseteq done /\ done \subseteq Orders
  BY <1>1, <1>4, <1>5, ExecutionFacts
<1>7. /\ NodeShape(t) /\ t.head = s.head /\ t.stage = s.stage /\ t.round = s.round
      /\ t.completed = s.completed /\ t.debris = s.debris /\ t.finalized = s.finalized \cup {c}
      /\ t.heads = FinalHeads(s, c)
  BY Zenon, <1>2, <1>4 DEF Finalized, FinalHeads, NodeSound, NodeShape
<1>8. PartySound(t, c, v)
  BY Zenon, <1>4, <1>7 DEF NodeSound, PartySound
<1>9. HeadsSound(t, c, book, done)
  <2>1. \A o \in t.finalized : o \in Orders /\ Has("settled", o)
    BY Zenon, <1>3, <1>4, <1>7 DEF NodeSound, HeadsSound
  <2>2. ASSUME NEW p \in DOMAIN book
        PROVE  Amount(t, p) = book[p] - Fills(c)[p]
    <3>1. Amount(s, p) = book[p] /\ book[p] \in Nat
      BY Zenon, <1>3, <1>4 DEF NodeSound, HeadsSound, Sound, BookSound
    <3>2. p \in Orders /\ p \in DOMAIN r.fills /\ r.fills[p] \in Nat /\ r.fills[p] <= book[p]
      BY Zenon, <1>6 DEF ResultSound
    <3>3. t.heads[p] = book[p] - r.fills[p]
      BY Zenon, <1>6, <1>7, <3>1, <3>2 DEF FinalHeads
    <3>4. t.heads[p] \in Nat
      BY <3>1, <3>2, <3>3
    <3> QED
      BY Zenon, <1>5, <3>3, <3>4, MarketAssumption DEF Amount, Fills
  <2>3. ASSUME NEW o \in Orders \ done
        PROVE  t.heads[o] = IF o \in t.finalized /\ Saved("execution", o).left > 0
                            THEN Saved("execution", o).left ELSE None
    <3>1. o \notin DOMAIN r.fills
      BY Zenon, <1>6 DEF ResultSound
    <3>2. s.heads[o] = IF o \in s.finalized /\ Saved("execution", o).left > 0
                       THEN Saved("execution", o).left ELSE None
      BY Zenon, <1>4 DEF NodeSound, HeadsSound
    <3>3. t.heads[o] = IF o = c /\ r.left > 0 THEN r.left ELSE s.heads[o]
      BY Zenon, <1>6, <1>7, <3>1 DEF FinalHeads
    <3> QED
      BY Zenon, <1>3, <1>5, <1>7, <3>2, <3>3
  <2> QED
    BY Zenon, <1>7, <2>1, <2>2, <2>3 DEF HeadsSound
<1>10. NodeSound(t, c, v, book, done)
  BY Zenon, <1>7, <1>8, <1>9 DEF NodeSound
<1>11. NodeKeeps(node[n], t)
  BY Zenon, <1>1, <1>7 DEF NodeKeeps
<1> QED
  BY Zenon, <1>3, <1>10, <1>11, NodeStepSound

\* What an MPC over the book can open fits the book.
LEMMA ResultsFit ==
    ASSUME NEW c \in Orders, NEW book, \A p \in DOMAIN book : book[p] \in Nat,
           NEW amount, DOMAIN amount = DOMAIN book, \A p \in DOMAIN book : amount[p] = book[p],
           NEW r \in Results(c, amount)
    PROVE  ResultSound(r, c, book)
<1>1. Quantity[c] \in Nat
  BY Zenon, MarketAssumption
<1>2. r.fills \in [DOMAIN amount -> 0..Quantity[c]] /\ r.left \in 0..Quantity[c]
  BY Zenon DEF Results
<1>3. \A p \in DOMAIN amount : r.fills[p] <= amount[p]
  BY Zenon DEF Results
<1>4. r.left \in {0, Quantity[c] - Taken(r.fills)}
  BY Zenon DEF Results
<1> QED
  BY <1>1, <1>2, <1>3, <1>4 DEF ResultSound

\* The MPC of the current order opens its output on every node.
LEMMA RunMpcSound ==
    ASSUME NEW c, NEW v, NEW book, NEW done, Sound(c, v, book, done), NEW o \in Orders, RunMpc(o)
    PROVE  Sound(c, v, book, done)'
<1>1. PICK n \in Nodes : \E r \in Results(o, [p \in Saved("plan", o).resting |-> Amount(node[n], p)]) :
            output' = [output EXCEPT ![o] = IF @ = None THEN r ELSE @]
  BY Zenon DEF RunMpc
<1>2. PICK r \in Results(o, [p \in Saved("plan", o).resting |-> Amount(node[n], p)]) :
            output' = [output EXCEPT ![o] = IF @ = None THEN r ELSE @]
  BY Zenon, <1>1
<1>3. /\ UNCHANGED <<journal, ledger, pending>>
      /\ node' = [m \in Nodes |-> [node[m] EXCEPT !.stage = "finished"]]
      /\ \A m \in Nodes : node[m].stage = "running" /\ node[m].round = o
  BY Zenon DEF RunMpc, worker
<1>4. /\ \A m \in Nodes : NodeSound(node[m], c, v, book, done)
      /\ OrderSound(o, c, book, done) /\ DOMAIN output = Orders /\ BookSound(c, v, book, done)
  BY Zenon DEF Sound
<1>5. c = o /\ Has("plan", o) /\ \A m \in Nodes : node[m].completed[o] = None
  BY Zenon, <1>3, <1>4 DEF NodeSound, PartySound
<1>6. ~Has("execution", o)
  BY Zenon, <1>4, <1>5 DEF OrderSound
<1>7. o \notin node[n].finalized
  BY Zenon, <1>4, <1>6 DEF NodeSound, HeadsSound, OrderSound, Matched
<1>8. output'[o] # None => ResultSound(output'[o], o, book)
  <2>1. PICK amount : amount = [p \in Saved("plan", o).resting |-> Amount(node[n], p)]
    OBVIOUS
  <2>2. DOMAIN amount = DOMAIN book /\ \A p \in DOMAIN book : amount[p] = book[p]
    BY Zenon, <1>4, <1>5, <1>7, <2>1 DEF NodeSound, HeadsSound, OrderSound
  <2>3. ResultSound(r, o, book)
    BY Zenon, <1>2, <1>4, <2>1, <2>2, ResultsFit DEF BookSound
  <2> QED
    BY Zenon, <1>2, <1>4, <1>5, <2>3 DEF OrderSound
<1>9. ASSUME NEW m \in Nodes, NEW s, s = node[m], NEW t, t = node'[m]
      PROVE  /\ NodeShape(t) /\ t.head = s.head /\ t.stage = "finished" /\ t.round = o
             /\ t.completed = s.completed /\ t.debris = s.debris
             /\ t.finalized = s.finalized /\ t.heads = s.heads
  BY Zenon, <1>3, <1>4, <1>9 DEF NodeSound, NodeShape
<1>10. Keeps
  BY <1>3, <1>9 DEF Keeps, Sound, LedgerSound
<1>11. Grows(c)
  BY Zenon, <1>2, <1>3, <1>4, <1>5 DEF Sound, Grows, JournalShape
<1>12. ASSUME NEW p \in Orders
       PROVE  OrderSound(p, c, book, done)'
  <2>1. OrderSound(p, c, book, done)
    BY Zenon DEF Sound
  <2>2. CASE p # o
    BY Zenon, <1>2, <1>3, <1>4, <1>10, <2>1, <2>2, OrderFrame
  <2>3. CASE p = o
    BY Zenon, <1>3, <1>4, <1>5, <1>6, <1>8, <2>3 DEF OrderSound, Has, Saved, Matched
  <2> QED
    BY Zenon, <2>2, <2>3
<1>13. ASSUME NEW m \in Nodes, NEW t \in {node'[m]}
       PROVE  NodeSound(t, c, v, book, done)'
  <2>1. PICK s : s = node[m]
    OBVIOUS
  <2>2. /\ NodeShape(t) /\ t.head = s.head /\ t.stage = "finished" /\ t.round = o
        /\ t.completed = s.completed /\ t.debris = s.debris
        /\ t.finalized = s.finalized /\ t.heads = s.heads
    BY <2>1, <1>9
  <2>3. NodeSound(s, c, v, book, done) /\ s.stage = "running"
    BY Zenon, <1>3, <1>4, <2>1
  <2>4. PartySound(t, c, v)
    BY Zenon, <1>5, <2>2, <2>3 DEF NodeSound, PartySound
  <2>5. NodeSound(t, c, v, book, done)
    BY Zenon, <2>2, <2>3, <2>4, SameHeads
  <2> QED
    BY Zenon, <1>4, <1>11, <2>5, NodeFrame DEF Sound
<1>14. LedgerSound(c, book, done)'
  BY Zenon, <1>3, <1>10, <1>11, LedgerFrame DEF Sound
<1>15. PendingSound(c)'
  <2>1. pending = None
    BY Zenon, <1>5, <1>6 DEF Sound, PendingSound, OrderSound, Matched
  <2> QED
    BY Zenon, <1>3, <2>1 DEF PendingSound
<1>16. BookSound(c, v, book, done)' /\ DOMAIN node' = Nodes
  BY Zenon, <1>3, <1>4 DEF BookSound
<1> QED
  BY Zenon, <1>11, <1>12, <1>13, <1>14, <1>15, <1>16 DEF Sound, Grows

-----------------------------------------------------------------------------
(* Completion and intake *)

\* What the completion of the current order leaves unchanged, and what it
\* knows: the round is final on every node and settled, or moved nothing.
LEMMA CompletionFacts ==
    ASSUME NEW c \in Orders, NEW v, NEW book, NEW done, Sound(c, v, book, done), CompleteRound(c)
    PROVE  /\ JournalShape' /\ UNCHANGED <<node, output, ledger>> /\ pending' = None
           /\ Has("execution", c) /\ journal'["done"][c] = NextBook(c)
           /\ \A k \in Kinds \ {"done"} : \A o \in Orders : journal'[k][o] = journal[k][o]
           /\ \A o \in Orders : o # c => journal'["done"][o] = journal["done"][o]
           /\ \/ EveryNodeFinal(c) /\ AcceptedRound(c)
              \/ /\ \A p \in DOMAIN book : Fills(c)[p] = 0
                 /\ Taken(Fills(c)) = 0
<1>1. /\ UNCHANGED <<node, output, ledger>> /\ pending' = None /\ Has("execution", c)
      /\ Put("done", c, NextBook(c))
      /\ IF Matched(c) THEN pending = [step |-> "final"] ELSE pending = None
  BY Zenon DEF CompleteRound
<1>2. JournalShape /\ PendingSound(c) /\ OrderSound(c, c, book, done) /\ "done" \in Kinds
  BY Zenon DEF Sound, Kinds
<1>3. /\ JournalShape' /\ journal'["done"][c] = NextBook(c)
      /\ \A k \in Kinds : \A p \in Orders : (k # "done" \/ p # c) => journal'[k][p] = journal[k][p]
  BY <1>1, <1>2, PutFacts
<1>4. ASSUME Matched(c)
      PROVE  EveryNodeFinal(c) /\ AcceptedRound(c)
  <2>1. pending # None /\ pending.step = "final"
    BY <1>1, <1>4, MarketAssumption
  <2>2. EveryNodeFinal(c) /\ Has("settled", c)
    BY Zenon, <1>2, <2>1 DEF PendingSound
  <2>3. Statement(c, Saved("signed", c)) \in ledger.accepted
    BY Zenon, <1>2, <2>2 DEF OrderSound
  <2> QED
    BY Zenon, <2>2, <2>3 DEF AcceptedRound, Statement
<1>5. ASSUME ~Matched(c)
      PROVE  (\A p \in DOMAIN book : Fills(c)[p] = 0) /\ Taken(Fills(c)) = 0
  <2>1. /\ DOMAIN Fills(c) = DOMAIN book
        /\ \A p \in DOMAIN book : Fills(c)[p] \in Nat
    BY Zenon, <1>1, ExecutionFacts DEF Fills, ResultSound
  <2>2. Filled(c) = {}
    BY Zenon, <1>1, <1>5 DEF Matched
  <2>3. \A p \in DOMAIN book : Fills(c)[p] = 0
    BY <2>1, <2>2 DEF Filled
  <2> QED
    BY Zenon, <2>1, <2>3 DEF Taken
<1> QED
  BY Zenon, <1>1, <1>2, <1>3, <1>4, <1>5

\* The book that a completion records.
LEMMA NextBookFacts ==
    ASSUME NEW c \in Orders, NEW v, NEW book, NEW done, Sound(c, v, book, done), book = Book,
           Has("execution", c), NEW nb, nb = NextBook(c)
    PROVE  /\ DOMAIN nb \subseteq done \cup {c}
           /\ \A p \in DOMAIN nb :
                \/ /\ p # c /\ p \in DOMAIN book /\ nb[p] = book[p] - Fills(c)[p]
                   /\ book[p] \in Nat /\ Fills(c)[p] \in Nat /\ nb[p] \in Nat
                \/ /\ p = c /\ nb[p] = Saved("execution", c).left /\ nb[p] > 0
                   /\ nb[p] \in Nat /\ nb[p] = Quantity[c] - Taken(Fills(c))
<1>1. PICK r : r = Saved("execution", c)
  OBVIOUS
<1>2. /\ ResultSound(r, c, book) /\ c \notin done /\ DOMAIN book \subseteq done
      /\ \A p \in DOMAIN book : book[p] \in Nat
  BY <1>1, ExecutionFacts DEF Sound, BookSound
<1>3. /\ DOMAIN nb = {q \in DOMAIN book : book[q] > r.fills[q]} \cup {q \in {c} : r.left > 0}
      /\ \A p \in DOMAIN nb : nb[p] = IF p = c THEN r.left ELSE book[p] - r.fills[p]
  BY Zenon, <1>1 DEF NextBook, Fills
<1>4. ASSUME NEW p \in DOMAIN book, p \in DOMAIN nb
      PROVE  /\ p # c /\ nb[p] = book[p] - r.fills[p] /\ book[p] \in Nat /\ r.fills[p] \in Nat
             /\ nb[p] \in Nat
  BY <1>2, <1>3, <1>4 DEF ResultSound
<1>5. ASSUME NEW p \in DOMAIN nb, p \notin DOMAIN book
      PROVE  p = c /\ nb[p] = r.left /\ r.left > 0 /\ r.left \in Nat /\ r.left = Quantity[c] - Taken(r.fills)
  BY <1>2, <1>3, <1>5 DEF ResultSound
<1>6. DOMAIN nb \subseteq done \cup {c}
  BY Zenon, <1>2, <1>3
<1> QED
  BY Zenon, <1>1, <1>4, <1>5, <1>6 DEF Fills

\* An order that is neither completed nor current has no trace anywhere.
LEMMA Untouched ==
    ASSUME NEW c, NEW v, NEW book, NEW done, Sound(c, v, book, done), NEW o \in Orders, o \notin done, o # c
    PROVE  /\ \A k \in Kinds : ~Has(k, o)
           /\ output[o] = None /\ ~AcceptedRound(o)
           /\ \A n \in Nodes : node[n].completed[o] = None /\ o \notin node[n].finalized
<1>1. OrderSound(o, c, book, done) /\ LedgerSound(c, book, done)
  BY Zenon DEF Sound
<1>2. \A k \in Kinds : ~Has(k, o)
  BY Zenon, <1>1 DEF OrderSound
<1>3. ~Has("plan", o) /\ ~Has("signed", o) /\ ~Has("settled", o)
  BY Zenon, <1>2 DEF Kinds
<1>4. output[o] = None
  BY Zenon, <1>1, <1>3 DEF OrderSound
<1>5. ~AcceptedRound(o)
  BY <1>1, <1>3 DEF LedgerSound, AcceptedRound
<1>6. ASSUME NEW n \in Nodes
      PROVE  node[n].completed[o] = None /\ o \notin node[n].finalized
  <2>1. NodeSound(node[n], c, v, book, done)
    BY Zenon DEF Sound
  <2> QED
    BY Zenon, <1>3, <1>4, <2>1 DEF NodeSound, PartySound, HeadsSound
<1> QED
  BY Zenon, <1>2, <1>4, <1>5, <1>6

\* A completion makes the current order the previous one: every node stands on
\* its certificate with an idle party, and committee and ledger hold the book
\* that is recorded.
LEMMA CompletionSound ==
    ASSUME NEW c \in Orders, NEW v, NEW book, NEW done, Sound(c, v, book, done), book = Book,
           CompleteRound(c), NEW d, d \in (Orders \ (done \cup {c})) \cup {None},
           NEW nb, nb = NextBook(c)
    PROVE  Sound(d, c, nb, done \cup {c})'
<1>1. /\ JournalShape' /\ UNCHANGED <<node, output, ledger>> /\ pending' = None /\ Has("execution", c)
      /\ \A k \in Kinds \ {"done"} : \A o \in Orders : journal'[k][o] = journal[k][o]
      /\ \A o \in Orders : o # c => journal'["done"][o] = journal["done"][o]
  BY Zenon, CompletionFacts
<1>2. \/ EveryNodeFinal(c) /\ AcceptedRound(c)
      \/ (\A p \in DOMAIN book : Fills(c)[p] = 0) /\ Taken(Fills(c)) = 0
  BY Zenon, CompletionFacts
<1>3. /\ DOMAIN nb \subseteq done \cup {c}
      /\ \A p \in DOMAIN nb :
           \/ /\ p # c /\ p \in DOMAIN book /\ nb[p] = book[p] - Fills(c)[p]
              /\ book[p] \in Nat /\ Fills(c)[p] \in Nat /\ nb[p] \in Nat
           \/ /\ p = c /\ nb[p] = Saved("execution", c).left /\ nb[p] > 0
              /\ nb[p] \in Nat /\ nb[p] = Quantity[c] - Taken(Fills(c))
  BY <1>1, NextBookFacts
<1>4. /\ c \notin done /\ done \subseteq Orders /\ c # None
      /\ {"certificate", "plan", "execution", "signed", "settled"} \subseteq Kinds \ {"done"}
  BY Zenon, <1>1, ExecutionFacts, MarketAssumption DEF Kinds
<1>5. \A k \in Kinds \ {"done"} : \A o \in Orders : (Has(k, o)' <=> Has(k, o)) /\ Saved(k, o)' = Saved(k, o)
  BY Zenon, <1>1 DEF Has, Saved
<1>6. d # None =>
        /\ d \in Orders /\ (\A k \in Kinds : ~Has(k, d)) /\ output[d] = None /\ ~AcceptedRound(d)
        /\ \A n \in Nodes : node[n].completed[d] = None /\ d \notin node[n].finalized
  BY Zenon, Untouched
<1>7. BookSound(d, c, nb, done \cup {c})
  BY Zenon, <1>3, <1>4 DEF BookSound
<1>8. ASSUME NEW o \in Orders
      PROVE  OrderSound(o, d, nb, done \cup {c})'
  <2>1. OrderSound(o, c, book, done)
    BY Zenon DEF Sound
  <2>2. \A k \in Kinds : Has(k, o)' => o \in (done \cup {c}) \cup {d}
    BY <1>1, <1>5, <2>1 DEF OrderSound, Has, Saved
  <2>3. d = o => output[o] = None /\ ~Has("plan", o)
    BY Zenon, <1>4, <1>6, MarketAssumption
  <2>4. Matched(o)' <=> Matched(o)
    BY Zenon, <1>4, <1>5 DEF Matched, Filled, Fills
  <2> QED
    BY <1>1, <1>4, <1>5, <2>1, <2>2, <2>3, <2>4 DEF OrderSound
<1>9. ASSUME NEW n \in Nodes, NEW s \in {node'[n]}
      PROVE  NodeSound(s, d, c, nb, done \cup {c})'
  <2>1. /\ NodeSound(s, c, v, book, done) /\ s = node[n]
        /\ s.completed[c] = output[c] /\ output[c] # None
    BY <1>1, <1>9, ExecutionFacts DEF Sound, Has
  <2>2. s.stage = "idle" /\ s.head = HeadOf(c) /\ HeadOf(c)' = HeadOf(c)
    BY Zenon, <1>4, <1>5, <2>1 DEF NodeSound, PartySound, HeadOf
  <2>3. (d # None => d \notin s.finalized /\ s.completed[d] = None) /\ None \notin s.finalized
    BY Zenon, <1>6, <2>1, MarketAssumption DEF NodeSound, HeadsSound
  <2>4. PartySound(s, d, c)'
    BY <1>1, <1>4, <2>1, <2>2, <2>3, MarketAssumption DEF NodeSound, PartySound
  <2>5. ASSUME NEW p \in DOMAIN nb
        PROVE  Amount(s, p) = nb[p]
    <3>1. CASE p = c
      <4>1. s.heads[c] = IF c \in s.finalized /\ Saved("execution", c).left > 0
                         THEN Saved("execution", c).left ELSE None
        BY Zenon, <1>4, <2>1 DEF NodeSound, HeadsSound
      <4>2. CASE c \in s.finalized
        BY Zenon, <1>3, <3>1, <4>1, <4>2, MarketAssumption DEF Amount
      <4>3. CASE c \notin s.finalized
        <5>1. Taken(Fills(c)) = 0
          BY Zenon, <1>2, <2>1, <4>3 DEF EveryNodeFinal
        <5>2. Quantity[c] \in Nat
          BY Zenon, MarketAssumption
        <5> QED
          BY <1>3, <3>1, <4>1, <4>3, <5>1, <5>2 DEF Amount
      <4> QED
        BY Zenon, <4>2, <4>3
    <3>2. CASE p # c
      <4>1. Amount(s, p) = IF c \in s.finalized THEN book[p] - Fills(c)[p] ELSE book[p]
        BY Zenon, <1>3, <2>1, <3>2 DEF NodeSound, HeadsSound
      <4> QED
        BY <1>2, <1>3, <2>1, <3>2, <4>1 DEF EveryNodeFinal
    <3> QED
      BY Zenon, <3>1, <3>2
  <2>6. ASSUME NEW o \in Orders \ (done \cup {c})
        PROVE  s.heads[o] = IF o \in s.finalized /\ Saved("execution", o)'.left > 0
                            THEN Saved("execution", o)'.left ELSE None
    BY Zenon, <1>4, <1>5, <2>1 DEF NodeSound, HeadsSound
  <2>7. \A o \in s.finalized : o \in Orders /\ Has("settled", o)'
    BY Zenon, <1>4, <1>5, <2>1 DEF NodeSound, HeadsSound
  <2>8. HeadsSound(s, d, nb, done \cup {c})'
    BY Zenon, <2>3, <2>5, <2>6, <2>7 DEF HeadsSound
  <2> QED
    BY Zenon, <2>1, <2>4, <2>8 DEF NodeSound
<1>10. LedgerSound(d, nb, done \cup {c})'
  <2>1. LedgerSound(c, book, done)
    BY Zenon DEF Sound
  <2>2. \A o : AcceptedRound(o)' <=> AcceptedRound(o)
    BY Zenon, <1>1 DEF AcceptedRound
  <2>3. ~AcceptedRound(d)
    BY <1>6, <2>1, MarketAssumption DEF LedgerSound, AcceptedRound
  <2>4. \A s \in ledger'.accepted :
          /\ s.round \in Orders /\ Has("signed", s.round)'
          /\ s = Statement(s.round, Saved("signed", s.round)') /\ Saved("signed", s.round)' < ledger'.root
    BY <1>1, <1>4, <1>5, <2>1 DEF LedgerSound
  <2>5. ASSUME NEW p \in DOMAIN nb
        PROVE  p \in ledger'.open /\ ledger'.remaining[p] = nb[p]
    <3>1. CASE p = c
      <4>1. IF AcceptedRound(c)
            THEN /\ Saved("execution", c).left # 0 => c \in ledger.open
                 /\ ledger.remaining[c] = Quantity[c] - Taken(Fills(c))
            ELSE c \in ledger.open /\ ledger.remaining[c] = Quantity[c]
        BY Zenon, <1>4, <2>1 DEF LedgerSound
      <4>2. Quantity[c] \in Nat
        BY Zenon, MarketAssumption
      <4> QED
        BY <1>1, <1>2, <1>3, <3>1, <4>1, <4>2
    <3>2. CASE p # c
      <4>1. /\ p \in ledger.open
            /\ ledger.remaining[p] = IF AcceptedRound(c) THEN book[p] - Fills(c)[p] ELSE book[p]
        BY Zenon, <1>3, <2>1, <3>2 DEF LedgerSound
      <4> QED
        BY <1>1, <1>2, <1>3, <3>2, <4>1
    <3> QED
      BY Zenon, <3>1, <3>2
  <2>6. \A o \in Orders \ (done \cup {c}) : o \in ledger'.open /\ ledger'.remaining[o] = Quantity[o]
    <3>1. \A o \in Orders \ (done \cup {c}) : ~AcceptedRound(o)
      BY Zenon, Untouched
    <3> QED
      BY Zenon, <1>1, <2>1, <3>1 DEF LedgerSound
  <2>7. \A o \in Orders \ (done \cup {c}) : ~AcceptedRound(o)'
    BY Zenon, <2>2, Untouched
  <2> QED
    BY Zenon, <1>1, <2>1, <2>2, <2>3, <2>4, <2>5, <2>6, <2>7 DEF LedgerSound, Statement
<1>11. PendingSound(d)'
  BY Zenon, <1>1 DEF PendingSound
<1> QED
  BY Zenon, <1>1, <1>7, <1>8, <1>9, <1>10, <1>11 DEF Sound, BookSound

\* An order that is taken in while nothing waits becomes the current one.
LEMMA IntakeSound ==
    ASSUME NEW v, NEW book, NEW done, Sound(None, v, book, done), NEW o \in Orders, o \notin done,
           UNCHANGED <<journal, node, output, ledger, pending>>
    PROVE  Sound(o, v, book, done)'
<1>0. o # None /\ None \notin Orders
  BY Zenon, MarketAssumption
<1>1. /\ (\A k \in Kinds : ~Has(k, o)) /\ output[o] = None /\ ~AcceptedRound(o)
      /\ \A n \in Nodes : node[n].completed[o] = None /\ o \notin node[n].finalized
  BY Zenon, <1>0, Untouched
<1>2. \A k \in Kinds : \A p \in Orders : (Has(k, p)' <=> Has(k, p)) /\ Saved(k, p)' = Saved(k, p)
  BY Zenon DEF Has, Saved
<1>3. BookSound(o, v, book, done)'
  BY Zenon DEF Sound, BookSound
<1>4. pending' = None
  BY Zenon DEF Sound, PendingSound
<1>5. ASSUME NEW p \in Orders
      PROVE  OrderSound(p, o, book, done)'
  <2>1. OrderSound(p, None, book, done)
    BY Zenon DEF Sound
  <2>2. Matched(p)' <=> Matched(p)
    BY Zenon DEF Matched, Has, Saved, Filled, Fills
  <2>3. {"certificate", "plan", "execution", "signed", "settled"} \subseteq Kinds
    BY Zenon DEF Kinds
  <2>4. p = o => ~Has("plan", p) /\ output[p] = None
    BY Zenon, <1>1, <2>3
  <2> QED
    BY Zenon, <1>0, <1>2, <2>1, <2>2, <2>3, <2>4 DEF OrderSound
<1>6. ASSUME NEW n \in Nodes, NEW s \in {node'[n]}
      PROVE  NodeSound(s, o, v, book, done)'
  <2>1. NodeSound(s, None, v, book, done) /\ s.completed[o] = None /\ o \notin s.finalized
    BY Zenon, <1>1, <1>6 DEF Sound
  <2>2. None \notin s.finalized
    BY Zenon, <1>0, <2>1 DEF NodeSound, HeadsSound
  <2>3. HeadOf(v)' = HeadOf(v)
    BY Zenon DEF HeadOf, Saved
  <2>4. PartySound(s, o, v)'
    BY Zenon, <2>1, <2>3 DEF NodeSound, PartySound
  <2>5. HeadsSound(s, o, book, done)'
    BY Zenon, <2>1, <2>2 DEF NodeSound, HeadsSound, Has, Saved
  <2> QED
    BY Zenon, <2>1, <2>4, <2>5 DEF NodeSound
<1>7. LedgerSound(o, book, done)'
  <2>1. LedgerSound(None, book, done) /\ ~AcceptedRound(None)
    BY <1>0 DEF Sound, LedgerSound, AcceptedRound
  <2>2. \A p : AcceptedRound(p)' <=> AcceptedRound(p)
    BY Zenon DEF AcceptedRound
  <2> QED
    BY Zenon, <1>1, <2>1, <2>2 DEF LedgerSound, Has, Saved, Fills, Statement
<1>8. PendingSound(o)'
  BY Zenon, <1>4 DEF PendingSound
<1> QED
  BY Zenon, <1>3, <1>5, <1>6, <1>7, <1>8 DEF Sound, JournalShape

\* The market starts with nothing accepted.
LEMMA InitSound ==
    Init => IInv
<1> SUFFICES ASSUME Init
             PROVE  IInv
  OBVIOUS
<1>1. /\ intake = << >> /\ completed = << >> /\ Done = {} /\ Previous = None /\ Book = << >>
      /\ FirstWaiting = {}
  BY DEF Init, Done, Previous, Book, FirstWaiting
<1>2. QueueSound /\ now \in Nat /\ Current = None
  BY <1>1 DEF QueueSound, Current, Init
<1>3. \A k \in Kinds : \A o \in Orders : ~Has(k, o)
  BY Zenon DEF Init, Has, Saved, AllNone
<1>4. {"certificate", "plan", "execution", "signed", "settled"} \subseteq Kinds
  BY Zenon DEF Kinds
<1>5. ASSUME NEW book, book = << >>
      PROVE  Sound(None, None, book, {})
  <2>1. DOMAIN book = {}
    BY <1>5
  <2>2. BookSound(None, None, book, {})
    BY Zenon, <2>1 DEF BookSound
  <2>3. \A o \in Orders : OrderSound(o, None, book, {})
    BY Zenon, <1>3, <1>4 DEF OrderSound, Init, AllNone
  <2>4. ASSUME NEW n \in Nodes, NEW s \in {node[n]}
        PROVE  NodeSound(s, None, None, book, {})
    <3>1. s = FreshNode
      BY Zenon, <2>4 DEF Init
    <3> QED
      BY Zenon, <2>1, <3>1 DEF FreshNode, AllNone, NodeSound, NodeShape, PartySound, HeadsSound, HeadOf
  <2>5. LedgerSound(None, book, {})
    BY Zenon, <2>1 DEF LedgerSound, AcceptedRound, Init
  <2>6. PendingSound(None)
    BY Zenon DEF PendingSound, Init
  <2>7. JournalShape /\ DOMAIN output = Orders /\ DOMAIN node = Nodes
    BY Zenon DEF JournalShape, Init, AllNone
  <2> QED
    BY Zenon, <2>2, <2>3, <2>4, <2>5, <2>6, <2>7 DEF Sound
<1> QED
  BY Zenon, <1>1, <1>2, <1>5 DEF IInv

-----------------------------------------------------------------------------
(* The inductive invariant *)

\* The market stands where it stood unless a completion or an intake moves it.
LEMMA Stays ==
    ASSUME NEW c, NEW v, NEW book, NEW done, At(c, v, book, done), UNCHANGED queue,
           journal'["done"] = journal["done"]
    PROVE  At(c, v, book, done)' /\ (QueueSound => QueueSound')
<1>1. UNCHANGED <<intake, completed>>
  BY Zenon DEF queue
<1>2. Done' = Done /\ FirstWaiting' = FirstWaiting /\ Previous' = Previous
  BY <1>1 DEF Done, FirstWaiting, Previous
<1>3. Current' = Current
  BY <1>1, <1>2 DEF Current
<1>4. Book' = Book
  BY Zenon, <1>1, <1>2 DEF Book, Saved
<1>5. QueueSound => QueueSound'
  BY Zenon, <1>1 DEF QueueSound
<1> QED
  BY Zenon, <1>2, <1>3, <1>4, <1>5 DEF At

\* A record other than a completion.
LEMMA PutOther ==
    ASSUME JournalShape, NEW kind \in Kinds, NEW o, NEW body, Put(kind, o, body), kind # "done"
    PROVE  journal'["done"] = journal["done"]
BY Zenon DEF Put, JournalShape, Kinds

\* What pump does for the current order, short of completing it.
LEMMA WorkerStepSound ==
    ASSUME NEW c \in Orders, NEW v, NEW book, NEW done, Sound(c, v, book, done), book = Book,
           now \in Nat, WorkerStep(c), ~CompleteRound(c)
    PROVE  /\ Sound(c, v, book, done)' /\ UNCHANGED <<queue, now>> /\ journal'["done"] = journal["done"]
<1>0. JournalShape /\ {"certificate", "plan", "execution", "signed", "settled", "finality"} \subseteq Kinds
  BY Zenon DEF Sound, Kinds
<1>1. CASE CollectCertificate(c)
  BY Zenon, <1>1, CollectCertificateSound, <1>0, PutOther DEF CollectCertificate, bounds
<1>2. CASE SignPlan(c)
  BY Zenon, <1>2, SignPlanSound, <1>0, PutOther DEF SignPlan, bounds
<1>3. CASE CollectExecution(c)
  BY Zenon, <1>3, CollectExecutionSound, <1>0, PutOther DEF CollectExecution, bounds
<1>4. CASE BeginSigning(c)
  BY Zenon, <1>4, BeginSigningSound DEF BeginSigning, bounds
<1>5. CASE SignFill(c)
  BY Zenon, <1>5, SignFillSound DEF SignFill, bounds
<1>6. CASE RecordSigned(c)
  BY Zenon, <1>6, RecordSignedSound, <1>0, PutOther DEF RecordSigned, bounds
<1>7. CASE SubmitSettlement(c)
  BY Zenon, <1>7, SubmitSettlementSound DEF SubmitSettlement, bounds
<1>8. CASE ResubmitSettlement(c)
  BY Zenon, <1>8, ResubmitSettlementSound DEF ResubmitSettlement, bounds
<1>9. CASE RecordSettled(c)
  BY Zenon, <1>9, RecordSettledSound, <1>0, PutOther DEF RecordSettled, bounds
<1>10. CASE RecordFinality(c)
  BY Zenon, <1>10, RecordFinalitySound, <1>0, PutOther DEF RecordFinality, bounds
<1> QED
  BY Zenon, <1>1, <1>2, <1>3, <1>4, <1>5, <1>6, <1>7, <1>8, <1>9, <1>10 DEF WorkerStep

\* The steps of the nodes, faults included.
LEMMA NodeStepsSound ==
    ASSUME NEW c, NEW v, NEW book, NEW done, At(c, v, book, done), Sound(c, v, book, done),
           NEW n \in Nodes, NodeStep(n) \/ ExecuteFails(n) \/ RestartNode(n)
    PROVE  Sound(c, v, book, done)' /\ UNCHANGED <<queue, now, journal>>
<1>1. ASSUME NEW o \in Orders, StartExecute(n, o)
      PROVE  Sound(c, v, book, done)' /\ UNCHANGED <<queue, now, journal>>
  <2>1. o = c
    BY Zenon, <1>1 DEF StartExecute, Executing, Pumping, At
  <2> QED
    BY Zenon, <1>1, <2>1, StartExecuteSound DEF StartExecute, bounds
<1>2. ASSUME NEW o \in Orders, ConfirmFinality(n, o)
      PROVE  Sound(c, v, book, done)' /\ UNCHANGED <<queue, now, journal>>
  BY Zenon, <1>2, ConfirmFinalitySound DEF ConfirmFinality, bounds
<1>3. ASSUME NEW o \in Orders, FinalizeNode(n, o)
      PROVE  Sound(c, v, book, done)' /\ UNCHANGED <<queue, now, journal>>
  <2>1. o = c
    BY Zenon, <1>3 DEF FinalizeNode, Finalizing, Pumping, At
  <2> QED
    BY Zenon, <1>3, <2>1, FinalizeNodeSound DEF FinalizeNode, bounds
<1>4. CASE RecordCompleted(n)
  BY Zenon, <1>4, RecordCompletedSound DEF RecordCompleted, bounds
<1>5. CASE ExecuteFails(n)
  <2>1. PICK left : node' = [node EXCEPT ![n] = Abandoned(node[n], left)]
    BY Zenon, <1>5 DEF ExecuteFails
  <2>2. UNCHANGED <<journal, output, ledger, pending, queue, now>>
    BY Zenon, <1>5 DEF ExecuteFails, worker
  <2> QED
    BY Zenon, <2>1, <2>2, AbandonedSound
<1>6. CASE RestartNode(n)
  <2>1. PICK left : node' = [node EXCEPT ![n] = Abandoned(node[n], left)]
    BY Zenon, <1>6 DEF RestartNode, Restarted
  <2>2. UNCHANGED <<journal, output, ledger, pending, queue, now>>
    BY Zenon, <1>6 DEF RestartNode, worker
  <2> QED
    BY Zenon, <2>1, <2>2, AbandonedSound
<1> QED
  BY Zenon, <1>1, <1>2, <1>3, <1>4, <1>5, <1>6 DEF NodeStep

\* A completion moves the market to the next intake.
LEMMA CompleteRoundSound ==
    ASSUME IInv, NEW c \in Orders, NEW v, NEW book, NEW done, At(c, v, book, done), Sound(c, v, book, done),
           CompleteRound(c)
    PROVE  IInv'
<1>1. /\ intake' = intake /\ completed' = Append(completed, c) /\ now' = now
      /\ journal'["done"][c] = NextBook(c)
  BY Zenon, CompletionFacts DEF CompleteRound, bounds
<1>2. /\ QueueSound /\ now \in Nat /\ c = Current /\ c # None /\ done = Done /\ book = Book
  BY Zenon, MarketAssumption DEF IInv, At
<1>3. /\ Len(completed) < Len(intake) /\ c = intake[Len(completed) + 1]
  BY Zenon, <1>2, CurrentFacts DEF QueueSound, NextInLine
<1>4. /\ intake \in Seq(Orders) /\ completed \in Seq(Orders)
      /\ Len(intake) \in Nat /\ Len(completed) \in Nat
  BY <1>2 DEF QueueSound
<1>5. /\ Len(completed') = Len(completed) + 1 /\ completed' \in Seq(Orders)
      /\ \A i \in 1..Len(completed) : completed'[i] = completed[i]
      /\ completed'[Len(completed) + 1] = c
  BY <1>1, <1>4
<1>6. QueueSound'
  <2>1. Len(completed') <= Len(intake')
    BY <1>1, <1>3, <1>4, <1>5
  <2>2. ASSUME NEW i \in 1..Len(completed')
        PROVE  completed'[i] = intake'[i]
    <3>1. i = Len(completed) + 1 \/ i \in 1..Len(completed)
      BY <1>4, <1>5
    <3> QED
      BY Zenon, <1>1, <1>2, <1>3, <1>5, <3>1 DEF QueueSound
  <2> QED
    BY Zenon, <1>1, <1>2, <1>4, <1>5, <2>1, <2>2 DEF QueueSound
<1>7. Done' = done \cup {c} /\ Previous' = c /\ Book' = NextBook(c)
  <2>1. Done' = done \cup {c}
    BY <1>2, <1>4, <1>5 DEF Done
  <2>2. completed' # << >>
    BY <1>4, <1>5
  <2> QED
    BY Zenon, <1>1, <1>5, <2>1, <2>2 DEF Previous, Book, Saved
<1>8. PICK d : d = Current'
  OBVIOUS
<1>9. d \in (Orders \ (done \cup {c})) \cup {None}
  BY Zenon, <1>6, <1>7, <1>8, CurrentFactsNext DEF NextInLine
<1>10. PICK nb : nb = NextBook(c)
  OBVIOUS
<1>11. Sound(d, c, nb, done \cup {c})'
  BY Zenon, <1>2, <1>9, <1>10, CompletionSound
<1> QED
  BY Zenon, <1>1, <1>2, <1>6, <1>7, <1>8, <1>10, <1>11 DEF IInv

\* An intake joins the end of the queue.
LEMMA AcceptSound ==
    ASSUME IInv, NEW c, NEW v, NEW book, NEW done, At(c, v, book, done), Sound(c, v, book, done),
           NEW o \in Orders, Accept(o)
    PROVE  IInv' /\ (c # None => Current' = c)
<1>1. /\ intake' = Append(intake, o) /\ UNCHANGED <<completed, journal, node, output, ledger, pending, now>>
      /\ o \notin Intaken
  BY Zenon DEF Accept, worker, bounds
<1>2. QueueSound /\ now \in Nat /\ c = Current /\ v = Previous /\ done = Done /\ book = Book
  BY Zenon DEF IInv, At
<1>3. /\ intake \in Seq(Orders) /\ completed \in Seq(Orders)
      /\ Len(intake) \in Nat /\ Len(completed) \in Nat /\ Len(completed) <= Len(intake)
  BY <1>2 DEF QueueSound
<1>4. /\ Len(intake') = Len(intake) + 1 /\ intake' \in Seq(Orders)
      /\ \A i \in 1..Len(intake) : intake'[i] = intake[i]
      /\ intake'[Len(intake) + 1] = o
  BY <1>1, <1>3
<1>5. QueueSound'
  <2>1. \A i \in 1..Len(intake) : intake'[i] # o
    BY Zenon, <1>1, <1>4 DEF Intaken
  <2>2. ASSUME NEW i \in 1..Len(intake'), NEW j \in 1..Len(intake'), intake'[i] = intake'[j]
        PROVE  i = j
    <3>1. (i = Len(intake) + 1 \/ i \in 1..Len(intake)) /\ (j = Len(intake) + 1 \/ j \in 1..Len(intake))
      BY <1>3, <1>4
    <3> QED
      BY Zenon, <1>2, <1>4, <2>1, <2>2, <3>1 DEF QueueSound
  <2>3. \A i \in 1..Len(completed') : completed'[i] = intake'[i]
    BY <1>1, <1>2, <1>3, <1>4 DEF QueueSound
  <2> QED
    BY <1>1, <1>3, <1>4, <2>2, <2>3 DEF QueueSound
<1>6. Done' = Done /\ Previous' = Previous /\ Book' = Book
  BY Zenon, <1>1 DEF Done, Previous, Book, Saved
<1>7. Current' = intake'[Len(completed) + 1]
  BY <1>1, <1>3, <1>4, <1>5, CurrentFactsNext DEF NextInLine
<1>8. c = IF Len(completed) < Len(intake) THEN intake[Len(completed) + 1] ELSE None
  BY Zenon, <1>2, CurrentFacts DEF NextInLine
<1>9. CASE Len(completed) < Len(intake)
  <2>1. Current' = c
    BY SMTT(30), <1>3, <1>4, <1>7, <1>8, <1>9
  <2>2. ledger.root \in Nat /\ PendingSound(c)'
    BY Zenon, <1>1 DEF Sound, LedgerSound, PendingSound, Matched, Has, Saved, Filled, Fills, Statement, EveryNodeFinal
  <2>3. Sound(c, v, book, done)'
    BY <1>1, <2>2, MemoryStep
  <2> QED
    BY Zenon, <1>1, <1>2, <1>5, <1>6, <2>1, <2>3 DEF IInv
<1>10. CASE ~(Len(completed) < Len(intake))
  <2>1. c = None /\ Current' = o
    BY SMTT(30), <1>3, <1>4, <1>7, <1>8, <1>10
  <2>2. o \notin done
    BY Zenon, <1>1, <1>2, CurrentFacts DEF NextInLine
  <2>3. Sound(o, v, book, done)'
    BY Zenon, <1>1, <2>1, <2>2, IntakeSound
  <2> QED
    BY Zenon, <1>1, <1>2, <1>5, <1>6, <2>1, <2>3 DEF IInv
<1> QED
  BY Zenon, <1>9, <1>10

\* Steps of the clock, the processes and other users of the ledger.
LEMMA OutsideSound ==
    ASSUME NEW c, NEW v, NEW book, NEW done, Sound(c, v, book, done), now \in Nat,
           Publish \/ StartWorker \/ CrashWorker \/ OtherTransaction \/ Tick \/ UNCHANGED vars
    PROVE  Sound(c, v, book, done)' /\ now' \in Nat /\ now <= now' /\ UNCHANGED <<queue, journal>>
<1>1. /\ UNCHANGED <<queue, journal, node, output>> /\ now' \in {now, now + 1}
      /\ pending' = pending \/ pending' = None
      /\ \/ UNCHANGED ledger
         \/ ledger' = [root |-> ledger.root + 1, remaining |-> ledger.remaining,
                       open |-> ledger.open, accepted |-> ledger.accepted]
  BY Zenon DEF Publish, StartWorker, CrashWorker, OtherTransaction, Tick, vars, queue, worker, bounds
<1>2. ledger.root \in Nat /\ PendingSound(c)
  BY Zenon DEF Sound, LedgerSound
<1>3. /\ ledger'.root \in Nat /\ ledger.root <= ledger'.root /\ ledger'.remaining = ledger.remaining
      /\ ledger'.open = ledger.open /\ ledger'.accepted = ledger.accepted
  BY <1>1, <1>2
<1>4. PendingSound(c)'
  <2>1. /\ \A k \in Kinds : Has(k, c)' = Has(k, c)
        /\ Matched(c)' = Matched(c) /\ EveryNodeFinal(c)' = EveryNodeFinal(c)
        /\ Has("signed", c)' = Has("signed", c) /\ Has("settled", c)' = Has("settled", c)
        /\ Saved("signed", c)' = Saved("signed", c)
    BY Zenon, <1>1 DEF Has, Saved, Matched, Filled, Fills, EveryNodeFinal
  <2>2. pending' # None => pending'.parent = pending.parent /\ pending'.step = pending.step /\ pending # None
    BY Zenon, <1>1
  <2> QED
    BY SMTT(30), <1>2, <1>3, <2>1, <2>2 DEF PendingSound, Statement
<1>5. Sound(c, v, book, done)'
  BY Zenon, <1>1, <1>3, <1>4, <1>2, MemoryStep
<1> QED
  BY <1>1, <1>5

\* Every step preserves the invariant.  A step that completes nothing keeps the
\* current order current.
LEMMA StepSound ==
    ASSUME IInv, [Next]_vars
    PROVE  /\ IInv'
           /\ Current # None /\ ~(WorkerStep(Current) /\ CompleteRound(Current)) => Current' = Current
<1>1. PICK c : c = Current
  OBVIOUS
<1>2. PICK v, book, done : v = Previous /\ book = Book /\ done = Done
  OBVIOUS
<1>3. /\ At(c, v, book, done) /\ Sound(c, v, book, done) /\ QueueSound /\ now \in Nat
  BY Zenon, <1>1, <1>2 DEF IInv, At
<1>4. ASSUME Sound(c, v, book, done)', UNCHANGED queue, journal'["done"] = journal["done"], now' \in Nat
      PROVE  IInv' /\ Current' = c
  <2>1. At(c, v, book, done)' /\ QueueSound'
    BY Zenon, <1>3, <1>4, Stays
  <2>2. c = Current' /\ v = Previous' /\ book = Book' /\ done = Done'
    BY Zenon, <2>1 DEF At
  <2> QED
    BY Zenon, <1>4, <2>1, <2>2 DEF IInv
<1>5. ASSUME NEW o \in Orders, Accept(o)
      PROVE  IInv' /\ (c # None => Current' = c)
  BY Zenon, <1>3, <1>5, AcceptSound
<1>6. ASSUME NEW o \in Orders, WorkerStep(o), ~CompleteRound(o)
      PROVE  IInv' /\ Current' = c
  <2>1. o = c /\ c \in Orders /\ book = Book
    BY Zenon, <1>3, <1>6 DEF WorkerStep, Pumping, At
  <2>2. Sound(c, v, book, done)' /\ UNCHANGED <<queue, now>> /\ journal'["done"] = journal["done"]
    BY Zenon, <1>3, <1>6, <2>1, WorkerStepSound
  <2> QED
    BY Zenon, <1>3, <1>4, <2>2
<1>7. ASSUME NEW o \in Orders, WorkerStep(o), CompleteRound(o)
      PROVE  IInv' /\ WorkerStep(c) /\ CompleteRound(c)
  <2>1. o = c /\ c \in Orders
    BY Zenon, <1>3, <1>7 DEF WorkerStep, Pumping, At
  <2> QED
    BY Zenon, <1>3, <1>7, <2>1, CompleteRoundSound
<1>8. ASSUME NEW o \in Orders, RunMpc(o)
      PROVE  IInv' /\ Current' = c
  <2>1. Sound(c, v, book, done)'
    BY Zenon, <1>3, <1>8, RunMpcSound
  <2>2. UNCHANGED <<queue, journal, now>>
    BY Zenon, <1>8 DEF RunMpc, bounds
  <2> QED
    BY Zenon, <1>3, <1>4, <2>1, <2>2
<1>9. ASSUME NEW n \in Nodes, NodeStep(n) \/ ExecuteFails(n) \/ RestartNode(n)
      PROVE  IInv' /\ Current' = c
  <2>1. Sound(c, v, book, done)' /\ UNCHANGED <<queue, now, journal>>
    BY Zenon, <1>3, <1>9, NodeStepsSound
  <2> QED
    BY Zenon, <1>3, <1>4, <2>1
<1>10. CASE Publish \/ StartWorker \/ CrashWorker \/ OtherTransaction \/ Tick \/ UNCHANGED vars
  <2>1. Sound(c, v, book, done)' /\ now' \in Nat /\ UNCHANGED <<queue, journal>>
    BY Zenon, <1>3, <1>10, OutsideSound
  <2> QED
    BY Zenon, <1>1, <1>4, <2>1
<1> QED
  BY Zenon, <1>1, <1>5, <1>6, <1>7, <1>8, <1>9, <1>10 DEF Next

\* The invariant holds of every behaviour of the market.
THEOREM Invariant ==
    Spec => []IInv
<1>1. Init => IInv
  BY Zenon, InitSound
<1>2. IInv /\ [Next]_vars => IInv'
  BY Zenon, StepSound
<1> QED
  BY <1>1, <1>2, PTL DEF Spec

-----------------------------------------------------------------------------
(* The safety properties *)

\* Whatever crashes of the worker and of the nodes lie between, a node stands
\* on the journal's certificate of the last completed order or of the current
\* one (collect_order_certificate, accept on the nodes).
THEOREM ChainsFollow ==
    Spec => []ChainFollowsJournal
<1>1. IInv => ChainFollowsJournal
  BY Zenon DEF IInv, Sound, NodeSound, PartySound, ChainFollowsJournal
<1> QED
  BY <1>1, Invariant, PTL

\* The ledger accepts at most one set of fills for a round: what is submitted
\* is what the journal has (settle, submit_settlement).
THEOREM SettlesOnce ==
    Spec => []SettledOnce
<1>1. IInv => SettledOnce
  BY Zenon DEF IInv, Sound, LedgerSound, SettledOnce
<1> QED
  BY <1>1, Invariant, PTL

\* The book of the journal, the open reservations of the ledger and the shares
\* of every node agree until the current round moves each of them.
THEOREM BooksAgree ==
    Spec => []BookIsCanonical
<1>1. IInv => BookIsCanonical
  BY Zenon DEF IInv, Sound, LedgerSound, AcceptedRound, NodeSound, HeadsSound, BookIsCanonical
<1> QED
  BY <1>1, Invariant, PTL

-----------------------------------------------------------------------------
(* A stall is final *)

\* What a step does that is none of pump's for the current order.
Quiet ==
    /\ UNCHANGED <<completed, journal>> /\ now' \in Nat /\ now <= now'
    /\ pending' = pending \/ pending' = None
    /\ ledger'.accepted = ledger.accepted /\ ledger'.root \in Nat /\ ledger.root <= ledger'.root

\* Without pump no record is written and nothing is settled.
LEMMA QuietStep ==
    ASSUME IInv, [Next]_vars, ~WorkerStep(Current)
    PROVE  Quiet
<1>1. now \in Nat /\ ledger.root \in Nat
  BY Zenon DEF IInv, Sound, LedgerSound
<1>2. \A o \in Orders : ~WorkerStep(o)
  BY Zenon DEF WorkerStep, Pumping
<1>3. ASSUME NEW o \in Orders, Accept(o)
      PROVE  Quiet
  BY <1>1, <1>3 DEF Accept, Quiet, worker, bounds
<1>4. ASSUME NEW o \in Orders, RunMpc(o)
      PROVE  Quiet
  BY <1>1, <1>4 DEF RunMpc, Quiet, queue, worker, bounds
<1>5. ASSUME NEW n \in Nodes, NodeStep(n) \/ ExecuteFails(n) \/ RestartNode(n)
      PROVE  Quiet
  <2>1. UNCHANGED <<completed, journal, now, pending, ledger>>
    BY Zenon, <1>5 DEF NodeStep, StartExecute, ConfirmFinality, FinalizeNode, RecordCompleted, ExecuteFails,
                RestartNode, queue, worker, bounds
  <2> QED
    BY <1>1, <2>1 DEF Quiet
<1>6. CASE Publish \/ StartWorker \/ CrashWorker \/ OtherTransaction \/ Tick \/ UNCHANGED vars
  BY <1>1, <1>6 DEF Publish, StartWorker, CrashWorker, OtherTransaction, Tick, vars, queue, worker, bounds, Quiet
<1> QED
  BY Zenon, <1>2, <1>3, <1>4, <1>5, <1>6 DEF Next

\* The book the worker sees and the records of an order do not change then.
LEMMA QuietFrame ==
    ASSUME Quiet, NEW o
    PROVE  /\ Book' = Book
           /\ \A k : (Has(k, o)' <=> Has(k, o)) /\ Saved(k, o)' = Saved(k, o)
           /\ (Matched(o)' <=> Matched(o)) /\ Filled(o)' = Filled(o)
BY Zenon DEF Quiet, Book, Previous, Has, Saved, Matched, Filled, Fills

\* A plan that is over stays over.
LEMMA PlanStaysOver ==
    ASSUME IInv, Quiet, NEW o \in Orders, ~PlanLive(o)
    PROVE  ~PlanLive(o)'
<1>1. now \in Nat /\ (Has("plan", o) => Saved("plan", o).expires \in Nat)
  BY Zenon DEF IInv, Sound, OrderSound
<1>2. (Has("plan", o)' <=> Has("plan", o)) /\ Saved("plan", o)' = Saved("plan", o)
  BY Zenon, QuietFrame
<1> QED
  BY <1>1, <1>2 DEF PlanLive, Quiet

\* Before its execution an order only waits for certificate, plan and execution.
LEMMA EarlyStages ==
    ASSUME NEW c \in Orders, NEW v, NEW book, NEW done, Sound(c, v, book, done),
           WorkerStep(c), ~Has("execution", c)
    PROVE  CollectCertificate(c) \/ SignPlan(c) \/ CollectExecution(c)
<1>1. pending = None /\ ~Has("signed", c) /\ ~Has("settled", c)
  BY Zenon, StageFacts
<1>2. ~BeginSigning(c) /\ ~SubmitSettlement(c) /\ ~ResubmitSettlement(c) /\ ~CompleteRound(c)
  BY Zenon DEF BeginSigning, SubmitSettlement, ResubmitSettlement, Submitting, Matched, CompleteRound
<1>3. ~SignFill(c) /\ ~RecordSigned(c) /\ ~RecordSettled(c)
  BY Zenon, <1>1 DEF SignFill, RecordSigned, RecordSettled, Holding
<1>4. ~RecordFinality(c)
  BY Zenon, <1>1 DEF RecordFinality, Finalizing
<1> QED
  BY Zenon, <1>2, <1>3, <1>4 DEF WorkerStep

\* After it, only for what the journal lacks.
LEMMA LateStages ==
    ASSUME NEW c \in Orders, NEW v, NEW book, NEW done, Sound(c, v, book, done),
           WorkerStep(c), Matched(c)
    PROVE  /\ ~Has("signed", c) => BeginSigning(c) \/ SignFill(c) \/ RecordSigned(c)
           /\ Has("signed", c) /\ ~Has("settled", c) =>
                SubmitSettlement(c) \/ ResubmitSettlement(c) \/ RecordSettled(c)
           /\ Has("settled", c) => RecordFinality(c) \/ CompleteRound(c)
<1>1. OrderSound(c, c, book, done) /\ PendingSound(c)
  BY Zenon DEF Sound
<1>2. Has("execution", c) /\ Has("plan", c) /\ Has("certificate", c)
  BY Zenon, <1>1 DEF Matched, OrderSound
<1>3. ~CollectCertificate(c) /\ ~SignPlan(c) /\ ~CollectExecution(c)
  BY Zenon, <1>2 DEF CollectCertificate, SignPlan, NeedsPlan, CollectExecution, Executing
<1>4. Has("signed", c) => ~BeginSigning(c) /\ ~SignFill(c) /\ ~RecordSigned(c)
  BY Zenon, <1>1 DEF BeginSigning, SignFill, RecordSigned, Holding, PendingSound
<1>5. ~Has("signed", c) \/ Has("settled", c) =>
        ~SubmitSettlement(c) /\ ~ResubmitSettlement(c) /\ ~RecordSettled(c)
  BY Zenon, <1>1 DEF SubmitSettlement, ResubmitSettlement, Submitting, Request, Has, RecordSettled, Holding, PendingSound
<1>6. ~Has("settled", c) => ~RecordFinality(c) /\ ~CompleteRound(c)
  <2>1. CompleteRound(c) => pending = [step |-> "final"] /\ pending # None
    BY Zenon, MarketAssumption DEF CompleteRound
  <2> QED
    BY SMTT(30), <1>1, <2>1 DEF RecordFinality, Finalizing, PendingSound
<1>7. Has("settled", c) => Has("signed", c)
  BY Zenon, <1>1 DEF OrderSound
<1> QED
  BY Zenon, <1>3, <1>4, <1>5, <1>6, <1>7 DEF WorkerStep

\* A full journal takes no record of any kind.
LEMMA FullStaysFull ==
    ASSUME IInv, [Next]_vars, ~Room
    PROVE  ~Room' /\ ~CompleteRound(Current)
<1>1. \A k, o, body : ~Put(k, o, body)
  BY Zenon DEF Put
<1>2. \A o : ~CompleteRound(o)
  BY Zenon, <1>1 DEF CompleteRound
<1>3. UNCHANGED <<intake, journal>>
  <2>1. ASSUME NEW o \in Orders, Accept(o) \/ WorkerStep(o) \/ RunMpc(o)
        PROVE  UNCHANGED <<intake, journal>>
    BY Zenon, <1>1, <2>1 DEF Accept, WorkerStep, RunMpc, CollectCertificate, SignPlan, CollectExecution, BeginSigning,
         SignFill, RecordSigned, SubmitSettlement, ResubmitSettlement, RecordSettled, RecordFinality,
         CompleteRound, queue
  <2>2. ASSUME NEW n \in Nodes, NodeStep(n) \/ ExecuteFails(n) \/ RestartNode(n)
        PROVE  UNCHANGED <<intake, journal>>
    BY Zenon, <2>2 DEF NodeStep, StartExecute, ConfirmFinality, FinalizeNode, RecordCompleted, ExecuteFails,
                RestartNode, queue
  <2>3. CASE Publish \/ StartWorker \/ CrashWorker \/ OtherTransaction \/ Tick \/ UNCHANGED vars
    BY Zenon, <2>3 DEF Publish, StartWorker, CrashWorker, OtherTransaction, Tick, vars, queue
  <2> QED
    BY Zenon, <2>1, <2>2, <2>3 DEF Next
<1>4. Records' = Records
  BY Zenon, <1>3 DEF Records, Has, Saved
<1> QED
  BY Zenon, <1>2, <1>4 DEF Room

\* A time that is past a limit, or is a later limit, is not before it.
LEMMA LaterLimit ==
    ASSUME NEW a \in Nat, NEW b \in Nat, NEW l \in Nat, NEW e \in Nat, a <= b,
           ~(e <= a + l) \/ e = b + l
    PROVE  e >= a + l
OBVIOUS

\* Past every end of a plan, no later plan can be signed.
LEMMA ExpiryStaysPast ==
    ASSUME IInv, Quiet, NEW o \in Orders, \A t \in PlanExpiry(o) : now > t
    PROVE  \A t \in PlanExpiry(o)' : now' > t
<1>0. now \in Nat /\ now' \in Nat /\ now <= now' /\ PlanLife \in Nat
  BY Zenon, MarketAssumption DEF IInv, Quiet
<1>1. Book' = Book /\ now \in Nat /\ now' \in Nat /\ now <= now' /\ PlanLife \in Nat
  BY Zenon, <1>0, QuietFrame
<1>2. DOMAIN Book \cup {o} \subseteq Orders /\ \A p \in Orders : Deadline[p] \in Nat
  BY Zenon, MarketAssumption DEF IInv, Sound, BookSound
<1>3. ASSUME NEW e \in PlanExpiry(o)'
      PROVE  now' > e
  <2>1. /\ e = now' + PlanLife \/ \E p \in DOMAIN Book \cup {o} : e = Deadline[p]
        /\ e <= now' + PlanLife /\ \A p \in DOMAIN Book \cup {o} : e <= Deadline[p]
    BY Zenon, <1>1 DEF PlanExpiry, Ends
  <2>2. e \in Nat
    BY <1>1, <1>2, <2>1
  <2>3. CASE e <= now + PlanLife /\ \E p \in DOMAIN Book \cup {o} : e = Deadline[p]
    <3>1. e \in PlanExpiry(o)
      BY Zenon, <1>1, <1>2, <2>1, <2>3 DEF PlanExpiry, Ends
    <3> QED
      BY <1>1, <2>2, <3>1
  <2>4. CASE ~(e <= now + PlanLife /\ \E p \in DOMAIN Book \cup {o} : e = Deadline[p])
    <3>1. e >= now + PlanLife
      <4>1. ~(e <= now + PlanLife) \/ e = now' + PlanLife
        BY Zenon, <2>1, <2>4
      <4> QED
        BY Zenon, <1>0, <2>2, <4>1, LaterLimit
    <3>2. \A p \in DOMAIN Book \cup {o} : now + PlanLife <= Deadline[p]
      BY <1>1, <1>2, <2>1, <2>2, <3>1
    <3>3. now + PlanLife \in PlanExpiry(o)
      BY <1>1, <3>2 DEF PlanExpiry, Ends
    <3> QED
      BY <1>1, <3>3
  <2> QED
    BY Zenon, <2>3, <2>4
<1> QED
  BY Zenon, <1>3

\* What a step may do to a node: debris stays, a receipt is only added by a
\* party that has finished, and parties finish together.
LEMMA NodeMoves ==
    ASSUME IInv, [Next]_vars, ~WorkerStep(Current), NEW c \in Orders, NEW n \in Nodes
    PROVE  /\ node[n].debris \subseteq node'[n].debris
           /\ \/ node'[n].completed[c] = node[n].completed[c]
              \/ node[n].stage = "finished" /\ <<"file", c>> \notin node[n].debris
           /\ node[n].stage # "finished" /\ node'[n].stage = "finished" =>
                \A m \in Nodes : node[m].stage = "running"
<1> DEFINE Goal == /\ node[n].debris \subseteq node'[n].debris
                   /\ \/ node'[n].completed[c] = node[n].completed[c]
                      \/ node[n].stage = "finished" /\ <<"file", c>> \notin node[n].debris
                   /\ node[n].stage # "finished" /\ node'[n].stage = "finished" =>
                        \A m \in Nodes : node[m].stage = "running"
<1>1. DOMAIN node = Nodes /\ \A m \in Nodes : NodeShape(node[m])
  BY Zenon DEF IInv, Sound, NodeSound
<1>2. \A o \in Orders : ~WorkerStep(o)
  BY Zenon DEF WorkerStep, Pumping
<1>3. ASSUME UNCHANGED node
      PROVE  Goal
  BY Zenon, <1>3
<1>4. ASSUME NEW m \in Nodes, NEW t, node' = [node EXCEPT ![m] = t],
             t.stage # "finished" \/ t.stage = node[m].stage, node[m].debris \subseteq t.debris,
             \/ t.completed[c] = node[m].completed[c]
             \/ node[m].stage = "finished" /\ <<"file", c>> \notin node[m].debris
      PROVE  Goal
  <2>1. node'[m] = t /\ (n # m => node'[n] = node[n])
    BY Zenon, <1>1, <1>4
  <2> QED
    BY Zenon, <1>4, <2>1
<1>5. ASSUME NEW o \in Orders, RunMpc(o)
      PROVE  Goal
  BY <1>1, <1>5 DEF RunMpc, NodeShape
<1>6. ASSUME NEW m \in Nodes, NodeStep(m) \/ ExecuteFails(m) \/ RestartNode(m)
      PROVE  Goal
  <2>1. PICK s : s = node[m] /\ NodeShape(s)
    BY Zenon, <1>1
  <2>2. ASSUME NEW o, StartExecute(m, o)
        PROVE  Goal
    <3>1. PICK t : t = Started(s, o) /\ node' = [node EXCEPT ![m] = t]
      BY Zenon, <2>1, <2>2 DEF StartExecute
    <3>2. t.stage = "running" /\ t.debris = s.debris /\ t.completed = s.completed
      BY Zenon, <2>1, <3>1 DEF Started, NodeShape
    <3> QED
      BY Zenon, <1>4, <2>1, <3>1, <3>2
  <2>3. ASSUME NEW o, ConfirmFinality(m, o)
        PROVE  Goal
    <3>1. PICK t : t = [s EXCEPT !.observed = @ \cup {o}] /\ node' = [node EXCEPT ![m] = t]
      BY Zenon, <2>1, <2>3 DEF ConfirmFinality
    <3>2. t.stage = s.stage /\ t.debris = s.debris /\ t.completed = s.completed
      BY Zenon, <2>1, <3>1 DEF NodeShape
    <3> QED
      BY Zenon, <1>4, <2>1, <3>1, <3>2
  <2>4. ASSUME NEW o, FinalizeNode(m, o)
        PROVE  Goal
    <3>1. PICK t : t = Finalized(s, o) /\ node' = [node EXCEPT ![m] = t]
      BY Zenon, <2>1, <2>4 DEF FinalizeNode
    <3>2. t.stage = s.stage /\ t.debris = s.debris /\ t.completed = s.completed
      BY Zenon, <2>1, <3>1 DEF Finalized, NodeShape
    <3> QED
      BY Zenon, <1>4, <2>1, <3>1, <3>2
  <2>5. CASE RecordCompleted(m)
    <3>1. PICK t : t = Finished(s) /\ node' = [node EXCEPT ![m] = t] /\ s.stage = "finished"
      BY Zenon, <2>1, <2>5 DEF RecordCompleted
    <3>2. /\ t.stage = "idle" /\ t.debris = s.debris
          /\ t.completed[c] = s.completed[c] \/ <<"file", c>> \notin s.debris
      BY Zenon, <2>1, <3>1 DEF Finished, NodeShape
    <3> QED
      BY Zenon, <1>4, <2>1, <3>1, <3>2
  <2>6. CASE ExecuteFails(m) \/ RestartNode(m)
    <3>1. PICK left : node' = [node EXCEPT ![m] = Abandoned(s, left)]
      BY Zenon, <2>1, <2>6 DEF ExecuteFails, RestartNode, Restarted
    <3>2. PICK t : t = Abandoned(s, left)
      OBVIOUS
    <3>3. t.stage = "idle" /\ s.debris \subseteq t.debris /\ t.completed = s.completed
      BY Zenon, <2>1, <3>2 DEF Abandoned, NodeShape
    <3> QED
      BY Zenon, <1>4, <2>1, <3>1, <3>2, <3>3
  <2> QED
    BY Zenon, <1>6, <2>2, <2>3, <2>4, <2>5, <2>6 DEF NodeStep
<1>7. ASSUME NEW o \in Orders, Accept(o)
      PROVE  Goal
  BY Zenon, <1>3, <1>7 DEF Accept
<1>8. CASE Publish \/ StartWorker \/ CrashWorker \/ OtherTransaction \/ Tick \/ UNCHANGED vars
  BY Zenon, <1>3, <1>8 DEF Publish, StartWorker, CrashWorker, OtherTransaction, Tick, vars
<1> QED
  BY Zenon, <1>2, <1>5, <1>6, <1>7, <1>8 DEF Next

\* An execution that is lost stays lost: no receipt is ever added to a node
\* whose round left debris, and no party runs again once another has ended.
LEMMA ExecutionStaysLost ==
    ASSUME IInv, [Next]_vars, ~WorkerStep(Current), NEW c \in Orders, c = Current, ExecutionLost(c)
    PROVE  ExecutionLost(c)'
<1>1. Quiet
  BY Zenon, QuietStep
<1>2. \A n \in Nodes : NodeSound(node[n], c, Previous, Book, Done)
  BY Zenon DEF IInv, Sound
<1>3. ASSUME NEW n \in Nodes, node[n].stage # "idle"
      PROVE  node[n].completed[c] = None /\ <<"dir", c>> \notin node[n].debris
  BY Zenon, <1>2, <1>3 DEF NodeSound, PartySound
<1>4. \A n \in Nodes :
        /\ node[n].debris \subseteq node'[n].debris
        /\ \/ node'[n].completed[c] = node[n].completed[c]
           \/ node[n].stage = "finished" /\ <<"file", c>> \notin node[n].debris
        /\ node[n].stage # "finished" /\ node'[n].stage = "finished" =>
             \A m \in Nodes : node[m].stage = "running"
  BY Zenon, NodeMoves
<1>5. CASE ~PlanLive(c)
  BY Zenon, <1>1, <1>5, PlanStaysOver DEF ExecutionLost
<1>6. CASE \E n \in Nodes : node[n].completed[c] = None /\ \E x \in {"dir", "file"} : <<x, c>> \in node[n].debris
  <2>1. PICK n \in Nodes : node[n].completed[c] = None /\ \E x \in {"dir", "file"} : <<x, c>> \in node[n].debris
    BY Zenon, <1>6
  <2>2. node'[n].completed[c] = None
    BY Zenon, <1>3, <1>4, <2>1
  <2>3. \E x \in {"dir", "file"} : <<x, c>> \in node'[n].debris
    BY Zenon, <1>4, <2>1
  <2> QED
    BY Zenon, <2>2, <2>3 DEF ExecutionLost
<1>7. CASE /\ \E n \in Nodes : node[n].completed[c] # None
           /\ \E n \in Nodes : node[n].completed[c] = None /\ node[n].stage # "finished"
  <2>1. PICK n \in Nodes : node[n].completed[c] # None
    BY Zenon, <1>7
  <2>2. PICK m \in Nodes : node[m].completed[c] = None /\ node[m].stage # "finished"
    BY Zenon, <1>7
  <2>3. node[n].stage = "idle"
    BY Zenon, <1>3, <2>1
  <2>4. node'[n].completed[c] # None
    BY Zenon, <1>4, <2>1, <2>3
  <2>5. node'[m].completed[c] = None /\ node'[m].stage # "finished"
    BY Zenon, <1>4, <2>2, <2>3
  <2> QED
    BY Zenon, <2>4, <2>5 DEF ExecutionLost
<1> QED
  BY Zenon, <1>5, <1>6, <1>7 DEF ExecutionLost

\* With room in the journal, pump does nothing for a stalled order but give up
\* an attempt to sign.
LEMMA StalledStep ==
    ASSUME IInv, [Next]_vars, NEW c \in Orders, c = Current, Stalled(c), Room, WorkerStep(c)
    PROVE  SignFill(c) /\ Matched(c) /\ ~Has("signed", c) /\ SigningLost(c)
<1>0. PICK v, book, done : v = Previous /\ book = Book /\ done = Done
  OBVIOUS
<1>1. /\ Sound(c, v, book, done) /\ OrderSound(c, c, book, done) /\ PendingSound(c)
      /\ LedgerSound(c, book, done) /\ now \in Nat
  BY Zenon, <1>0 DEF IInv, Sound
<1>2. Deadline \in [Orders -> Nat]
  BY Zenon, MarketAssumption
<1>3. BookFits
  BY Zenon DEF WorkerStep, Pumping
<1>4. ASSUME ~Has("execution", c)
      PROVE  \/ CollectCertificate(c) /\ ~Has("certificate", c) /\ now <= Deadline[c]
             \/ SignPlan(c) /\ Has("certificate", c) /\ ~Has("plan", c)
             \/ CollectExecution(c) /\ Has("plan", c)
  BY Zenon, <1>1, <1>4, EarlyStages DEF CollectCertificate, SignPlan, NeedsPlan, CollectExecution, Executing, PlanLive
<1>5. /\ ~Has("certificate", c) => ~Has("plan", c)
      /\ ~Has("plan", c) => ~Has("execution", c)
  BY Zenon, <1>1, StageFacts
<1>6. ASSUME ~Has("certificate", c), now > Deadline[c]
      PROVE  FALSE
  BY <1>1, <1>2, <1>4, <1>5, <1>6
<1>7. ASSUME Has("certificate", c), ~Has("plan", c), \A t \in PlanExpiry(c) : now > t
      PROVE  FALSE
  <2>1. PICK t \in PlanExpiry(c) : now <= t
    BY Zenon, <1>4, <1>5, <1>7 DEF SignPlan
  <2>2. t \in Nat
    <3>1. DOMAIN Book \cup {c} \subseteq Orders /\ PlanLife \in Nat
      BY Zenon, <1>0, <1>1, MarketAssumption DEF Sound, BookSound
    <3> QED
      BY SMTT(30), <1>1, <1>2, <3>1 DEF PlanExpiry, Ends
  <2> QED
    BY <1>1, <1>7, <2>1, <2>2
<1>8. ASSUME Has("plan", c), ~Has("execution", c), ExecutionLost(c)
      PROVE  FALSE
  <2>1. CollectExecution(c)
    BY Zenon, <1>4, <1>5, <1>8
  <2>2. PlanLive(c) /\ \A n \in Nodes : node[n].completed[c] # None
    BY Zenon, <2>1 DEF CollectExecution, Executing, AgreedExecution
  <2> QED
    BY Zenon, <1>8, <2>2 DEF ExecutionLost
<1>9. ASSUME Matched(c), ~Has("signed", c), SigningLost(c)
      PROVE  SignFill(c)
  <2>1. BeginSigning(c) \/ SignFill(c) \/ RecordSigned(c)
    BY Zenon, <1>1, <1>9, LateStages
  <2> QED
    BY Zenon, <1>9, <2>1 DEF BeginSigning, RecordSigned, SigningLost
<1>10. ASSUME Has("signed", c), ~Has("settled", c), SettlementLost(c)
       PROVE  FALSE
  <2>1. Matched(c)
    BY Zenon, <1>1, <1>10 DEF OrderSound
  <2>2. SubmitSettlement(c) \/ ResubmitSettlement(c) \/ RecordSettled(c)
    BY Zenon, <1>1, <1>10, <2>1, LateStages
  <2>3. Statement(c, Saved("signed", c)) \notin ledger.accepted
    BY Zenon, <1>10 DEF SettlementLost
  <2>4. ~ResubmitSettlement(c)
    BY Zenon, <2>3 DEF ResubmitSettlement, Submitting, Request, AnswersAgain
  <2>5. ~RecordSettled(c)
    BY Zenon, <1>1, <2>3 DEF RecordSettled, Holding, PendingSound
  <2>6. ~SubmitSettlement(c)
    <3>1. SUFFICES ASSUME SubmitSettlement(c)
                   PROVE  FALSE
      OBVIOUS
    <3>2. ledger.root = Saved("signed", c) /\ \A p \in Filled(c) \cup {c} : now <= Deadline[p]
      BY Zenon, <3>1 DEF SubmitSettlement, Submitting, Request, Settleable
    <3>3. PICK p \in Filled(c) \cup {c} : now > Deadline[p]
      BY Zenon, <1>10, <3>2 DEF SettlementLost
    <3>4. p \in Orders
      BY Zenon, <1>1, <2>1, <3>3, ExecutionFacts DEF Matched, Filled, Fills, ResultSound
    <3> QED
      BY <1>1, <1>2, <3>2, <3>3, <3>4
  <2> QED
    BY Zenon, <2>2, <2>4, <2>5, <2>6
<1>11. ASSUME Has("settled", c), ~PlanLive(c), pending # [step |-> "final"]
       PROVE  FALSE
  <2>1. Matched(c)
    BY Zenon, <1>1, <1>11 DEF OrderSound
  <2>2. RecordFinality(c) \/ CompleteRound(c)
    BY Zenon, <1>1, <1>11, <2>1, LateStages
  <2> QED
    BY Zenon, <1>11, <2>1, <2>2 DEF RecordFinality, CompleteRound
<1> QED
  BY Zenon, <1>3, <1>6, <1>7, <1>8, <1>9, <1>10, <1>11 DEF Stalled

\* Every reason for a stall survives a quiet step.
LEMMA StallSurvives ==
    ASSUME IInv, [Next]_vars, Quiet, NEW c \in Orders, c = Current, Stalled(c), Room,
           ~WorkerStep(c) \/ (Matched(c) /\ ~Has("signed", c) /\ SigningLost(c))
    PROVE  Stalled(c)'
<1>1. /\ Book' = Book
      /\ \A k : (Has(k, c)' <=> Has(k, c)) /\ Saved(k, c)' = Saved(k, c)
      /\ (Matched(c)' <=> Matched(c)) /\ Filled(c)' = Filled(c)
  BY Zenon, QuietFrame
<1>2. /\ now \in Nat /\ now' \in Nat /\ now <= now' /\ Deadline \in [Orders -> Nat]
      /\ pending' = pending \/ pending' = None
      /\ ledger'.accepted = ledger.accepted /\ ledger'.root \in Nat /\ ledger.root <= ledger'.root
  BY Zenon, MarketAssumption DEF IInv, Quiet
<1>3. OrderSound(c, c, Book, Done) /\ ledger.root \in Nat
  BY Zenon DEF IInv, Sound, LedgerSound
<1>4. ~PlanLive(c) => ~PlanLive(c)'
  BY Zenon, PlanStaysOver
<1>5. ASSUME ~BookFits
      PROVE  Stalled(c)'
  BY Zenon, <1>1, <1>5 DEF Stalled, BookFits
<1>6. ASSUME ~Has("certificate", c), now > Deadline[c]
      PROVE  Stalled(c)'
  <2>1. ~Has("certificate", c)' /\ now' > Deadline[c]
    BY SMTT(30), <1>1, <1>2, <1>6
  <2> QED
    BY Zenon, <2>1 DEF Stalled
<1>7. ASSUME Has("certificate", c), ~Has("plan", c), \A t \in PlanExpiry(c) : now > t
      PROVE  Stalled(c)'
  <2>1. \A t \in PlanExpiry(c)' : now' > t
    BY Zenon, <1>7, ExpiryStaysPast
  <2>2. Has("certificate", c)' /\ ~Has("plan", c)'
    BY Zenon, <1>1, <1>7
  <2> QED
    BY Zenon, <2>1, <2>2 DEF Stalled
<1>8. ASSUME Has("plan", c), ~Has("execution", c), ExecutionLost(c)
      PROVE  Stalled(c)'
  <2>1. ExecutionLost(c)'
    BY Zenon, <1>8, ExecutionStaysLost DEF Matched
  <2>2. Has("plan", c)' /\ ~Has("execution", c)'
    BY Zenon, <1>1, <1>8
  <2> QED
    BY Zenon, <2>1, <2>2 DEF Stalled
<1>9. ASSUME Matched(c), ~Has("signed", c), SigningLost(c)
      PROVE  Stalled(c)'
  <2>1. SigningLost(c)'
    BY Zenon, <1>2, <1>4, <1>9 DEF SigningLost, Holding
  <2>2. Matched(c)' /\ ~Has("signed", c)'
    BY Zenon, <1>1, <1>9
  <2> QED
    BY Zenon, <2>1, <2>2 DEF Stalled
<1>10. ASSUME Has("signed", c), ~Has("settled", c), SettlementLost(c)
       PROVE  Stalled(c)'
  <2>1. Saved("signed", c) \in Nat /\ Saved("signed", c) <= ledger.root /\ Matched(c)
    BY Zenon, <1>3, <1>10 DEF OrderSound
  <2>2. \A p \in Filled(c) \cup {c} : p \in Orders
    <3>1. Filled(c) \subseteq DOMAIN Book
      BY Zenon, <2>1, ExecutionFacts DEF IInv, Matched, Filled, Fills, ResultSound
    <3>2. DOMAIN Book \subseteq Orders
      BY Zenon DEF IInv, Sound, BookSound
    <3> QED
      BY Zenon, <3>1, <3>2
  <2>3. CASE ledger.root # Saved("signed", c)
    <3>1. ledger'.root # Saved("signed", c)
      BY <1>2, <1>3, <2>1, <2>3
    <3>2. Saved("signed", c)' = Saved("signed", c) /\ Has("signed", c)' /\ ~Has("settled", c)'
      BY Zenon, <1>1, <1>10
    <3>3. SettlementLost(c)'
      BY Zenon, <1>2, <1>10, <3>1, <3>2 DEF SettlementLost, Statement
    <3> QED
      BY Zenon, <3>2, <3>3 DEF Stalled
  <2>4. CASE \E p \in Filled(c) \cup {c} : now > Deadline[p]
    <3>1. PICK p \in Filled(c) \cup {c} : now > Deadline[p]
      BY Zenon, <2>4
    <3>2. now' > Deadline[p]
      BY SMTT(30), <1>2, <2>2, <3>1
    <3>3. p \in Filled(c)' \cup {c}
      BY Zenon, <1>1
    <3> QED
      BY Zenon, <1>1, <1>2, <1>10, <3>2, <3>3 DEF SettlementLost, Statement, Stalled
  <2> QED
    BY Zenon, <1>10, <2>3, <2>4 DEF SettlementLost
<1>11. ASSUME Has("settled", c), ~PlanLive(c), pending # [step |-> "final"]
       PROVE  Stalled(c)'
  <2>1. pending' # [step |-> "final"]
    BY Zenon, <1>2, <1>11, MarketAssumption
  <2>2. Has("settled", c)' /\ ~PlanLive(c)'
    BY Zenon, <1>1, <1>4, <1>11
  <2> QED
    BY Zenon, <2>1, <2>2 DEF Stalled
<1> QED
  BY Zenon, <1>5, <1>6, <1>7, <1>8, <1>9, <1>10, <1>11 DEF Stalled

\* A step from a stalled market.
LEMMA BlockedStep ==
    ASSUME IInv, [Next]_vars, Blocked
    PROVE  Blocked' /\ Current' = Current
<1>1. PICK c \in Orders : c = Current /\ Stalled(c) /\ c # None
  <2>1. PICK c : c = Current /\ Stalled(c) /\ c # None
    BY Zenon DEF Blocked
  <2>2. c \in Orders
    BY Zenon, <2>1 DEF IInv, Sound, BookSound
  <2> QED
    BY Zenon, <2>1, <2>2
<1>2. ~(WorkerStep(c) /\ CompleteRound(c)) /\ Stalled(c)'
  <2>1. CASE ~Room
    BY Zenon, <1>1, <2>1, FullStaysFull DEF Stalled
  <2>2. CASE Room /\ ~WorkerStep(c)
    BY Zenon, <1>1, <2>2, QuietStep, StallSurvives
  <2>3. CASE Room /\ WorkerStep(c)
    <3>1. SignFill(c) /\ Matched(c) /\ ~Has("signed", c) /\ SigningLost(c)
      BY Zenon, <1>1, <2>3, StalledStep
    <3>2. ~CompleteRound(c)
      <4>1. pending.step = "signing"
        BY Zenon, <3>1 DEF SignFill, Holding
      <4>2. [step |-> "final"].step = "final" /\ "final" # "signing"
        OBVIOUS
      <4> QED
        BY Zenon, <3>1, <4>1, <4>2 DEF CompleteRound
    <3>3. Quiet
      <4>1. pending' = None /\ UNCHANGED <<completed, journal, ledger, now>>
        BY Zenon, <3>1 DEF SignFill, SigningLost, queue, bounds
      <4>2. now \in Nat /\ ledger.root \in Nat
        BY Zenon DEF IInv, Sound, LedgerSound
      <4> QED
        BY <4>1, <4>2 DEF Quiet
    <3> QED
      BY Zenon, <1>1, <2>3, <3>1, <3>2, <3>3, StallSurvives
  <2> QED
    BY Zenon, <2>1, <2>2, <2>3
<1>3. Current' = c
  BY Zenon, <1>1, <1>2, StepSound
<1> QED
  BY Zenon, <1>1, <1>2, <1>3 DEF Blocked

\* No retry, restart or later event revives a stalled round, and no other order
\* is served after it (pump, next, put).
THEOREM StallsAreFinal ==
    Spec => StallIsFinal
<1>1. IInv /\ [Next]_vars => [Blocked => Blocked' /\ Current' = Current]_vars
  BY Zenon, BlockedStep
<1> QED
  BY <1>1, Invariant, PTL DEF Spec, StallIsFinal
=============================================================================
