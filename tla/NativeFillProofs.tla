-------------------------- MODULE NativeFillProofs --------------------------
(***************************************************************************)
(* Proofs about NativeFill, for any committee, log, reservations and       *)
(* deadlines, and any number of proofs, keys, signatures and foreign       *)
(* transactions.  What the nodes sign is checked against their own record  *)
(* of the round (FillSound), the ledger applies a group slot by slot       *)
(* (Through), and what it has accepted fixes the reserves (LedgerSound).   *)
(***************************************************************************)
EXTENDS NativeFill, SumLemmas

----------------------------------------------------------------------------
(* The log *)

SpentBy(o) == [j \in Jobs |-> Spent(j, o)]

\* A job is a slot of a round of the log.
LEMMA JobFacts ==
    ASSUME NEW job \in Jobs
    PROVE  /\ job[1] \in Rounds /\ job[2] \in Slots(job[1]) /\ job = <<job[1], job[2]>>
           /\ job[1] \in Nat /\ job[2] \in 0 .. MaxMatchSlots - 1
           /\ Maker(job) \in Orders /\ Taker(job) \in Orders /\ Maker(job) # Taker(job)
           /\ Pair(job) = {Maker(job), Taker(job)} /\ Pair(job) \subseteq InRound(job[1])
           /\ Side[Maker(job)] # Side[Taker(job)]
<1>1. PICK p \in Rounds : \E s \in Slots(p) : job = <<p, s>>
  BY Zenon DEF Jobs, collaborative_job_id
<1>2. PICK s \in Slots(p) : job = <<p, s>>
  BY Zenon, <1>1
<1>3. job[1] = p /\ job[2] = s
  BY <1>2
<1>4. p \in 1 .. Len(Log) /\ Len(Log) \in Nat /\ s \in 0 .. MaxMatchSlots - 1
  BY Zenon, <1>1, LogAssumption DEF Rounds
<1>5. /\ Maker(job) \in Orders /\ Side[Maker(job)] # Side[Taker(job)]
      /\ Taker(job) \in Orders
  BY Zenon, <1>3, LogAssumption DEF Taker
<1>6. Maker(job) \in InRound(p) /\ Taker(job) \in InRound(p)
  BY Zenon, <1>3 DEF InRound, Maker, Taker, Range, Slots
<1> QED  BY <1>2, <1>3, <1>4, <1>5, <1>6 DEF Pair

\* Every fill takes something from both reservations: quantity and price are
\* positive.
LEMMA SpentPositive ==
    ASSUME NEW job \in Jobs, NEW o
    PROVE  Spent(job, o) \in Nat /\ Spent(job, o) > 0 /\ SpentBy(o)[job] = Spent(job, o)
<1>1. PICK q, r : q = Quantity(job) /\ r = Price(job)
  BY Zenon
<1>2. q \in Nat \ {0} /\ r \in Nat \ {0}
  BY Zenon, <1>1, LogAssumption
<1>3. q * r \in Nat /\ q * r > 0
  BY <1>2
<1>4. Spent(job, o) \in {q, q * r}
  BY Zenon, <1>1 DEF Spent
<1> QED  BY <1>2, <1>3, <1>4 DEF SpentBy

\* The log is finite, so there are finitely many jobs.
LEMMA JobsFinite == IsFiniteSet(Jobs)
<1>1. 1 \in Int /\ 0 \in Int /\ Len(Log) \in Int /\ MaxMatchSlots - 1 \in Int
  BY LogAssumption, CommitteeAssumption
<1>2. IsFiniteSet(1 .. Len(Log)) /\ IsFiniteSet(0 .. MaxMatchSlots - 1)
  BY Zenon, <1>1, FS_Interval
<1>3. IsFiniteSet((1 .. Len(Log)) \X (0 .. MaxMatchSlots - 1))
  BY Zenon, <1>2, FS_Product
<1>4. Jobs \subseteq (1 .. Len(Log)) \X (0 .. MaxMatchSlots - 1)
  <2>1. ASSUME NEW job \in Jobs PROVE job \in (1 .. Len(Log)) \X (0 .. MaxMatchSlots - 1)
    <3>1. job[1] \in 1 .. Len(Log)
      BY Zenon, JobFacts, LogAssumption DEF Rounds
    <3> QED  BY <3>1, JobFacts
  <2> QED  BY Zenon, <2>1
<1> QED  BY Zenon, <1>3, <1>4, FS_Subset

----------------------------------------------------------------------------
(* Heads, and what a group of fills does to them *)

\* What a node checks of a fill against its own record of the round.
FillSound(f) ==
    /\ f.job \in Jobs
    /\ f.slots = Slots(f.job[1])
    /\ f.maker.hold = Maker(f.job) /\ f.taker.hold = Taker(f.job)
    /\ ~f.maker.close
    /\ f.taker.close => TakerMayClose(f.job)
    /\ verify_reserves(f)

HeadSound(h, o) ==
    /\ h = [hold |-> o, status |-> h.status, sequence |-> h.sequence,
            remaining |-> h.remaining, receipt |-> h.receipt]
    /\ h.status \in {"active", "consumed", "released"}
    /\ h.sequence \in Nat
    /\ h.remaining \in Int

Heads(heads) ==
    /\ heads = [o \in Orders |-> heads[o]]
    /\ \A o \in Orders : HeadSound(heads[o], o)

\* The two spends of a fill are of the two orders of its job.
LEMMA SpendsOf ==
    ASSUME NEW f, FillSound(f)
    PROVE  /\ Spend(f, Maker(f.job)) = f.maker /\ Spend(f, Taker(f.job)) = f.taker
           /\ {s.hold : s \in Spends(f)} = Pair(f.job)
           /\ \A o \in Pair(f.job) : Spend(f, o) \in Spends(f) /\ Spend(f, o).hold = o
           /\ \A s \in Spends(f) : /\ Spend(f, s.hold) = s /\ s.hold \in Orders
                                   /\ s.remaining = Reserve[f.job][s.hold]
<1>1. /\ f.maker.hold # f.taker.hold /\ f.maker.hold \in Orders /\ f.taker.hold \in Orders
      /\ f.maker.hold = Maker(f.job) /\ f.taker.hold = Taker(f.job)
      /\ Pair(f.job) = {Maker(f.job), Taker(f.job)}
  BY Zenon, JobFacts DEF FillSound
<1>2. Spends(f) = {f.maker, f.taker}
  BY Zenon DEF Spends
<1>3. \A s \in Spends(f) : s.remaining = Reserve[f.job][s.hold]
  BY Zenon DEF FillSound, verify_reserves
<1>4. /\ (CHOOSE h \in {f.maker, f.taker} : h.hold = Maker(f.job)) = f.maker
      /\ (CHOOSE h \in {f.maker, f.taker} : h.hold = Taker(f.job)) = f.taker
  BY <1>1
<1>5. Spend(f, Maker(f.job)) = f.maker /\ Spend(f, Taker(f.job)) = f.taker
  BY Zenon, <1>2, <1>4 DEF Spend
<1> QED  BY Zenon, <1>1, <1>2, <1>3, <1>5

\* A head after a fill took its leg from it.
LEMMA AdvancedHead ==
    ASSUME NEW f, FillSound(f), NEW o \in Pair(f.job), NEW h, HeadSound(h, o),
           NEW x, x = Advanced(h, f)
    PROVE  /\ HeadSound(x, o)
           /\ x.sequence = h.sequence + 1
           /\ x.remaining = h.remaining - Spent(f.job, o)
           /\ x.status = h.status
              \/ (x.status = "consumed" /\ o = Taker(f.job) /\ TakerMayClose(f.job))
<1>1. h.hold = o
  BY DEF HeadSound
<1>2. PICK status : /\ status = IF Spend(f, o).close THEN "consumed" ELSE h.status
                    /\ x = [hold |-> o, status |-> status, sequence |-> h.sequence + 1,
                            remaining |-> h.remaining - Spent(f.job, o),
                            receipt |-> Receipt(f)]
  BY <1>1 DEF Advanced, HeadSound
<1>3. status = h.status \/ (status = "consumed" /\ o = Taker(f.job) /\ TakerMayClose(f.job))
  <2>1. Spend(f, o).close => o = Taker(f.job) /\ TakerMayClose(f.job)
    <3>1. o \in {Maker(f.job), Taker(f.job)}
      BY Zenon, JobFacts DEF FillSound
    <3>2. Spend(f, Maker(f.job)) = f.maker /\ Spend(f, Taker(f.job)) = f.taker
      BY Zenon, SpendsOf
    <3>3. ~f.maker.close /\ (f.taker.close => TakerMayClose(f.job))
      BY Zenon DEF FillSound
    <3> QED  BY Zenon, <3>1, <3>2, <3>3
  <2> QED  BY Zenon, <1>2, <2>1
<1>4. /\ x.hold = o /\ x.status = status /\ x.sequence = h.sequence + 1
      /\ x.remaining = h.remaining - Spent(f.job, o) /\ x.receipt = Receipt(f)
  BY <1>2
<1>5. Spent(f.job, o) \in Nat
  BY Zenon, SpentPositive DEF FillSound
<1>6. h.status \in {"active", "consumed", "released"} /\ h.sequence \in Nat /\ h.remaining \in Int
  BY Zenon DEF HeadSound
<1>7. HeadSound(x, o)
  <2>1. x.sequence \in Nat /\ x.remaining \in Int
    BY <1>4, <1>5, <1>6
  <2>2. x.status \in {"active", "consumed", "released"}
    BY <1>3, <1>4, <1>6
  <2>3. x = [hold |-> o, status |-> x.status, sequence |-> x.sequence,
             remaining |-> x.remaining, receipt |-> x.receipt]
    BY Zenon, <1>2, <1>4
  <2> QED  BY Zenon, <2>1, <2>2, <2>3 DEF HeadSound
<1> QED  BY Zenon, <1>3, <1>4, <1>7

\* The ledger applies a fill to the heads of its two orders and no other.
LEMMA AppliedHeads ==
    ASSUME NEW H, NEW f, FillSound(f), NEW x \in Applied(H, f), \A h \in H : Heads(h)
    PROVE  \E h \in H :
            /\ Heads(x)
            /\ \A s \in Spends(f) : Matches(h[s.hold], s) /\ x[s.hold] = Advanced(h[s.hold], f)
            /\ \A o \in Orders \ Pair(f.job) : x[o] = h[o]
<1>1. PICK h \in H : /\ \A s \in Spends(f) : Matches(h[s.hold], s)
                     /\ x = [h EXCEPT ![f.maker.hold] = Advanced(@, f),
                                      ![f.taker.hold] = Advanced(@, f)]
  BY Zenon DEF Applied
<1>2. /\ f.maker.hold # f.taker.hold /\ f.maker.hold \in Orders /\ f.taker.hold \in Orders
      /\ Pair(f.job) = {f.maker.hold, f.taker.hold}
  BY Zenon, JobFacts DEF FillSound
<1>3. PICK m, t, a, b : /\ m = f.maker.hold /\ t = f.taker.hold
                        /\ a = Advanced(h[m], f) /\ b = Advanced(h[t], f)
  BY Zenon
<1>4. h = [o \in Orders |-> h[o]] /\ \A o \in Orders : HeadSound(h[o], o)
  BY Zenon DEF Heads
<1>5. x = [o \in Orders |-> IF o = m THEN a ELSE IF o = t THEN b ELSE h[o]]
  BY <1>1, <1>2, <1>3, <1>4
<1>6. x[m] = a /\ x[t] = b /\ \A o \in Orders \ {m, t} : x[o] = h[o]
  BY Zenon, <1>2, <1>3, <1>5
<1>7. HeadSound(a, m) /\ HeadSound(b, t)
  BY <1>2, <1>3, <1>4, AdvancedHead
<1>8. Heads(x)
  <2>1. \A o \in Orders : HeadSound(x[o], o)
    BY Zenon, <1>4, <1>6, <1>7
  <2>2. x = [o \in Orders |-> x[o]]
    BY Zenon, <1>5
  <2> QED  BY Zenon, <2>1, <2>2 DEF Heads
<1>9. \A s \in Spends(f) : x[s.hold] = Advanced(h[s.hold], f)
  BY Zenon, <1>3, <1>6 DEF Spends
<1> QED  BY Zenon, <1>1, <1>2, <1>3, <1>6, <1>8, <1>9
JobsOf(fills, o) == {j \in {f.job : f \in fills} : o \in Pair(j)}

\* What the members of a group that are done have left of the heads.
Through(h, base, done) ==
    /\ Heads(h)
    /\ \A o \in Orders :
        /\ h[o].remaining <= base[o].remaining
        /\ base[o].sequence <= h[o].sequence
        /\ h[o].remaining = base[o].remaining - SumFunctionOnSet(SpentBy(o), JobsOf(done, o))
        /\ h[o].status = base[o].status
           \/ (h[o].status = "consumed" /\ \E f \in done : o = Taker(f.job) /\ TakerMayClose(f.job))
    /\ \A f \in done : \A s \in Spends(f) :
        /\ s.remaining \in Int /\ s.remaining <= base[s.hold].remaining
        /\ h[s.hold].remaining <= s.remaining - Spent(f.job, s.hold)
        /\ s.sequence \in Nat
        /\ base[s.hold].sequence <= s.sequence /\ s.sequence < h[s.hold].sequence
    /\ \A f, g \in done : \A s \in Spends(f), t \in Spends(g) :
        s.hold = t.hold /\ s.sequence = t.sequence => f = g

\* Before the first member nothing has changed.
LEMMA ThroughNone ==
    ASSUME NEW base, Heads(base)
    PROVE  Through(base, base, {})
<1>1. \A o \in Orders : JobsOf({}, o) = {}
  BY Zenon DEF JobsOf
<1>2. \A o \in Orders : /\ SumFunctionOnSet(SpentBy(o), JobsOf({}, o)) = 0
                        /\ base[o].remaining \in Int /\ base[o].sequence \in Nat
  BY Zenon, <1>1, SumEmpty DEF Heads, HeadSound
<1>3. \A o \in Orders : /\ base[o].remaining <= base[o].remaining
                        /\ base[o].sequence <= base[o].sequence
                        /\ base[o].remaining =
                            base[o].remaining - SumFunctionOnSet(SpentBy(o), JobsOf({}, o))
  BY <1>2
<1> QED  BY Zenon, <1>3 DEF Through

\* The next member.
LEMMA ThroughNext ==
    ASSUME NEW H, NEW base, Heads(base), NEW done, \A h \in H : Through(h, base, done),
           \A g \in done : FillSound(g),
           NEW f, FillSound(f), \A g \in done : g.job # f.job,
           NEW x \in Applied(H, f)
    PROVE  Through(x, base, done \cup {f})
<1>1. PICK h \in H :
        /\ Heads(x)
        /\ \A s \in Spends(f) : Matches(h[s.hold], s) /\ x[s.hold] = Advanced(h[s.hold], f)
        /\ \A o \in Orders \ Pair(f.job) : x[o] = h[o]
  <2>1. \A h \in H : Heads(h)
    BY Zenon DEF Through
  <2> QED  BY Zenon, <2>1, AppliedHeads
<1>2. Through(h, base, done) /\ Heads(h)
  BY Zenon DEF Through
<1>3. f.job \in Jobs /\ \A g \in done : g.job \in Jobs
  BY Zenon DEF FillSound
<1>4. ASSUME NEW o \in Orders \ Pair(f.job) PROVE x[o] = h[o] /\ JobsOf(done \cup {f}, o) = JobsOf(done, o)
  <2>1. x[o] = h[o]
    BY Zenon, <1>1, <1>4
  <2>2. JobsOf(done \cup {f}, o) = JobsOf(done, o)
    BY <1>4 DEF JobsOf
  <2> QED  BY Zenon, <2>1, <2>2
<1>5. ASSUME NEW s \in Spends(f)
      PROVE  /\ s.hold \in Orders /\ s.hold \in Pair(f.job)
             /\ h[s.hold].sequence = s.sequence /\ h[s.hold].remaining = s.remaining
             /\ x[s.hold].sequence = h[s.hold].sequence + 1
             /\ x[s.hold].remaining = h[s.hold].remaining - Spent(f.job, s.hold)
             /\ x[s.hold].status = h[s.hold].status
                \/ (x[s.hold].status = "consumed" /\ s.hold = Taker(f.job) /\ TakerMayClose(f.job))
  <2>1. s.hold \in Orders /\ s.hold \in Pair(f.job)
    BY Zenon, <1>5, SpendsOf
  <2>2. HeadSound(h[s.hold], s.hold)
    BY Zenon, <1>2, <2>1 DEF Heads
  <2>3. x[s.hold] = Advanced(h[s.hold], f) /\ Matches(h[s.hold], s)
    BY Zenon, <1>1, <1>5
  <2>4. h[s.hold].sequence = s.sequence /\ h[s.hold].remaining = s.remaining
    BY Zenon, <2>3 DEF Matches
  <2>5. PICK o, y, z : o = s.hold /\ y = h[s.hold] /\ z = x[s.hold]
    BY Zenon
  <2>6. /\ z.sequence = y.sequence + 1
        /\ z.remaining = y.remaining - Spent(f.job, o)
        /\ z.status = y.status
           \/ (z.status = "consumed" /\ o = Taker(f.job) /\ TakerMayClose(f.job))
    <3>1. o \in Pair(f.job) /\ HeadSound(y, o) /\ z = Advanced(y, f)
      BY Zenon, <2>1, <2>2, <2>3, <2>5
    <3> QED  BY <3>1, AdvancedHead
  <2> QED  BY Zenon, <2>1, <2>4, <2>5, <2>6
<1>6. \A o \in Orders : /\ h[o].remaining \in Int /\ h[o].sequence \in Nat
                        /\ base[o].remaining \in Int /\ base[o].sequence \in Nat
                        /\ h[o].remaining <= base[o].remaining
                        /\ base[o].sequence <= h[o].sequence
                        /\ Spent(f.job, o) \in Nat /\ Spent(f.job, o) > 0
  BY Zenon, <1>2, <1>3, SpentPositive DEF Through, Heads, HeadSound
<1>7. \A o \in Pair(f.job) : \E s \in Spends(f) : s.hold = o
  BY Zenon, SpendsOf
<1>8. \A o \in Orders : /\ x[o].remaining <= h[o].remaining /\ x[o].remaining \in Int
                        /\ h[o].sequence <= x[o].sequence /\ x[o].sequence \in Nat
  <2>1. ASSUME NEW s \in Spends(f)
        PROVE  /\ x[s.hold].remaining <= h[s.hold].remaining /\ x[s.hold].remaining \in Int
               /\ h[s.hold].sequence <= x[s.hold].sequence /\ x[s.hold].sequence \in Nat
    BY <1>5, <1>6, <2>1
  <2>2. ASSUME NEW o \in Orders \ Pair(f.job)
        PROVE  /\ x[o].remaining <= h[o].remaining /\ x[o].remaining \in Int
               /\ h[o].sequence <= x[o].sequence /\ x[o].sequence \in Nat
    BY <1>4, <1>6, <2>2
  <2> QED  BY Zenon, <1>7, <2>1, <2>2
<1>9. ASSUME NEW o \in Orders
      PROVE  x[o].remaining =
                base[o].remaining - SumFunctionOnSet(SpentBy(o), JobsOf(done \cup {f}, o))
  <2>1. PICK J : J = JobsOf(done, o)
    BY Zenon
  <2>2. J \in SUBSET Jobs /\ f.job \notin J
    BY Zenon, <1>3, <2>1 DEF JobsOf
  <2>3. IsFiniteSet(J) /\ Ints(SpentBy(o), J \cup {f.job})
    <3>1. \A j \in Jobs : SpentBy(o)[j] \in Int
      BY SpentPositive
    <3> QED  BY Zenon, <1>3, <2>2, <3>1, JobsFinite, FS_Subset DEF Ints
  <2>4. h[o].remaining = base[o].remaining - SumFunctionOnSet(SpentBy(o), J)
    BY Zenon, <1>2, <2>1 DEF Through
  <2>5. CASE o \notin Pair(f.job)
    BY Zenon, <1>4, <2>1, <2>4, <2>5
  <2>6. CASE o \in Pair(f.job)
    <3>1. JobsOf(done \cup {f}, o) = J \cup {f.job}
      BY <2>1, <2>6 DEF JobsOf
    <3>2. SumFunctionOnSet(SpentBy(o), J \cup {f.job}) =
            SpentBy(o)[f.job] + SumFunctionOnSet(SpentBy(o), J)
      BY Zenon, <2>2, <2>3, SumAdd
    <3>3. SpentBy(o)[f.job] = Spent(f.job, o)
      BY Zenon, <1>3, SpentPositive
    <3>4. SumFunctionOnSet(SpentBy(o), J) \in Int
      BY Zenon, <2>3, SumInt DEF Ints
    <3>5. x[o].remaining = h[o].remaining - Spent(f.job, o)
      <4>1. PICK s \in Spends(f) : s.hold = o
        BY Zenon, <1>7, <2>6
      <4> QED  BY Zenon, <1>5, <4>1
    <3>6. base[o].remaining \in Int /\ Spent(f.job, o) \in Nat
      BY Zenon, <1>6
    <3>7. PICK a, b, c, d : /\ a = base[o].remaining /\ b = SumFunctionOnSet(SpentBy(o), J)
                            /\ c = Spent(f.job, o)
                            /\ d = SumFunctionOnSet(SpentBy(o), JobsOf(done \cup {f}, o))
      BY Zenon
    <3>8. d = c + b /\ x[o].remaining = (a - b) - c /\ a \in Int /\ b \in Int /\ c \in Int
      <4>1. c \in Int
        BY <3>6, <3>7
      <4> QED  BY Zenon, <2>4, <3>1, <3>2, <3>3, <3>4, <3>5, <3>6, <3>7, <4>1
    <3>9. x[o].remaining = a - d
      BY <3>8
    <3> QED  BY Zenon, <3>7, <3>9
  <2> QED  BY Zenon, <2>5, <2>6
<1>10. ASSUME NEW o \in Orders
       PROVE  x[o].status = base[o].status
              \/ (x[o].status = "consumed"
                  /\ \E g \in done \cup {f} : o = Taker(g.job) /\ TakerMayClose(g.job))
  <2>1. h[o].status = base[o].status
        \/ (h[o].status = "consumed" /\ \E g \in done : o = Taker(g.job) /\ TakerMayClose(g.job))
    BY Zenon, <1>2 DEF Through
  <2>2. x[o].status = h[o].status
        \/ (x[o].status = "consumed" /\ o = Taker(f.job) /\ TakerMayClose(f.job))
    <3>1. ASSUME NEW s \in Spends(f), s.hold = o
          PROVE  x[o].status = h[o].status
                 \/ (x[o].status = "consumed" /\ o = Taker(f.job) /\ TakerMayClose(f.job))
      BY Zenon, <1>5, <3>1
    <3> QED  BY Zenon, <1>4, <1>7, <3>1
  <2> QED  BY Zenon, <2>1, <2>2
<1>11. ASSUME NEW g \in done \cup {f}, NEW s \in Spends(g)
       PROVE  /\ s.remaining \in Int /\ s.remaining <= base[s.hold].remaining
              /\ x[s.hold].remaining <= s.remaining - Spent(g.job, s.hold)
              /\ s.sequence \in Nat
              /\ base[s.hold].sequence <= s.sequence /\ s.sequence < x[s.hold].sequence
  <2>1. CASE g = f
    <3>1. s \in Spends(f) /\ s.hold \in Orders
      BY Zenon, <1>5, <1>11, <2>1
    <3> QED  BY <1>5, <1>6, <2>1, <3>1
  <2>2. CASE g \in done
    <3>1. /\ s.remaining \in Int /\ s.remaining <= base[s.hold].remaining
          /\ h[s.hold].remaining <= s.remaining - Spent(g.job, s.hold)
          /\ s.sequence \in Nat
          /\ base[s.hold].sequence <= s.sequence /\ s.sequence < h[s.hold].sequence
      BY Zenon, <1>2, <1>11, <2>2 DEF Through
    <3>2. s.hold \in Orders
      BY Zenon, <1>11, <2>2, SpendsOf
    <3>3. Spent(g.job, s.hold) \in Nat
      BY Zenon, <1>3, <2>2, SpentPositive
    <3>4. /\ x[s.hold].remaining <= h[s.hold].remaining /\ x[s.hold].remaining \in Int
          /\ h[s.hold].sequence <= x[s.hold].sequence /\ x[s.hold].sequence \in Nat
          /\ h[s.hold].remaining \in Int /\ h[s.hold].sequence \in Nat
      BY Zenon, <1>6, <1>8, <3>2
    <3> QED  BY <3>1, <3>3, <3>4
  <2> QED  BY Zenon, <1>11, <2>1, <2>2
<1>12. ASSUME NEW g \in done \cup {f}, NEW k \in done \cup {f},
              NEW s \in Spends(g), NEW t \in Spends(k), s.hold = t.hold, s.sequence = t.sequence
       PROVE  g = k
  <2>1. ASSUME NEW i \in done, NEW u \in Spends(i), NEW v \in Spends(f), u.hold = v.hold
        PROVE  u.sequence # v.sequence
    <3>1. u.sequence \in Nat /\ u.sequence < h[v.hold].sequence /\ h[v.hold].sequence = v.sequence
      BY Zenon, <1>2, <1>5, <2>1 DEF Through
    <3> QED  BY <3>1
  <2>2. g \in done /\ k \in done => g = k
    BY Zenon, <1>2, <1>12 DEF Through
  <2> QED  BY Zenon, <1>12, <2>1, <2>2
<1>13. \A o \in Orders : x[o].remaining <= base[o].remaining /\ base[o].sequence <= x[o].sequence
  BY <1>6, <1>8
<1> QED  BY Zenon, <1>1, <1>9, <1>10, <1>11, <1>12, <1>13 DEF Through
IsGroup(g, n, base, fills) ==
    g = [k \in 0 .. n |-> IF k = 0 THEN {base} ELSE SlotApplied(g[k - 1], fills, k - 1)]

\* The heads after each slot of a group are defined.
LEMMA GroupDefined ==
    ASSUME NEW base, NEW fills, NEW n \in Nat
    PROVE  \E g : IsGroup(g, n, base, fills)
<1> DEFINE T == {m \in Nat : ~\E g : IsGroup(g, m, base, fills)}
<1>0. T \in SUBSET Nat /\ \A m \in Nat : m \in T <=> ~\E g : IsGroup(g, m, base, fills)
  BY Zenon
<1> HIDE DEF T
<1>1. ASSUME T # {} PROVE FALSE
  <2>1. PICK m \in T : \A k \in T : m <= k
    BY Zenon, <1>0, <1>1, LeastNumber
  <2>2. CASE m = 0
    <3>1. PICK g : g = [k \in 0 .. 0 |-> {base}]
      BY Zenon
    <3>2. IsGroup(g, 0, base, fills)
      BY <3>1 DEF IsGroup
    <3> QED  BY Zenon, <1>0, <2>1, <2>2, <3>2
  <2>3. CASE m # 0
    <3>0. m \in Nat
      BY Zenon, <1>0, <2>1
    <3>1. m - 1 \in Nat /\ m - 1 \notin T
      BY <2>1, <2>3, <3>0
    <3>2. PICK g : IsGroup(g, m - 1, base, fills)
      BY Zenon, <1>0, <3>1
    <3>3. PICK h : h = [k \in 0 .. m |->
                          IF k = m THEN SlotApplied(g[k - 1], fills, k - 1) ELSE g[k]]
      BY Zenon
    <3>4. /\ h[m] = SlotApplied(h[m - 1], fills, m - 1)
          /\ \A k \in 0 .. m - 1 : h[k] = g[k]
      BY <2>3, <3>0, <3>3
    <3>5. \A k \in 0 .. m - 1 : g[k] = IF k = 0 THEN {base} ELSE SlotApplied(g[k - 1], fills, k - 1)
      BY Zenon, <3>1, <3>2 DEF IsGroup
    <3>6. \A k \in 0 .. m : h[k] = IF k = 0 THEN {base} ELSE SlotApplied(h[k - 1], fills, k - 1)
      BY <2>3, <3>0, <3>4, <3>5
    <3>7. IsGroup(h, m, base, fills)
      BY Zenon, <3>3, <3>6 DEF IsGroup
    <3> QED  BY Zenon, <1>0, <2>1, <3>7
  <2> QED  BY Zenon, <2>2, <2>3
<1> QED  BY Zenon, <1>0, <1>1

Done(fills, k) == {f \in fills : f.job[2] < k}

\* The group is applied slot by slot, each fill once.
LEMMA GroupThrough ==
    ASSUME NEW base, Heads(base), NEW fills, \A f \in fills : FillSound(f),
           \A f, g \in fills : f.job[2] = g.job[2] => f = g,
           NEW n \in Nat, NEW g, IsGroup(g, n, base, fills)
    PROVE  \A h \in g[n] : Through(h, base, Done(fills, n))
<1> DEFINE Right(k) == \A h \in g[k] : Through(h, base, Done(fills, k))
           T == {k \in 0 .. n : ~Right(k)}
<1>0. /\ T \in SUBSET Nat /\ T \subseteq 0 .. n
      /\ \A k \in 0 .. n : k \in T <=> ~Right(k)
  <2>1. 0 .. n \subseteq Nat
    OBVIOUS
  <2> QED  BY Zenon, <2>1
<1> HIDE DEF T
<1>1. \A k \in 0 .. n : g[k] = IF k = 0 THEN {base} ELSE SlotApplied(g[k - 1], fills, k - 1)
  BY Zenon DEF IsGroup
<1>2. \A f \in fills : f.job[2] \in Nat
  <2>1. \A f \in fills : f.job[2] \in 0 .. MaxMatchSlots - 1
    BY Zenon, JobFacts DEF FillSound
  <2> QED  BY <2>1, CommitteeAssumption
<1>3. ASSUME T # {} PROVE FALSE
  <2>1. PICK m \in T : \A k \in T : m <= k
    BY Zenon, <1>0, <1>3, LeastNumber
  <2>2. m \in 0 .. n /\ ~Right(m)
    BY Zenon, <1>0, <2>1
  <2>3. m # 0
    <3>1. Done(fills, 0) = {}
      BY <1>2 DEF Done
    <3>2. 0 \in 0 .. n
      OBVIOUS
    <3>3. g[0] = {base}
      BY Zenon, <1>1, <3>2
    <3> QED  BY Zenon, <2>2, <3>1, <3>3, ThroughNone
  <2>4. m - 1 \in 0 .. n /\ m - 1 \notin T /\ m - 1 \in Nat
    BY <2>1, <2>2, <2>3
  <2>5. \A h \in g[m - 1] : Through(h, base, Done(fills, m - 1))
    BY Zenon, <1>0, <2>4
  <2>6. g[m] = SlotApplied(g[m - 1], fills, m - 1)
    BY Zenon, <1>1, <2>2, <2>3
  <2>7. Done(fills, m) = Done(fills, m - 1) \cup {f \in fills : f.job[2] = m - 1}
    <3>1. \A f \in fills : f.job[2] < m <=> f.job[2] < m - 1 \/ f.job[2] = m - 1
      BY <1>2, <2>2, <2>4
    <3> QED  BY Zenon, <3>1 DEF Done
  <2>8. CASE {f \in fills : f.job[2] = m - 1} = {}
    <3>1. g[m] = g[m - 1]
      BY Zenon, <2>6, <2>8 DEF SlotApplied
    <3>2. Done(fills, m) = Done(fills, m - 1)
      BY <2>7, <2>8
    <3> QED  BY Zenon, <2>2, <2>5, <3>1, <3>2
  <2>9. CASE {f \in fills : f.job[2] = m - 1} # {}
    <3>1. g[m] = UNION {Applied(g[m - 1], f) : f \in {e \in fills : e.job[2] = m - 1}}
      BY Zenon, <2>6, <2>9 DEF SlotApplied
    <3>2. ASSUME NEW x \in g[m] PROVE Through(x, base, Done(fills, m))
      <4>1. PICK f \in fills : f.job[2] = m - 1 /\ x \in Applied(g[m - 1], f)
        BY Zenon, <3>1, <3>2
      <4>2. {e \in fills : e.job[2] = m - 1} = {f}
        BY Zenon, <4>1
      <4>3. \A e \in Done(fills, m - 1) : e.job # f.job /\ FillSound(e)
        <5>1. \A e \in fills : e.job[2] < m - 1 => e.job[2] # m - 1
          BY <1>2, <2>4
        <5> QED  BY Zenon, <4>1, <5>1 DEF Done
      <4>4. Through(x, base, Done(fills, m - 1) \cup {f})
        BY <2>5, <4>1, <4>3, ThroughNext
      <4> QED  BY Zenon, <2>7, <4>2, <4>4
    <3> QED  BY Zenon, <2>2, <3>2
  <2> QED  BY Zenon, <2>8, <2>9
<1>4. n \in 0 .. n
  OBVIOUS
<1> QED  BY Zenon, <1>0, <1>3, <1>4

\* All heads after a group, from the heads that the ledger has.
LEMMA GroupAppliedThrough ==
    ASSUME Heads(ledger.head), NEW fills, \A f \in fills : FillSound(f),
           \A f, g \in fills : f.job[2] = g.job[2] => f = g,
           NEW h \in GroupApplied(fills)
    PROVE  Through(h, ledger.head, fills)
<1> DEFINE G == CHOOSE g : g = [k \in 0 .. MaxMatchSlots |->
                    IF k = 0 THEN {ledger.head} ELSE SlotApplied(g[k - 1], fills, k - 1)]
<1>1. MaxMatchSlots \in Nat
  BY CommitteeAssumption
<1>2. \E g : g = [k \in 0 .. MaxMatchSlots |->
                    IF k = 0 THEN {ledger.head} ELSE SlotApplied(g[k - 1], fills, k - 1)]
  <2>1. PICK g : IsGroup(g, MaxMatchSlots, ledger.head, fills)
    BY Zenon, <1>1, GroupDefined
  <2> QED  BY Zenon, <2>1 DEF IsGroup
<1>3. IsGroup(G, MaxMatchSlots, ledger.head, fills)
  BY Zenon, <1>2 DEF IsGroup
<1>4. h \in G[MaxMatchSlots]
  BY Zenon DEF GroupApplied
<1> HIDE DEF G
<1>5. Done(fills, MaxMatchSlots) = fills
  <2>1. \A f \in fills : f.job[2] \in 0 .. MaxMatchSlots - 1
    BY Zenon, JobFacts DEF FillSound
  <2>2. \A f \in fills : f.job[2] < MaxMatchSlots
    BY <1>1, <2>1
  <2> QED  BY Zenon, <2>2 DEF Done
<1>6. Through(h, ledger.head, Done(fills, MaxMatchSlots))
  BY <1>1, <1>3, <1>4, GroupThrough
<1> QED  BY Zenon, <1>5, <1>6
----------------------------------------------------------------------------
(* The inductive invariant *)

\* Some node has come as far as this item of the log.
Reached(p) == \E n \in Nodes : at[n] >= p

\* The wallet still has the keys that a spend was signed with.
Kept(spend, draw, job) ==
    \E k \in keys[spend.hold] :
        k.sequence = spend.sequence /\ k.draw = draw /\ k.issue.nullifier = job

\* A statement that a node has approved.
BodySound(b) ==
    /\ b.kind = "fill" =>
        /\ FillSound(b) /\ Reached(b.job[1])
        /\ Kept(b.maker, b.keys.maker, b.job) /\ Kept(b.taker, b.keys.taker, b.job)
    /\ b.kind # "fill" =>
        \E c \in DOMAIN Log \ Rounds : Log[c].order = b.order /\ Reached(c)

OnePerJob(fills) ==
    \A f, g \in fills : f.kind = "fill" /\ g.kind = "fill" /\ f.job = g.job => f = g

CertifiedSound ==
    /\ request # None => BodySound(request.body)
    /\ \A b \in certified : BodySound(b)
    /\ OnePerJob(certified)

IsFills(tx) == \A b \in tx.body : b.kind = "fill"

JobsOfRound(p) == {collaborative_job_id(p, s) : s \in Slots(p)}

TxSound(tx) ==
    /\ tx.body # {}
    /\ \A b \in tx.body : BodySound(b)
    /\ IsFills(tx) => \E p \in Rounds : {f.job : f \in tx.body} = JobsOfRound(p)
    /\ ~IsFills(tx) => \A b \in tx.body : b.kind # "fill"

SettledFills == UNION {tx.body : tx \in FillTransactions}

SettledJobs(o) == {j \in Jobs : Settled(j[1]) /\ o \in Pair(j)}

\* Reserves fall and sequences rise with every fill.
SpendSound(f, s) ==
    /\ s.remaining \in Int
    /\ ledger.head[s.hold].remaining <= s.remaining - Spent(f.job, s.hold)
    /\ s.sequence \in Nat /\ s.sequence < ledger.head[s.hold].sequence

HeadsSound ==
    /\ Heads(ledger.head)
    /\ \A f \in SettledFills : \A s \in Spends(f) : SpendSound(f, s)
    /\ \A f, g \in SettledFills : \A s \in Spends(f), t \in Spends(g) :
        s.hold = t.hold /\ s.sequence = t.sequence => f = g
    /\ \A o \in Orders :
        /\ ledger.head[o].remaining = Amount[o] - SumFunctionOnSet(SpentBy(o), SettledJobs(o))
        /\ ledger.head[o].status = "consumed" =>
            \E q \in Rounds : Settled(q) /\ Log[q].taker = o /\ Log[q].left = 0
        /\ ledger.head[o].status = "released" =>
            \/ now > Deadline[o]
            \/ \E c \in DOMAIN Log \ Rounds : Log[c].order = o /\ Reached(c)

LedgerSound ==
    /\ ledger = [root |-> ledger.root, head |-> ledger.head, accepted |-> ledger.accepted]
    /\ \A tx \in ledger.accepted : TxSound(tx)
    /\ \A tx, ty \in FillTransactions : RoundOf(tx) = RoundOf(ty) => tx = ty

NodesSound ==
    /\ at \in [Nodes -> Nat]
    /\ now \in Nat
    /\ keys = [o \in Orders |-> keys[o]]
    /\ observed = [n \in Nodes |-> observed[n]]
    /\ \A n \in Nodes : \A p \in Rounds : p < at[n] => Settled(p)
    /\ \A n \in Nodes : \A r \in observed[n] :
        \E tx \in FillTransactions :
            tx.before = r.before /\ \E f \in tx.body : Receipt(f) = r.fill /\ f.job = r.job

IInv == NodesSound /\ CertifiedSound /\ LedgerSound /\ HeadsSound
----------------------------------------------------------------------------
(* What every step keeps *)

\* Nodes only go on and wallets only add keys, so an approved statement stays
\* justified.
LEMMA BodyStays ==
    ASSUME NEW b, BodySound(b),
           at \in [Nodes -> Nat], at' \in [Nodes -> Nat], \A n \in Nodes : at[n] <= at'[n],
           \A o \in Orders : keys[o] \subseteq keys'[o]
    PROVE  BodySound(b)'
<1>1. ASSUME NEW p \in Nat, Reached(p) PROVE Reached(p)'
  <2>1. PICK n \in Nodes : at[n] >= p
    BY Zenon, <1>1 DEF Reached
  <2>2. at[n] \in Nat /\ at'[n] \in Nat /\ at[n] <= at'[n]
    BY Zenon
  <2>3. at'[n] >= p
    BY <2>1, <2>2
  <2> QED  BY Zenon, <2>3 DEF Reached
<1>2. ASSUME NEW sp, sp.hold \in Orders, NEW draw, NEW job, Kept(sp, draw, job)
      PROVE  Kept(sp, draw, job)'
  BY Zenon, <1>2 DEF Kept
<1>3. CASE b.kind = "fill"
  <2>1. /\ FillSound(b) /\ Reached(b.job[1])
        /\ Kept(b.maker, b.keys.maker, b.job) /\ Kept(b.taker, b.keys.taker, b.job)
    BY Zenon, <1>3 DEF BodySound
  <2>2. b.job[1] \in Nat /\ b.maker.hold \in Orders /\ b.taker.hold \in Orders
    BY Zenon, <2>1, JobFacts DEF FillSound
  <2>3. Reached(b.job[1])'
    BY <1>1, <2>1, <2>2
  <2>4. Kept(b.maker, b.keys.maker, b.job)' /\ Kept(b.taker, b.keys.taker, b.job)'
    BY <1>2, <2>1, <2>2
  <2>5. FillSound(b)'
    BY Zenon, <2>1 DEF FillSound, verify_reserves
  <2> QED  BY Zenon, <1>3, <2>3, <2>4, <2>5 DEF BodySound
<1>4. CASE b.kind # "fill"
  <2>1. PICK c \in DOMAIN Log \ Rounds : Log[c].order = b.order /\ Reached(c)
    BY Zenon, <1>4 DEF BodySound
  <2>2. c \in Nat
    BY LogAssumption
  <2>3. Reached(c)'
    BY Zenon, <1>1, <2>1, <2>2
  <2> QED  BY Zenon, <1>4, <2>1, <2>3 DEF BodySound
<1> QED  BY Zenon, <1>3, <1>4

\* What no step takes back.
Goes ==
    /\ at' \in [Nodes -> Nat] /\ \A n \in Nodes : at[n] <= at'[n]
    /\ keys' = [o \in Orders |-> keys'[o]] /\ \A o \in Orders : keys[o] \subseteq keys'[o]
    /\ now' \in Nat /\ now <= now'

\* A cancellation that some node has reached stays reached.
LEMMA CancelledStays ==
    ASSUME NodesSound, Goes, NEW o \in Orders,
           \/ now > Deadline[o]
           \/ \E c \in DOMAIN Log \ Rounds : Log[c].order = o /\ Reached(c)
    PROVE  \/ now' > Deadline[o]
           \/ \E c \in DOMAIN Log \ Rounds : Log[c].order = o /\ Reached(c)'
<1>1. CASE now > Deadline[o]
  <2>1. now \in Nat /\ now' \in Nat /\ now <= now' /\ Deadline[o] \in Nat
    BY Zenon, CommitteeAssumption DEF NodesSound, Goes
  <2> QED  BY <1>1, <2>1
<1>2. CASE \E c \in DOMAIN Log \ Rounds : Log[c].order = o /\ Reached(c)
  <2>1. PICK c \in DOMAIN Log \ Rounds : Log[c].order = o /\ Reached(c)
    BY Zenon, <1>2
  <2>2. c \in Nat
    BY LogAssumption
  <2>3. PICK n \in Nodes : at[n] >= c
    BY Zenon, <2>1 DEF Reached
  <2>4. at[n] \in Nat /\ at'[n] \in Nat /\ at[n] <= at'[n]
    BY Zenon DEF NodesSound, Goes
  <2>5. at'[n] >= c
    BY <2>2, <2>3, <2>4
  <2> QED  BY Zenon, <2>1, <2>5 DEF Reached
<1> QED  BY Zenon, <1>1, <1>2

\* A step that leaves the ledger alone.
LEMMA LedgerStays ==
    ASSUME IInv, Goes, ledger' = ledger
    PROVE  /\ LedgerSound' /\ HeadsSound'
           /\ FillTransactions' = FillTransactions
           /\ \A p : Settled(p)' <=> Settled(p)
           /\ \A b : BodySound(b) => BodySound(b)'
<1>1. FillTransactions' = FillTransactions
  BY Zenon DEF FillTransactions
<1>2. \A p : Settled(p)' <=> Settled(p)
  BY Zenon, <1>1 DEF Settled, RoundOf
<1>3. ASSUME NEW b, BodySound(b) PROVE BodySound(b)'
  BY <1>3, BodyStays DEF IInv, NodesSound, Goes
<1>4. LedgerSound'
  <2>1. \A tx \in ledger.accepted : TxSound(tx)'
    BY Zenon, <1>3 DEF IInv, LedgerSound, TxSound, IsFills
  <2> QED  BY Zenon, <1>1, <2>1 DEF IInv, LedgerSound, RoundOf
<1>5. HeadsSound'
  <2>1. SettledFills' = SettledFills
    BY Zenon, <1>1 DEF SettledFills
  <2>2. \A o : SettledJobs(o)' = SettledJobs(o)
    BY Zenon, <1>2 DEF SettledJobs
  <2>3. \A f, t : SpendSound(f, t)' <=> SpendSound(f, t)
    BY Zenon DEF SpendSound
  <2>4. \A o \in Orders :
            ledger.head[o].status = "released" =>
                \/ now' > Deadline[o]
                \/ \E c \in DOMAIN Log \ Rounds : Log[c].order = o /\ Reached(c)'
    BY Zenon, CancelledStays DEF IInv, HeadsSound
  <2>5. Heads(ledger.head)' /\ HeadsSound
    BY Zenon DEF IInv, HeadsSound
  <2>6. \A o \in Orders :
            ledger'.head[o].remaining = Amount[o] - SumFunctionOnSet(SpentBy(o), SettledJobs(o)')
    BY Zenon, <2>2, <2>5 DEF HeadsSound
  <2>7. \A o \in Orders : ledger'.head[o].status = "consumed" =>
            \E q \in Rounds : Settled(q)' /\ Log[q].taker = o /\ Log[q].left = 0
    <3>1. \A o \in Orders : ledger.head[o].status = "consumed" =>
              \E q \in Rounds : Settled(q) /\ Log[q].taker = o /\ Log[q].left = 0
      BY Zenon, <2>5 DEF HeadsSound
    <3> HIDE DEF Settled
    <3> QED  BY Zenon, <1>2, <3>1
  <2> QED  BY Zenon, <2>1, <2>3, <2>4, <2>5, <2>6, <2>7 DEF HeadsSound
<1> QED  BY Zenon, <1>1, <1>2, <1>3, <1>4, <1>5
----------------------------------------------------------------------------
(* Steps of the wallets and the nodes *)

\* Nothing that the invariant speaks of has moved.
LEMMA GoesStill ==
    ASSUME NodesSound, at' = at, keys' = keys, now' = now
    PROVE  Goes
<1>1. at \in [Nodes -> Nat] /\ now \in Nat
  BY Zenon DEF NodesSound
<1>2. \A n \in Nodes : at[n] <= at[n]
  BY <1>1
<1>3. now <= now
  BY <1>1
<1> QED  BY Zenon, <1>1, <1>2, <1>3 DEF Goes, NodesSound

\* Statements that were not touched stay sound.
LEMMA CertifiedStays ==
    ASSUME IInv, Goes, ledger' = ledger, request' = request, certified' = certified
    PROVE  CertifiedSound'
<1>1. \A b : BodySound(b) => BodySound(b)'
  BY Zenon, LedgerStays
<1>2. PICK c : c = request.body
  BY Zenon
<1>3. request # None => BodySound(c)'
  BY Zenon, <1>1, <1>2 DEF IInv, CertifiedSound
<1>4. request' # None => BodySound(request.body)'
  BY Zenon, <1>2, <1>3 DEF BodySound, FillSound, verify_reserves, Reached, Kept
<1> QED  BY Zenon, <1>1, <1>4 DEF IInv, CertifiedSound, OnePerJob

\* Node records follow the ledger, which has not moved.
LEMMA NodesStay ==
    ASSUME IInv, Goes, ledger' = ledger, at' = at, observed' = observed
    PROVE  NodesSound'
<1>1. FillTransactions' = FillTransactions /\ \A p : Settled(p)' <=> Settled(p)
  BY Zenon, LedgerStays
<1>2. \A n \in Nodes : \A p \in Rounds : p < at'[n] => Settled(p)'
  BY Zenon, <1>1 DEF IInv, NodesSound
<1>3. \A n \in Nodes : \A r \in observed'[n] :
        \E tx \in FillTransactions' :
            tx.before = r.before /\ \E f \in tx.body : Receipt(f) = r.fill /\ f.job = r.job
  BY Zenon, <1>1 DEF IInv, NodesSound
<1>4. observed' = [n \in Nodes |-> observed'[n]]
  BY Zenon DEF IInv, NodesSound
<1> QED  BY Zenon, <1>2, <1>3, <1>4 DEF NodesSound, Goes

\* The journal keeps the first record of a sequence and loses none.
LEMMA IssueStep ==
    ASSUME IInv, NEW job \in Jobs, NEW o \in Orders, issue_claim_authorizations(job, o)
    PROVE  IInv'
<1>1. PICK K : /\ keys[o] \subseteq K /\ keys' = [keys EXCEPT ![o] = K]
               /\ UNCHANGED <<at, open, drawn, request, certified, ledger, observed, now>>
  <2>1. PICK sequence, issue :
            /\ keys' = [keys EXCEPT ![o] = put_first(o, generate(o, sequence, issue))]
            /\ UNCHANGED <<at, open, drawn, request, certified, ledger, observed, now>>
    BY Zenon DEF issue_claim_authorizations
  <2>2. keys[o] \subseteq put_first(o, generate(o, sequence, issue))
    BY DEF put_first
  <2> QED  BY Zenon, <2>1, <2>2
<1>2. keys' = [p \in Orders |-> IF p = o THEN K ELSE keys[p]]
  BY Zenon, <1>1 DEF IInv, NodesSound
<1>3. keys' = [p \in Orders |-> keys'[p]] /\ \A p \in Orders : keys[p] \subseteq keys'[p]
  BY Zenon, <1>1, <1>2
<1>4. at \in [Nodes -> Nat] /\ now \in Nat
  BY Zenon DEF IInv, NodesSound
<1>5. now <= now /\ \A n \in Nodes : at[n] <= at[n]
  BY <1>4
<1>6. Goes
  BY Zenon, <1>1, <1>3, <1>4, <1>5 DEF Goes
<1>7. at' = at /\ request' = request /\ certified' = certified /\ ledger' = ledger /\ observed' = observed
  BY Zenon, <1>1
<1> QED  BY Zenon, <1>6, <1>7, LedgerStays, CertifiedStays, NodesStay DEF IInv

\* What a node approves, it has executed and checked against its own record.
LEMMA ApproveStep ==
    ASSUME IInv, NEW body, BodySound(body), NEW n, NEW approved, Approve(n, body, approved)
    PROVE  IInv'
<1>1. /\ at' = at /\ keys' = keys /\ now' = now /\ ledger' = ledger /\ observed' = observed
      /\ \/ /\ request' = None
            /\ certified' = {b \in certified : ~SameAction(b, body)} \cup {body}
         \/ request' = [body |-> body, approved |-> approved \cup {n}] /\ certified' = certified
  BY Zenon DEF Approve
<1>2. Goes
  BY Zenon, <1>1, GoesStill DEF IInv
<1>3. \A b : BodySound(b) => BodySound(b)'
  BY Zenon, <1>1, <1>2, LedgerStays
<1>4. CertifiedSound'
  <2>1. (\A b \in certified : BodySound(b)') /\ OnePerJob(certified) /\ BodySound(body)'
    BY Zenon, <1>3 DEF IInv, CertifiedSound
  <2>2. CASE /\ request' = None
             /\ certified' = {b \in certified : ~SameAction(b, body)} \cup {body}
    <3>1. \A b \in certified' : BodySound(b)'
      BY Zenon, <2>1, <2>2
    <3>2. OnePerJob(certified')
      BY Zenon, <2>1, <2>2 DEF OnePerJob, SameAction
    <3> QED  BY Zenon, <2>2, <3>1, <3>2 DEF CertifiedSound, OnePerJob
  <2>3. CASE request' = [body |-> body, approved |-> approved \cup {n}] /\ certified' = certified
    <3>1. request'.body = body
      BY <2>3
    <3>2. BodySound(request.body)'
      BY Zenon, <2>1, <3>1 DEF BodySound, FillSound, verify_reserves, Reached, Kept
    <3> QED  BY Zenon, <2>1, <2>3, <3>2 DEF CertifiedSound, OnePerJob
  <2> QED  BY Zenon, <1>1, <2>2, <2>3
<1> QED  BY Zenon, <1>1, <1>2, <1>4, LedgerStays, NodesStay DEF IInv
\* A node that executed an item has reached it.
LEMMA ExecutedReached ==
    ASSUME NodesSound, NEW n \in Nodes, NEW p \in Nat, Executed(n, p)
    PROVE  Reached(p)
<1>1. at[n] \in Nat /\ (p < at[n] \/ p = at[n])
  BY Zenon DEF NodesSound, Executed
<1>2. at[n] >= p
  BY <1>1
<1> QED  BY Zenon, <1>2 DEF Reached

\* Whatever orders, closures and slots the coordinator names, a node approves
\* only the fill that it executed, with keys that both wallets keep.
LEMMA ProposeFillStep ==
    ASSUME IInv, NEW job \in Jobs, NEW n \in Signers, ProposeFill(job, n)
    PROVE  IInv'
<1>1. PICK mh, th, issue, km, kt, slots, closeMaker, closeTaker :
        /\ issue \in native_claim_authorization_issue(job, mh, th)
        /\ km \in Authorizations(mh, issue) /\ kt \in Authorizations(th, issue)
        /\ Approve(n, prepare_native_fill(job, slots, mh, th, issue, km, kt,
                                          closeMaker, closeTaker), {})
  <2>1. PICK prior \in Prior(job) :
          \E mh, th \in UNION {Projected(o, prior) : o \in {q \in Orders : keys[q] # {}}} :
          \E issue \in native_claim_authorization_issue(job, mh, th) :
          \E km \in Authorizations(mh, issue), kt \in Authorizations(th, issue) :
          \E slots \in SUBSET Slots(job[1]), closeMaker, closeTaker \in BOOLEAN :
            /\ job[2] \in slots
            /\ Approve(n, prepare_native_fill(job, slots, mh, th, issue, km, kt,
                                              closeMaker, closeTaker), {})
    BY Zenon DEF ProposeFill
  <2>2. PICK mh, th \in UNION {Projected(o, prior) : o \in {q \in Orders : keys[q] # {}}} :
          \E issue \in native_claim_authorization_issue(job, mh, th) :
          \E km \in Authorizations(mh, issue), kt \in Authorizations(th, issue) :
          \E slots \in SUBSET Slots(job[1]), closeMaker, closeTaker \in BOOLEAN :
            /\ job[2] \in slots
            /\ Approve(n, prepare_native_fill(job, slots, mh, th, issue, km, kt,
                                              closeMaker, closeTaker), {})
    BY Zenon, <2>1
  <2> QED  BY Zenon, <2>2
<1>2. PICK body : body = prepare_native_fill(job, slots, mh, th, issue, km, kt,
                                             closeMaker, closeTaker)
  BY Zenon
<1>3. /\ body.kind = "fill" /\ body.job = job
      /\ body.maker.hold = mh.hold /\ body.maker.sequence = mh.sequence
      /\ body.taker.hold = th.hold /\ body.taker.sequence = th.sequence
      /\ body.keys.maker = km.draw /\ body.keys.taker = kt.draw
  BY <1>2 DEF prepare_native_fill, SpendOf
<1>4. authorize_native_fill(n, body)
  BY Zenon, <1>1, <1>2, <1>3 DEF Approve, Authorizes
<1>5. FillSound(body)
  BY Zenon, <1>3, <1>4 DEF FillSound, authorize_native_fill, verify, verify_group,
                           native_batch_binding, verify_authority
<1>6. Reached(body.job[1])
  <2>1. job[1] \in Nat /\ n \in Nodes
    BY Zenon, JobFacts, CommitteeAssumption
  <2> QED  BY Zenon, <1>3, <1>4, <2>1, ExecutedReached DEF authorize_native_fill, IInv
<1>7. issue.nullifier = job
  BY <1>1 DEF native_claim_authorization_issue, issue_from_sequences
<1>8. Kept(body.maker, body.keys.maker, body.job) /\ Kept(body.taker, body.keys.taker, body.job)
  BY Zenon, <1>1, <1>3, <1>7 DEF Kept, Authorizations, saved_claim_authorizations
<1>9. BodySound(body)
  BY Zenon, <1>3, <1>5, <1>6, <1>8 DEF BodySound
<1> QED  BY Zenon, <1>1, <1>2, <1>9, ApproveStep

\* A node signs the release of an order whose cancellation it has applied.
LEMMA ProposeReleaseStep ==
    ASSUME IInv, NEW o \in Orders, NEW n \in Signers, ProposeRelease(o, n)
    PROVE  IInv'
<1>1. PICK body : /\ body = [kind |-> "release", order |-> o, parent |-> ledger.root,
                             sequence |-> ledger.head[o].sequence,
                             receipt |-> ledger.head[o].receipt]
                  /\ Approve(n, body, {})
  BY Zenon DEF ProposeRelease
<1>2. body.kind = "release" /\ body.kind # "fill" /\ body.order = o
  BY <1>1
<1>3. LifecycleEntry(n, body)
  BY Zenon, <1>1, <1>2 DEF Approve, Authorizes, authorize_release
<1>4. at[n] \in DOMAIN Log \ Rounds /\ Log[at[n]].order = body.order
  BY Zenon, <1>3 DEF LifecycleEntry
<1>5. PICK c : c = at[n]
  BY Zenon
<1>6. n \in Nodes /\ c \in Nat
  BY Zenon, <1>5, CommitteeAssumption DEF IInv, NodesSound
<1>7. at[n] >= c
  BY <1>5, <1>6
<1>8. Reached(c)
  BY Zenon, <1>6, <1>7 DEF Reached
<1>9. BodySound(body)
  BY Zenon, <1>2, <1>4, <1>5, <1>8 DEF BodySound
<1> QED  BY Zenon, <1>1, <1>9, ApproveStep

\* The next signer approves the same bytes.
LEMMA CertifyStep ==
    ASSUME IInv, NEW n \in Signers, certify_native_fill(n)
    PROVE  IInv'
<1>1. PICK body, approved : /\ body = request.body /\ request # None
                            /\ Approve(n, body, approved)
  BY Zenon DEF certify_native_fill
<1>2. BodySound(body)
  BY Zenon, <1>1 DEF IInv, CertifiedSound
<1> QED  BY Zenon, <1>1, <1>2, ApproveStep

\* Proofs are drawn again, items opened, and time passes.
LEMMA IdleStep ==
    ASSUME IInv, \/ \E job \in Jobs : prove_fill(job)
                 \/ \E n \in Nodes : OpenItem(n)
                 \/ Tick
                 \/ UNCHANGED vars
    PROVE  IInv'
<1>1. /\ at' = at /\ keys' = keys /\ request' = request /\ certified' = certified
      /\ ledger' = ledger /\ observed' = observed /\ now' \in {now, now + 1}
  BY DEF prove_fill, OpenItem, Tick, vars
<1>2. at \in [Nodes -> Nat] /\ now \in Nat /\ keys = [o \in Orders |-> keys[o]]
  BY Zenon DEF IInv, NodesSound
<1>3. now' \in Nat /\ now <= now' /\ \A n \in Nodes : at[n] <= at[n]
  BY <1>1, <1>2
<1>4. Goes
  BY Zenon, <1>1, <1>2, <1>3 DEF Goes
<1> QED  BY Zenon, <1>1, <1>4, LedgerStays, CertifiedStays, NodesStay DEF IInv

\* The accepted transactions of fills are those that hold a fill.
LEMMA FillOfTransaction ==
    ASSUME LedgerSound, NEW tx \in ledger.accepted, NEW f \in tx.body, f.kind = "fill"
    PROVE  tx \in FillTransactions /\ f \in SettledFills
<1>1. TxSound(tx)
  BY Zenon DEF LedgerSound
<1>2. IsFills(tx)
  BY Zenon, <1>1 DEF TxSound
<1> QED  BY Zenon, <1>2 DEF IsFills, FillTransactions, SettledFills

\* A node records the fill that an accepted transaction holds.
LEMMA ObserveStep ==
    ASSUME IInv, NEW n \in Nodes, NEW f, observe(n, f)
    PROVE  IInv'
<1>1. /\ at' = at /\ keys' = keys /\ request' = request /\ certified' = certified
      /\ ledger' = ledger /\ now' = now
      /\ observed' = [observed EXCEPT ![n] = @ \cup {Observation(f)}]
      /\ f.kind = "fill" /\ validate_accepted(f.parent, f)
  BY Zenon DEF observe
<1>2. Goes
  BY Zenon, <1>1, GoesStill DEF IInv
<1>3. PICK tx \in ledger.accepted : tx.before = f.parent /\ f \in tx.body
  BY Zenon, <1>1 DEF validate_accepted
<1>4. tx \in FillTransactions
  BY Zenon, <1>1, <1>3, FillOfTransaction DEF IInv
<1>5. PICK r : r = Observation(f)
  BY Zenon
<1>6. tx.before = r.before /\ Receipt(f) = r.fill /\ f.job = r.job
  BY <1>3, <1>5 DEF Observation
<1>7. observed' = [m \in Nodes |-> IF m = n THEN observed[n] \cup {r} ELSE observed[m]]
  BY Zenon, <1>1, <1>5 DEF IInv, NodesSound
<1>8. /\ observed' = [m \in Nodes |-> observed'[m]]
      /\ \A m \in Nodes : observed'[m] \subseteq observed[m] \cup {r}
  BY Zenon, <1>7
<1>9. FillTransactions' = FillTransactions /\ \A p : Settled(p)' <=> Settled(p)
  BY Zenon, <1>1, <1>2, LedgerStays
<1>10. NodesSound'
  <2>1. \A m \in Nodes : \A p \in Rounds : p < at'[m] => Settled(p)'
    BY Zenon, <1>1, <1>9 DEF IInv, NodesSound
  <2>2. \A m \in Nodes : \A e \in observed[m] :
          \E ty \in FillTransactions :
            ty.before = e.before /\ \E g \in ty.body : Receipt(g) = e.fill /\ g.job = e.job
    BY Zenon DEF IInv, NodesSound
  <2>3. \A m \in Nodes : \A e \in observed'[m] :
          \E ty \in FillTransactions' :
            ty.before = e.before /\ \E g \in ty.body : Receipt(g) = e.fill /\ g.job = e.job
    <3>1. ASSUME NEW m \in Nodes, NEW e \in observed'[m]
          PROVE  \E ty \in FillTransactions :
                    ty.before = e.before /\ \E g \in ty.body : Receipt(g) = e.fill /\ g.job = e.job
      <4>1. CASE e = r
        BY Zenon, <1>3, <1>4, <1>6, <4>1
      <4>2. CASE e \in observed[m]
        BY Zenon, <2>2, <4>2
      <4> QED  BY Zenon, <1>8, <3>1, <4>1, <4>2
    <3> QED  BY Zenon, <1>9, <3>1
  <2> QED  BY Zenon, <1>2, <1>8, <2>1, <2>3 DEF NodesSound, Goes
<1> QED  BY Zenon, <1>1, <1>2, <1>10, LedgerStays, CertifiedStays DEF IInv
\* The round of a transaction of fills.
LEMMA RoundFacts ==
    ASSUME LedgerSound, NEW tx \in FillTransactions
    PROVE  /\ RoundOf(tx) \in Rounds /\ {f.job : f \in tx.body} = JobsOfRound(RoundOf(tx))
           /\ \A f \in tx.body : f.job[1] = RoundOf(tx) /\ f.kind = "fill" /\ BodySound(f)
<1>1. tx \in ledger.accepted /\ IsFills(tx)
  BY Zenon DEF FillTransactions, IsFills
<1>2. TxSound(tx)
  BY Zenon, <1>1 DEF LedgerSound
<1>3. PICK p \in Rounds : {f.job : f \in tx.body} = JobsOfRound(p)
  BY Zenon, <1>1, <1>2 DEF TxSound
<1>4. \A j \in JobsOfRound(p) : j[1] = p
  BY DEF JobsOfRound, collaborative_job_id
<1>5. \A f \in tx.body : f.job[1] = p
  BY Zenon, <1>3, <1>4
<1>6. (CHOOSE f \in tx.body : TRUE) \in tx.body
  BY Zenon, <1>2 DEF TxSound
<1>7. RoundOf(tx) = p
  BY Zenon, <1>5, <1>6 DEF RoundOf
<1> QED  BY Zenon, <1>1, <1>2, <1>3, <1>5, <1>7 DEF IsFills, TxSound

\* A node goes on to the next item.
LEMMA AdvanceStep ==
    ASSUME IInv, NEW n \in Nodes, Advance(n), at[n] \in Rounds => Settled(at[n])
    PROVE  IInv'
<1>1. /\ at' = [at EXCEPT ![n] = @ + 1] /\ keys' = keys /\ request' = request
      /\ certified' = certified /\ ledger' = ledger /\ observed' = observed /\ now' = now
  BY Zenon DEF Advance
<1>2. at \in [Nodes -> Nat] /\ now \in Nat /\ keys = [o \in Orders |-> keys[o]]
  BY Zenon DEF IInv, NodesSound
<1>3. /\ at' \in [Nodes -> Nat] /\ \A m \in Nodes : at[m] <= at'[m]
      /\ at'[n] = at[n] + 1 /\ \A m \in Nodes \ {n} : at'[m] = at[m]
      /\ now <= now
  BY <1>1, <1>2
<1>4. Goes
  BY Zenon, <1>1, <1>2, <1>3 DEF Goes
<1>5. FillTransactions' = FillTransactions /\ \A p : Settled(p)' <=> Settled(p)
  BY Zenon, <1>1, <1>4, LedgerStays
<1>6. \A m \in Nodes : \A p \in Rounds : p < at'[m] => Settled(p)
  <2>1. ASSUME NEW m \in Nodes, NEW p \in Rounds, p < at'[m] PROVE Settled(p)
    <3>1. p \in Nat
      BY LogAssumption DEF Rounds
    <3>2. p < at[m] \/ (m = n /\ p = at[n])
      BY <1>2, <1>3, <2>1, <3>1
    <3> QED  BY Zenon, <3>2 DEF IInv, NodesSound
  <2> QED  BY Zenon, <2>1
<1>7. NodesSound'
  <2>1. \A m \in Nodes : \A r \in observed'[m] :
        \E tx \in FillTransactions' :
            tx.before = r.before /\ \E f \in tx.body : Receipt(f) = r.fill /\ f.job = r.job
    BY Zenon, <1>1, <1>5 DEF IInv, NodesSound
  <2>2. \A m \in Nodes : \A p \in Rounds : p < at'[m] => Settled(p)'
    BY Zenon, <1>5, <1>6
  <2>3. observed' = [m \in Nodes |-> observed'[m]]
    BY Zenon, <1>1 DEF IInv, NodesSound
  <2> QED  BY Zenon, <1>4, <2>1, <2>2, <2>3 DEF NodesSound, Goes
<1> QED  BY Zenon, <1>1, <1>4, <1>7, LedgerStays, CertifiedStays DEF IInv

\* A round is final when all of its slots were read, so it is settled.
LEMMA FinalizeStep ==
    ASSUME IInv, NEW n \in Nodes, FinalizeRound(n)
    PROVE  IInv'
<1>1. PICK p \in Rounds : p = at[n] /\ require_complete(n, p)
  BY Zenon DEF FinalizeRound
<1>2. PICK s \in Slots(p) : TRUE
  BY Zenon, LogAssumption
<1>3. PICK r \in observed[n] : r.job[1] = p
  BY Zenon, <1>1, <1>2 DEF require_complete, Recorded
<1>4. PICK tx \in FillTransactions : \E f \in tx.body : f.job = r.job
  BY Zenon DEF IInv, NodesSound
<1>5. RoundOf(tx) = p
  BY Zenon, <1>3, <1>4, RoundFacts DEF IInv
<1>6. Settled(at[n])
  BY Zenon, <1>1, <1>4, <1>5 DEF Settled
<1> QED  BY Zenon, <1>6, AdvanceStep DEF FinalizeRound

\* A cancellation that was released is final too.
LEMMA ConfirmStep ==
    ASSUME IInv, NEW n \in Nodes, NEW r, confirm_release(n, r)
    PROVE  IInv'
<1>1. Advance(n) /\ at[n] \notin Rounds
  BY Zenon DEF confirm_release, LifecycleEntry
<1> QED  BY Zenon, <1>1, AdvanceStep
----------------------------------------------------------------------------
(* Steps of the ledger *)

\* A step that moves the ledger: what was signed for the root before is gone,
\* and no settled round is forgotten.
LEMMA MovedStep ==
    ASSUME IInv, Outdated, FillTransactions \subseteq FillTransactions'
    PROVE  /\ Goes /\ NodesSound' /\ CertifiedSound'
           /\ \A b : BodySound(b) => BodySound(b)'
           /\ \A p : Settled(p) => Settled(p)'
<1>1. /\ at' = at /\ keys' = keys /\ observed' = observed /\ now' = now
      /\ request' = None /\ certified' = {}
  BY Zenon DEF Outdated
<1>2. Goes
  BY Zenon, <1>1, GoesStill DEF IInv
<1>3. CertifiedSound'
  BY Zenon, <1>1 DEF CertifiedSound, OnePerJob
<1>4. \A p : Settled(p) => Settled(p)'
  BY Zenon DEF Settled, RoundOf
<1>5. \A b : BodySound(b) => BodySound(b)'
  BY <1>2, BodyStays DEF IInv, NodesSound, Goes
<1>6. NodesSound'
  <2>1. \A m \in Nodes : \A r \in observed'[m] :
        \E tx \in FillTransactions' :
            tx.before = r.before /\ \E f \in tx.body : Receipt(f) = r.fill /\ f.job = r.job
    BY Zenon, <1>1 DEF IInv, NodesSound
  <2>2. \A m \in Nodes : \A p \in Rounds : p < at'[m] => Settled(p)'
    BY Zenon, <1>1, <1>4 DEF IInv, NodesSound
  <2>3. observed' = [m \in Nodes |-> observed'[m]]
    BY Zenon, <1>1 DEF IInv, NodesSound
  <2> QED  BY Zenon, <1>2, <2>1, <2>2, <2>3 DEF NodesSound, Goes
<1> QED  BY Zenon, <1>2, <1>3, <1>4, <1>5, <1>6

\* A step of the ledger that settles no round and takes from no reservation.
LEMMA NoFillStep ==
    ASSUME IInv, Outdated,
           ledger' = [root |-> ledger'.root, head |-> ledger'.head, accepted |-> ledger'.accepted],
           ledger.accepted \subseteq ledger'.accepted,
           \A tx \in ledger'.accepted \ ledger.accepted :
                TxSound(tx) /\ \E b \in tx.body : b.kind # "fill",
           Heads(ledger'.head),
           \A o \in Orders :
                /\ ledger'.head[o].remaining = ledger.head[o].remaining
                /\ ledger.head[o].sequence <= ledger'.head[o].sequence
                /\ \/ ledger'.head[o].status = ledger.head[o].status
                   \/ /\ ledger'.head[o].status = "released"
                      /\ \/ now > Deadline[o]
                         \/ \E c \in DOMAIN Log \ Rounds : Log[c].order = o /\ Reached(c)
    PROVE  IInv'
<1>1. FillTransactions' = FillTransactions
  <2>1. \A tx \in ledger'.accepted : (\A b \in tx.body : b.kind = "fill") => tx \in ledger.accepted
    BY Zenon
  <2> QED  BY Zenon, <2>1 DEF FillTransactions
<1>2. /\ Goes /\ NodesSound' /\ CertifiedSound'
      /\ \A b : BodySound(b) => BodySound(b)'
  <2>1. FillTransactions \subseteq FillTransactions'
    BY Zenon, <1>1
  <2> QED  BY Zenon, <2>1, MovedStep
<1>3. \A p : Settled(p)' <=> Settled(p)
  BY Zenon, <1>1 DEF Settled, RoundOf
<1>4. LedgerSound'
  <2>1. \A tx : TxSound(tx) => TxSound(tx)'
    BY Zenon, <1>2 DEF TxSound, IsFills
  <2>2. \A tx \in ledger'.accepted : TxSound(tx)'
    BY Zenon, <2>1 DEF IInv, LedgerSound
  <2> QED  BY Zenon, <1>1, <2>2 DEF IInv, LedgerSound, RoundOf
<1>5. HeadsSound'
  <2>1. SettledFills' = SettledFills /\ \A o : SettledJobs(o)' = SettledJobs(o)
    BY Zenon, <1>1, <1>3 DEF SettledFills, SettledJobs
  <2>2. \A f \in SettledFills : \A s \in Spends(f) : SpendSound(f, s)'
    <3>1. ASSUME NEW f \in SettledFills, NEW s \in Spends(f) PROVE SpendSound(f, s)'
      <4>1. SpendSound(f, s)
        BY Zenon, <3>1 DEF IInv, HeadsSound
      <4>2. s.hold \in Orders
        <5>1. PICK tx \in FillTransactions : f \in tx.body
          BY <3>1 DEF SettledFills
        <5>2. FillSound(f)
          BY Zenon, <5>1, RoundFacts DEF IInv, BodySound
        <5> QED  BY Zenon, <3>1, <5>2, SpendsOf
      <4>3. /\ ledger'.head[s.hold].remaining = ledger.head[s.hold].remaining
            /\ ledger.head[s.hold].sequence <= ledger'.head[s.hold].sequence
            /\ ledger.head[s.hold].sequence \in Nat /\ ledger'.head[s.hold].sequence \in Nat
        BY Zenon, <4>2 DEF IInv, HeadsSound, Heads, HeadSound
      <4>4. s.sequence \in Nat /\ s.sequence < ledger.head[s.hold].sequence
        BY Zenon, <4>1 DEF SpendSound
      <4>5. s.sequence < ledger'.head[s.hold].sequence
        BY <4>3, <4>4
      <4> QED  BY Zenon, <4>1, <4>3, <4>4, <4>5 DEF SpendSound
    <3> QED  BY Zenon, <3>1
  <2>3. \A o \in Orders :
            ledger'.head[o].remaining = Amount[o] - SumFunctionOnSet(SpentBy(o), SettledJobs(o)')
    BY Zenon, <2>1 DEF IInv, HeadsSound
  <2>4. \A o \in Orders : ledger'.head[o].status = "consumed" =>
            \E q \in Rounds : Settled(q)' /\ Log[q].taker = o /\ Log[q].left = 0
    <3>1. ASSUME NEW o \in Orders, ledger'.head[o].status = "consumed"
          PROVE  ledger.head[o].status = "consumed"
      <4>1. "consumed" # "released"
        OBVIOUS
      <4> QED  BY Zenon, <3>1, <4>1
    <3>2. \A o \in Orders : ledger.head[o].status = "consumed" =>
              \E q \in Rounds : Settled(q) /\ Log[q].taker = o /\ Log[q].left = 0
      BY Zenon DEF IInv, HeadsSound
    <3>3. ASSUME NEW o \in Orders, ledger'.head[o].status = "consumed"
          PROVE  \E q \in Rounds : Settled(q)' /\ Log[q].taker = o /\ Log[q].left = 0
      <4>1. PICK q \in Rounds : Settled(q) /\ Log[q].taker = o /\ Log[q].left = 0
        BY Zenon, <3>1, <3>2, <3>3
      <4> QED  BY Zenon, <1>3, <4>1
    <3> QED  BY Zenon, <3>3
  <2>5. \A o \in Orders : ledger'.head[o].status = "released" =>
            \/ now' > Deadline[o]
            \/ \E c \in DOMAIN Log \ Rounds : Log[c].order = o /\ Reached(c)'
    <3>1. \A o \in Orders : ledger'.head[o].status = "released" =>
            \/ now > Deadline[o]
            \/ \E c \in DOMAIN Log \ Rounds : Log[c].order = o /\ Reached(c)
      BY Zenon DEF IInv, HeadsSound
    <3> QED  BY Zenon, <1>2, <3>1, CancelledStays DEF IInv
  <2>6. \A f, g \in SettledFills : \A s \in Spends(f), t \in Spends(g) :
            s.hold = t.hold /\ s.sequence = t.sequence => f = g
    BY Zenon DEF IInv, HeadsSound
  <2> QED  BY Zenon, <2>1, <2>2, <2>3, <2>4, <2>5, <2>6 DEF HeadsSound
<1> QED  BY Zenon, <1>2, <1>4, <1>5 DEF IInv
\* One head, released.
LEMMA ReturnedHead ==
    ASSUME NEW y, NEW o, HeadSound(y, o), NEW receipt, NEW z, z = Returned(y, receipt)
    PROVE  z = [hold |-> o, status |-> "released", sequence |-> y.sequence + 1,
                remaining |-> y.remaining, receipt |-> receipt]
<1>1. PICK a, b, c, d : /\ y = [hold |-> o, status |-> a, sequence |-> b, remaining |-> c, receipt |-> d]
                        /\ b = y.sequence /\ c = y.remaining
  BY Zenon DEF HeadSound
<1>2. z = [hold |-> o, status |-> "released", sequence |-> b + 1, remaining |-> c, receipt |-> receipt]
  BY <1>1 DEF Returned
<1> QED  BY Zenon, <1>1, <1>2

\* The head of a reservation that was given back.
LEMMA ReleasedHeads ==
    ASSUME Heads(ledger.head), NEW o \in Orders, NEW receipt, NEW h, h = Released(o, receipt)
    PROVE  /\ Heads(h)
           /\ h[o].status = "released"
           /\ \A p \in Orders : /\ h[p].remaining = ledger.head[p].remaining
                                /\ ledger.head[p].sequence <= h[p].sequence
                                /\ p # o => h[p].status = ledger.head[p].status
<1>1. PICK e : e = ledger.head
  BY Zenon
<1>2. e = [p \in Orders |-> e[p]] /\ \A p \in Orders : HeadSound(e[p], p)
  BY Zenon, <1>1 DEF Heads
<1>3. PICK x : x = [hold |-> o, status |-> "released", sequence |-> e[o].sequence + 1,
                    remaining |-> e[o].remaining, receipt |-> receipt]
  BY Zenon
<1>4. e[o] = [hold |-> o, status |-> e[o].status, sequence |-> e[o].sequence,
              remaining |-> e[o].remaining, receipt |-> e[o].receipt]
  BY Zenon, <1>2 DEF HeadSound
<1>5. PICK y : y = e[o]
  BY Zenon
<1>6. h = [e EXCEPT ![o] = Returned(e[o], receipt)]
  BY Zenon, <1>1 DEF Released
<1>7. h = [p \in Orders |-> IF p = o THEN x ELSE e[p]]
  <2>1. HeadSound(y, o)
    BY Zenon, <1>2, <1>5
  <2>2. PICK z : z = Returned(y, receipt)
    BY Zenon
  <2>3. z = x
    <3>1. z = [hold |-> o, status |-> "released", sequence |-> y.sequence + 1,
               remaining |-> y.remaining, receipt |-> receipt]
      BY <2>1, <2>2, ReturnedHead
    <3> QED  BY Zenon, <1>3, <1>5, <3>1
  <2>4. h = [p \in Orders |-> IF p = o THEN z ELSE e[p]]
    BY <1>2, <1>5, <1>6, <2>2
  <2> QED  BY Zenon, <2>3, <2>4
<1>8. h[o] = x /\ \A p \in Orders \ {o} : h[p] = e[p]
  BY Zenon, <1>7
<1>9. \A p \in Orders : e[p].sequence \in Nat /\ e[p].remaining \in Int
  BY Zenon, <1>2 DEF HeadSound
<1>10. /\ x.hold = o /\ x.status = "released" /\ x.sequence = e[o].sequence + 1
       /\ x.remaining = e[o].remaining /\ x.receipt = receipt
  BY <1>3
<1>11. HeadSound(x, o) /\ e[o].sequence <= x.sequence
  <2>1. x.sequence \in Nat /\ x.remaining \in Int /\ e[o].sequence <= x.sequence
    BY <1>9, <1>10
  <2>2. x = [hold |-> o, status |-> x.status, sequence |-> x.sequence,
             remaining |-> x.remaining, receipt |-> x.receipt]
    BY Zenon, <1>3, <1>10
  <2> QED  BY Zenon, <1>10, <2>1, <2>2 DEF HeadSound
<1>12. Heads(h)
  <2>1. h = [p \in Orders |-> h[p]]
    BY Zenon, <1>7
  <2>2. \A p \in Orders : HeadSound(h[p], p)
    BY Zenon, <1>2, <1>8, <1>11
  <2> QED  BY Zenon, <2>1, <2>2 DEF Heads
<1>13. \A p \in Orders : e[p].sequence <= e[p].sequence
  BY <1>9
<1> QED  BY Zenon, <1>1, <1>8, <1>10, <1>11, <1>12, <1>13

\* A release is accepted only for a cancelled order.
LEMMA SettleReleaseStep ==
    ASSUME IInv, NEW r \in certified, SettleRelease(r)
    PROVE  IInv'
<1>1. r.kind = "release" /\ r.kind # "fill"
  BY DEF SettleRelease
<1>2. BodySound(r)
  BY Zenon DEF IInv, CertifiedSound
<1>3. PICK c \in DOMAIN Log \ Rounds : Log[c].order = r.order /\ Reached(c)
  BY Zenon, <1>1, <1>2 DEF BodySound
<1>4. r.order \in Orders
  BY Zenon, <1>3, LogAssumption
<1>5. PICK h, tx, root :
        /\ h = Released(r.order, <<r.order, r.parent>>)
        /\ tx = [before |-> ledger.root, body |-> {r}]
        /\ ledger' = [root |-> root, head |-> h, accepted |-> ledger.accepted \cup {tx}]
  BY Zenon DEF SettleRelease
<1>6. ledger'.root = root /\ ledger'.head = h /\ ledger'.accepted = ledger.accepted \cup {tx} /\ tx.body = {r}
  BY <1>5
<1>7. TxSound(tx)
  <2>1. ~IsFills(tx)
    BY Zenon, <1>1, <1>6 DEF IsFills
  <2> QED  BY Zenon, <1>1, <1>2, <1>6, <2>1 DEF TxSound
<1>8. /\ Heads(h)
      /\ h[r.order].status = "released"
      /\ \A p \in Orders : /\ h[p].remaining = ledger.head[p].remaining
                           /\ ledger.head[p].sequence <= h[p].sequence
                           /\ p # r.order => h[p].status = ledger.head[p].status
  <2>1. Heads(ledger.head)
    BY Zenon DEF IInv, HeadsSound
  <2> QED  BY <1>4, <1>5, <2>1, ReleasedHeads
<1>9. /\ ledger' = [root |-> ledger'.root, head |-> ledger'.head, accepted |-> ledger'.accepted]
      /\ ledger.accepted \subseteq ledger'.accepted
      /\ \A ty \in ledger'.accepted \ ledger.accepted :
            TxSound(ty) /\ \E b \in ty.body : b.kind # "fill"
      /\ Outdated
  BY Zenon, <1>1, <1>5, <1>6, <1>7 DEF SettleRelease
<1>10. /\ Heads(ledger'.head)
       /\ \A o \in Orders :
            /\ ledger'.head[o].remaining = ledger.head[o].remaining
            /\ ledger.head[o].sequence <= ledger'.head[o].sequence
            /\ \/ ledger'.head[o].status = ledger.head[o].status
               \/ /\ ledger'.head[o].status = "released"
                  /\ \/ now > Deadline[o]
                     \/ \E d \in DOMAIN Log \ Rounds : Log[d].order = o /\ Reached(d)
  BY Zenon, <1>3, <1>6, <1>8
<1> QED  BY <1>9, <1>10, NoFillStep

\* A reservation expires after its deadline.
LEMMA ExpireStep ==
    ASSUME IInv, NEW o \in Orders, ExpireHold(o)
    PROVE  IInv'
<1>1. PICK h : h = Released(o, <<"expired", o>>)
  BY Zenon
<1>2. ledger = [root |-> ledger.root, head |-> ledger.head, accepted |-> ledger.accepted]
  BY Zenon DEF IInv, LedgerSound
<1>3. ledger' = [root |-> ledger.root + 1, head |-> h, accepted |-> ledger.accepted]
  BY <1>1, <1>2 DEF ExpireHold
<1>4. ledger'.root = ledger.root + 1 /\ ledger'.head = h /\ ledger'.accepted = ledger.accepted
  BY <1>3
<1>5. /\ Heads(h)
      /\ h[o].status = "released"
      /\ \A p \in Orders : /\ h[p].remaining = ledger.head[p].remaining
                           /\ ledger.head[p].sequence <= h[p].sequence
                           /\ p # o => h[p].status = ledger.head[p].status
  <2>1. Heads(ledger.head)
    BY Zenon DEF IInv, HeadsSound
  <2> QED  BY <1>1, <2>1, ReleasedHeads
<1>6. /\ ledger' = [root |-> ledger'.root, head |-> ledger'.head, accepted |-> ledger'.accepted]
      /\ ledger.accepted \subseteq ledger'.accepted
      /\ \A ty \in ledger'.accepted \ ledger.accepted :
            TxSound(ty) /\ \E b \in ty.body : b.kind # "fill"
      /\ Outdated /\ now > Deadline[o]
  BY Zenon, <1>3, <1>4 DEF ExpireHold
<1>7. /\ Heads(ledger'.head)
      /\ \A p \in Orders :
            /\ ledger'.head[p].remaining = ledger.head[p].remaining
            /\ ledger.head[p].sequence <= ledger'.head[p].sequence
            /\ \/ ledger'.head[p].status = ledger.head[p].status
               \/ /\ ledger'.head[p].status = "released"
                  /\ \/ now > Deadline[p]
                     \/ \E d \in DOMAIN Log \ Rounds : Log[d].order = p /\ Reached(d)
  BY Zenon, <1>4, <1>5, <1>6
<1> QED  BY <1>6, <1>7, NoFillStep

\* Other applications move the root and nothing else.
LEMMA OtherStep ==
    ASSUME IInv, OtherTransaction
    PROVE  IInv'
<1>1. ledger = [root |-> ledger.root, head |-> ledger.head, accepted |-> ledger.accepted]
  BY Zenon DEF IInv, LedgerSound
<1>2. ledger' = [root |-> ledger.root + 1, head |-> ledger.head, accepted |-> ledger.accepted]
  BY <1>1 DEF OtherTransaction
<1>3. /\ ledger'.root = ledger.root + 1 /\ ledger'.head = ledger.head
      /\ ledger'.accepted = ledger.accepted
  BY <1>2
<1>4. /\ ledger' = [root |-> ledger'.root, head |-> ledger'.head, accepted |-> ledger'.accepted]
      /\ ledger.accepted \subseteq ledger'.accepted
      /\ \A ty \in ledger'.accepted \ ledger.accepted :
            TxSound(ty) /\ \E b \in ty.body : b.kind # "fill"
      /\ Outdated /\ Heads(ledger.head)
  BY Zenon, <1>2, <1>3 DEF OtherTransaction, IInv, HeadsSound
<1>5. \A p \in Orders : ledger.head[p].sequence \in Nat
  BY Zenon, <1>4 DEF Heads, HeadSound
<1>6. \A p \in Orders : ledger.head[p].sequence <= ledger.head[p].sequence
  BY <1>5
<1> QED  BY <1>3, <1>4, <1>6, NoFillStep
\* The group that the ledger takes is one round, whole, with one statement of
\* each job, and none of its jobs was settled before: each fill names the
\* reserve that matching left it, and a settled fill has taken from that.
LEMMA GroupFacts ==
    ASSUME IInv, NEW fills, fills \subseteq certified, fills # {}, SettleFills(fills)
    PROVE  \E p, heads :
            /\ p \in Rounds
            /\ {f.job : f \in fills} = JobsOfRound(p) /\ ~Settled(p)
            /\ \A f \in fills : /\ f.kind = "fill" /\ BodySound(f) /\ FillSound(f)
                                /\ f.job[1] = p
            /\ Through(heads, ledger.head, fills)
            /\ ledger' = [root |-> ledger.root + 1, head |-> heads,
                          accepted |-> ledger.accepted \cup {[before |-> ledger.root, body |-> fills]}]
<1>1. /\ \A f \in fills : f.kind = "fill" /\ BodySound(f) /\ FillSound(f)
      /\ \A f, g \in fills : f.job = g.job => f = g
  <2>1. \A f \in fills : f.kind = "fill" /\ BodySound(f)
    BY Zenon DEF SettleFills, IInv, CertifiedSound
  <2>2. \A f, g \in fills : f.job = g.job => f = g
    BY Zenon, <2>1 DEF IInv, CertifiedSound, OnePerJob
  <2> QED  BY Zenon, <2>1, <2>2 DEF BodySound
<1>2. PICK e \in fills : TRUE
  BY Zenon
<1>3. PICK p \in Rounds : p = e.job[1]
  BY Zenon, <1>1, JobFacts DEF FillSound
<1>4. \A f \in fills : f.job[1] = p /\ f.job = <<p, f.job[2]>> /\ f.job[2] \in Slots(p)
  <2>1. \A f \in fills : f.job[1] = p
    BY Zenon, <1>3 DEF SettleFills
  <2> QED  BY Zenon, <1>1, <2>1, JobFacts DEF FillSound
<1>5. {g.job[2] : g \in fills} = Slots(p)
  BY Zenon, <1>1, <1>2, <1>3 DEF SettleFills, FillSound
<1>6. {f.job : f \in fills} = JobsOfRound(p)
  <2>1. JobsOfRound(p) = {<<p, s>> : s \in Slots(p)}
    BY Zenon DEF JobsOfRound, collaborative_job_id
  <2>2. \A s \in Slots(p) : \E f \in fills : f.job = <<p, s>>
    BY Zenon, <1>4, <1>5
  <2>3. \A f \in fills : \E s \in Slots(p) : f.job = <<p, s>>
    BY Zenon, <1>4
  <2>4. \A j : j \in {f.job : f \in fills} <=> j \in {<<p, s>> : s \in Slots(p)}
    BY Zenon, <2>2, <2>3
  <2> QED  BY Zenon, <2>1, <2>4
<1>7. \A f, g \in fills : f.job[2] = g.job[2] => f = g
  <2>1. ASSUME NEW f \in fills, NEW g \in fills, f.job[2] = g.job[2] PROVE f.job = g.job
    <3>1. PICK a : a = f.job[2] /\ a = g.job[2]
      BY Zenon, <2>1
    <3>2. f.job = <<p, a>> /\ g.job = <<p, a>>
      BY Zenon, <1>4, <3>1
    <3> QED  BY Zenon, <3>2
  <2> QED  BY Zenon, <1>1, <2>1
<1>8. PICK heads \in GroupApplied(fills) :
        ledger' = [root |-> ledger.root + 1, head |-> heads,
                   accepted |-> ledger.accepted \cup {[before |-> ledger.root, body |-> fills]}]
  BY Zenon DEF SettleFills
<1>9. Through(heads, ledger.head, fills)
  <2>1. Heads(ledger.head) /\ \A f \in fills : FillSound(f)
    BY Zenon, <1>1 DEF IInv, HeadsSound
  <2> QED  BY <1>7, <1>8, <2>1, GroupAppliedThrough
<1>10. ASSUME Settled(p) PROVE FALSE
  <2>1. PICK tx \in FillTransactions : RoundOf(tx) = p
    BY Zenon, <1>10 DEF Settled
  <2>2. {f.job : f \in tx.body} = JobsOfRound(p) /\ \A f \in tx.body : f.kind = "fill" /\ BodySound(f)
    BY Zenon, <2>1, RoundFacts DEF IInv
  <2>3. PICK g \in tx.body : g.job = e.job
    BY Zenon, <1>2, <1>6, <2>2
  <2>4. FillSound(g) /\ FillSound(e) /\ g \in SettledFills
    BY Zenon, <1>1, <1>2, <2>1, <2>2, <2>3 DEF BodySound, SettledFills
  <2>5. PICK o, r : o = Maker(e.job) /\ r = Reserve[e.job][o]
    BY Zenon
  <2>6. /\ g.maker \in Spends(g) /\ g.maker.hold = o /\ g.maker.remaining = r
        /\ e.maker \in Spends(e) /\ e.maker.hold = o /\ e.maker.remaining = r
    <3>1. g.maker \in Spends(g) /\ e.maker \in Spends(e)
      BY Zenon DEF Spends
    <3>2. g.maker.hold = o /\ e.maker.hold = o
      BY Zenon, <2>3, <2>4, <2>5 DEF FillSound
    <3>3. /\ g.maker.remaining = Reserve[g.job][g.maker.hold]
          /\ e.maker.remaining = Reserve[e.job][e.maker.hold]
      BY Zenon, <2>4, <3>1, SpendsOf
    <3> QED  BY Zenon, <2>3, <2>5, <3>1, <3>2, <3>3
  <2>7. r \in Int /\ ledger.head[o].remaining <= r - Spent(e.job, o)
    <3>1. SpendSound(g, g.maker)
      BY Zenon, <2>4, <2>6 DEF IInv, HeadsSound
    <3>2. /\ g.maker.remaining \in Int
          /\ ledger.head[g.maker.hold].remaining <= g.maker.remaining - Spent(g.job, g.maker.hold)
      BY Zenon, <3>1 DEF SpendSound
    <3> QED  BY <2>3, <2>6, <3>2
  <2>8. r <= ledger.head[o].remaining
    <3>1. e.maker.remaining <= ledger.head[e.maker.hold].remaining
      BY Zenon, <1>2, <1>9, <2>6 DEF Through
    <3> QED  BY <2>6, <3>1
  <2>9. Spent(e.job, o) \in Nat /\ Spent(e.job, o) > 0
    BY Zenon, <2>4, SpentPositive DEF FillSound
  <2>10. ledger.head[o].remaining \in Int
    BY Zenon, <2>4, <2>5, JobFacts DEF IInv, HeadsSound, Heads, HeadSound, FillSound
  <2> QED  BY <2>7, <2>8, <2>9, <2>10
<1> QED  BY Zenon, <1>1, <1>4, <1>6, <1>8, <1>9, <1>10

\* The jobs that are settled after the group.
LEMMA SettledJobsGrow ==
    ASSUME NEW fills, NEW p, {f.job : f \in fills} = JobsOfRound(p), p \in Rounds, ~Settled(p),
           \A q : Settled(q)' <=> Settled(q) \/ q = p, NEW o
    PROVE  /\ SettledJobs(o)' = SettledJobs(o) \cup JobsOf(fills, o)
           /\ SettledJobs(o) \cap JobsOf(fills, o) = {}
           /\ SettledJobs(o) \subseteq Jobs /\ JobsOf(fills, o) \subseteq Jobs
<1>1. \A j \in JobsOfRound(p) : j[1] = p /\ j \in Jobs
  <2>1. ASSUME NEW j \in JobsOfRound(p) PROVE j[1] = p /\ j \in Jobs
    <3>1. PICK s \in Slots(p) : j = <<p, s>>
      BY Zenon, <2>1 DEF JobsOfRound, collaborative_job_id
    <3>2. j[1] = p
      BY <3>1
    <3>3. j \in Jobs
      BY <3>1 DEF Jobs, collaborative_job_id
    <3> QED  BY Zenon, <3>2, <3>3
  <2> QED  BY Zenon, <2>1
<1>2. \A j \in Jobs : j[1] = p => j \in JobsOfRound(p)
  BY Zenon, JobFacts DEF JobsOfRound, collaborative_job_id
<1>3. JobsOf(fills, o) = {j \in JobsOfRound(p) : o \in Pair(j)}
  BY Zenon DEF JobsOf
<1>4. SettledJobs(o)' = {j \in Jobs : Settled(j[1])' /\ o \in Pair(j)}
  BY Zenon DEF SettledJobs
<1>5. SettledJobs(o) = {j \in Jobs : Settled(j[1]) /\ o \in Pair(j)}
  BY Zenon DEF SettledJobs
<1>6. \A j \in Jobs : Settled(j[1])' <=> Settled(j[1]) \/ j \in JobsOfRound(p)
  BY Zenon, <1>1, <1>2
<1>7. SettledJobs(o)' = SettledJobs(o) \cup JobsOf(fills, o)
  BY Zenon, <1>1, <1>3, <1>4, <1>5, <1>6
<1> QED  BY Zenon, <1>1, <1>3, <1>5, <1>7
\* The ledger settles a round.
LEMMA SettleFillsStep ==
    ASSUME IInv, NEW fills, fills \subseteq certified, fills # {}, SettleFills(fills)
    PROVE  IInv'
<1>1. PICK p, heads :
        /\ p \in Rounds
        /\ {f.job : f \in fills} = JobsOfRound(p) /\ ~Settled(p)
        /\ \A f \in fills : f.kind = "fill" /\ BodySound(f) /\ FillSound(f) /\ f.job[1] = p
        /\ Through(heads, ledger.head, fills)
        /\ ledger' = [root |-> ledger.root + 1, head |-> heads,
                      accepted |-> ledger.accepted \cup {[before |-> ledger.root, body |-> fills]}]
  BY Zenon, GroupFacts
<1>2. PICK tx : tx = [before |-> ledger.root, body |-> fills]
  BY Zenon
<1>3. /\ ledger'.root = ledger.root + 1 /\ ledger'.head = heads
      /\ ledger'.accepted = ledger.accepted \cup {tx}
      /\ tx.body = fills
  BY <1>1, <1>2
<1>4. FillTransactions' = FillTransactions \cup {tx}
  BY Zenon, <1>1, <1>3 DEF FillTransactions
<1>5. RoundOf(tx) = p
  <2>1. (CHOOSE f \in tx.body : TRUE) \in tx.body
    BY Zenon, <1>3
  <2> QED  BY Zenon, <1>1, <1>3, <2>1 DEF RoundOf
<1>6. \A q : Settled(q)' <=> Settled(q) \/ q = p
  BY Zenon, <1>4, <1>5 DEF Settled, RoundOf
<1>7. /\ Goes /\ NodesSound' /\ CertifiedSound' /\ \A b : BodySound(b) => BodySound(b)'
  <2>1. Outdated /\ FillTransactions \subseteq FillTransactions'
    BY Zenon, <1>4 DEF SettleFills
  <2> QED  BY Zenon, <2>1, MovedStep
<1>8. LedgerSound'
  <2>1. TxSound(tx)'
    <3>1. IsFills(tx) /\ tx.body # {}
      BY Zenon, <1>1, <1>3 DEF IsFills
    <3> QED  BY Zenon, <1>1, <1>3, <1>7, <3>1 DEF TxSound, IsFills
  <2>2. \A ty : TxSound(ty) => TxSound(ty)'
    BY Zenon, <1>7 DEF TxSound, IsFills
  <2>3. \A ty \in ledger'.accepted : TxSound(ty)'
    BY Zenon, <1>3, <2>1, <2>2 DEF IInv, LedgerSound
  <2>4. \A ty \in FillTransactions : RoundOf(ty) # p
    BY Zenon, <1>1 DEF Settled
  <2>5. \A ty, tz \in FillTransactions \cup {tx} : RoundOf(ty) = RoundOf(tz) => ty = tz
    BY Zenon, <1>5, <2>4 DEF IInv, LedgerSound
  <2>6. \A ty, tz \in FillTransactions' : RoundOf(ty)' = RoundOf(tz)' => ty = tz
    BY Zenon, <1>4, <2>5 DEF RoundOf
  <2>7. ledger' = [root |-> ledger'.root, head |-> ledger'.head, accepted |-> ledger'.accepted]
    BY Zenon, <1>1, <1>2, <1>3
  <2> QED  BY Zenon, <2>3, <2>6, <2>7 DEF LedgerSound
<1>9. /\ Heads(ledger.head) /\ Heads(heads)
      /\ \A o \in Orders :
            /\ ledger.head[o].remaining \in Int /\ ledger.head[o].sequence \in Nat
            /\ heads[o].remaining \in Int /\ heads[o].sequence \in Nat
            /\ heads[o].remaining <= ledger.head[o].remaining
            /\ ledger.head[o].sequence <= heads[o].sequence
  BY Zenon, <1>1 DEF IInv, HeadsSound, Through, Heads, HeadSound
<1>10. SettledFills' = SettledFills \cup fills
  BY <1>3, <1>4 DEF SettledFills
<1>11. \A f \in SettledFills : FillSound(f)
  <2>1. ASSUME NEW f \in SettledFills PROVE FillSound(f)
    <3>1. PICK ty \in FillTransactions : f \in ty.body
      BY <2>1 DEF SettledFills
    <3> QED  BY Zenon, <3>1, RoundFacts DEF IInv, BodySound
  <2> QED  BY Zenon, <2>1
<1>12. ASSUME NEW f \in SettledFills, NEW s \in Spends(f)
       PROVE  /\ s.hold \in Orders /\ s.remaining \in Int /\ s.sequence \in Nat
              /\ heads[s.hold].remaining <= s.remaining - Spent(f.job, s.hold)
              /\ s.sequence < ledger.head[s.hold].sequence /\ s.sequence < heads[s.hold].sequence
  <2>1. s.hold \in Orders /\ Spent(f.job, s.hold) \in Nat
    BY Zenon, <1>11, <1>12, SpendsOf, SpentPositive DEF FillSound
  <2>2. SpendSound(f, s)
    BY Zenon, <1>12 DEF IInv, HeadsSound
  <2>3. /\ s.remaining \in Int /\ s.sequence \in Nat
        /\ ledger.head[s.hold].remaining <= s.remaining - Spent(f.job, s.hold)
        /\ s.sequence < ledger.head[s.hold].sequence
    BY Zenon, <2>2 DEF SpendSound
  <2>4. PICK a, b, c, d, e : /\ a = ledger.head[s.hold].remaining /\ b = heads[s.hold].remaining
                             /\ c = ledger.head[s.hold].sequence /\ d = heads[s.hold].sequence
                             /\ e = Spent(f.job, s.hold)
    BY Zenon
  <2>5. a \in Int /\ b \in Int /\ c \in Nat /\ d \in Nat /\ b <= a /\ c <= d /\ e \in Nat
    BY Zenon, <1>9, <2>1, <2>4
  <2>6. b <= s.remaining - e /\ s.sequence < d
    BY <2>3, <2>4, <2>5
  <2> QED  BY Zenon, <2>1, <2>3, <2>4, <2>6
<1>13. ASSUME NEW f \in fills, NEW s \in Spends(f)
       PROVE  /\ s.hold \in Orders /\ s.remaining \in Int /\ s.sequence \in Nat
              /\ heads[s.hold].remaining <= s.remaining - Spent(f.job, s.hold)
              /\ ledger.head[s.hold].sequence <= s.sequence /\ s.sequence < heads[s.hold].sequence
  BY Zenon, <1>1, <1>13, SpendsOf DEF Through
<1>14. \A f \in SettledFills' : \A s \in Spends(f) : SpendSound(f, s)'
  BY Zenon, <1>3, <1>10, <1>12, <1>13 DEF SpendSound
<1>15. \A f, g \in SettledFills' : \A s \in Spends(f), t \in Spends(g) :
            s.hold = t.hold /\ s.sequence = t.sequence => f = g
  <2>1. ASSUME NEW f \in SettledFills, NEW s \in Spends(f), NEW g \in fills, NEW t \in Spends(g),
               s.hold = t.hold
        PROVE  s.sequence # t.sequence
    <3>1. PICK a : a = ledger.head[s.hold].sequence
      BY Zenon
    <3>2. s.sequence \in Nat /\ t.sequence \in Nat /\ s.sequence < a /\ a <= t.sequence /\ a \in Nat
      BY Zenon, <1>9, <1>12, <1>13, <2>1, <3>1
    <3> QED  BY <3>2
  <2>2. \A f, g \in SettledFills : \A s \in Spends(f), t \in Spends(g) :
            s.hold = t.hold /\ s.sequence = t.sequence => f = g
    BY Zenon DEF IInv, HeadsSound
  <2>3. \A f, g \in fills : \A s \in Spends(f), t \in Spends(g) :
            s.hold = t.hold /\ s.sequence = t.sequence => f = g
    BY Zenon, <1>1 DEF Through
  <2>4. ASSUME NEW f \in SettledFills', NEW g \in SettledFills', NEW s \in Spends(f), NEW t \in Spends(g),
               s.hold = t.hold, s.sequence = t.sequence
        PROVE  f = g
    <3>1. (f \in SettledFills \/ f \in fills) /\ (g \in SettledFills \/ g \in fills)
      BY Zenon, <1>10, <2>4
    <3>2. CASE f \in SettledFills /\ g \in SettledFills
      BY Zenon, <2>2, <2>4, <3>2
    <3>3. CASE f \in fills /\ g \in fills
      BY Zenon, <2>3, <2>4, <3>3
    <3>4. CASE f \in SettledFills /\ g \in fills
      BY Zenon, <2>1, <2>4, <3>4
    <3>5. CASE f \in fills /\ g \in SettledFills
      BY Zenon, <2>1, <2>4, <3>5
    <3> QED  BY Zenon, <3>1, <3>2, <3>3, <3>4, <3>5
  <2> QED  BY Zenon, <2>4
<1>16. ASSUME NEW o \in Orders
       PROVE  heads[o].remaining = Amount[o] - SumFunctionOnSet(SpentBy(o), SettledJobs(o)')
  <2>1. PICK J, K : J = SettledJobs(o) /\ K = JobsOf(fills, o)
    BY Zenon
  <2>2. SettledJobs(o)' = J \cup K /\ J \cap K = {} /\ J \subseteq Jobs /\ K \subseteq Jobs
    BY Zenon, <1>1, <1>6, <2>1, SettledJobsGrow
  <2>3. /\ IsFiniteSet(J) /\ IsFiniteSet(K)
        /\ Ints(SpentBy(o), J \cup K) /\ Ints(SpentBy(o), J) /\ Ints(SpentBy(o), K)
    <3>1. \A j \in Jobs : SpentBy(o)[j] \in Int
      BY SpentPositive
    <3> QED  BY Zenon, <2>2, <3>1, JobsFinite, FS_Subset DEF Ints
  <2>4. PICK a, b, c, d : /\ a = Amount[o] /\ b = SumFunctionOnSet(SpentBy(o), J)
                          /\ c = SumFunctionOnSet(SpentBy(o), K)
                          /\ d = SumFunctionOnSet(SpentBy(o), J \cup K)
    BY Zenon
  <2>5. d = b + c /\ b \in Int /\ c \in Int
    BY Zenon, <2>2, <2>3, <2>4, SumUnion, SumInt
  <2>6. ledger.head[o].remaining = a - b
    BY Zenon, <2>1, <2>4 DEF IInv, HeadsSound
  <2>7. heads[o].remaining = ledger.head[o].remaining - c
    BY Zenon, <1>1, <2>1, <2>4 DEF Through
  <2>8. a \in Nat
    BY Zenon, <2>4, CommitteeAssumption
  <2>9. heads[o].remaining = a - d
    BY <2>5, <2>6, <2>7, <2>8
  <2> QED  BY Zenon, <2>2, <2>4, <2>9
<1>17. ASSUME NEW o \in Orders, heads[o].status = "consumed"
       PROVE  \E q \in Rounds : Settled(q)' /\ Log[q].taker = o /\ Log[q].left = 0
  <2>1. CASE ledger.head[o].status = "consumed"
    <3>1. PICK q \in Rounds : Settled(q) /\ Log[q].taker = o /\ Log[q].left = 0
      BY Zenon, <2>1 DEF IInv, HeadsSound
    <3> QED  BY Zenon, <1>6, <3>1
  <2>2. CASE \E f \in fills : o = Taker(f.job) /\ TakerMayClose(f.job)
    <3>1. o = Log[p].taker /\ Log[p].left = 0
      BY Zenon, <1>1, <2>2 DEF Taker, TakerMayClose
    <3> QED  BY Zenon, <1>1, <1>6, <3>1
  <2> QED  BY Zenon, <1>1, <1>17, <2>1, <2>2 DEF Through
<1>18. ASSUME NEW o \in Orders, heads[o].status = "released"
       PROVE  \/ now' > Deadline[o]
              \/ \E c \in DOMAIN Log \ Rounds : Log[c].order = o /\ Reached(c)'
  <2>1. "released" # "consumed"
    OBVIOUS
  <2>2. ledger.head[o].status = "released"
    BY Zenon, <1>1, <1>18, <2>1 DEF Through
  <2>3. \/ now > Deadline[o]
        \/ \E c \in DOMAIN Log \ Rounds : Log[c].order = o /\ Reached(c)
    BY Zenon, <2>2 DEF IInv, HeadsSound
  <2> QED  BY Zenon, <1>7, <2>3, CancelledStays DEF IInv
<1>19. HeadsSound'
  BY Zenon, <1>3, <1>9, <1>14, <1>15, <1>16, <1>17, <1>18 DEF HeadsSound
<1> QED  BY Zenon, <1>7, <1>8, <1>19 DEF IInv
----------------------------------------------------------------------------
(* The invariant, and what follows from it *)

\* Before anything happens.
LEMMA InitInvariant ==
    ASSUME Init
    PROVE  IInv
<1>1. PICK h : /\ h = [o \in Orders |-> [hold |-> o, status |-> "active", sequence |-> 0,
                                         remaining |-> Amount[o], receipt |-> None]]
               /\ ledger = [root |-> 0, accepted |-> {}, head |-> h]
  BY Zenon DEF Init
<1>2. ledger.root = 0 /\ ledger.accepted = {} /\ ledger.head = h
  BY <1>1
<1>3. FillTransactions = {} /\ SettledFills = {} /\ \A p : ~Settled(p)
  BY Zenon, <1>2 DEF FillTransactions, SettledFills, Settled
<1>4. NodesSound
  <2>1. at = [n \in Nodes |-> 1] /\ observed = [n \in Nodes |-> {}]
        /\ keys = [o \in Orders |-> {}] /\ now = 0
    BY Zenon DEF Init
  <2>2. \A n \in Nodes : \A p \in Rounds : ~(p < at[n])
    BY <2>1, LogAssumption DEF Rounds
  <2>3. at \in [Nodes -> Nat] /\ now \in Nat
    BY <2>1
  <2> QED  BY Zenon, <2>1, <2>2, <2>3 DEF NodesSound
<1>5. CertifiedSound
  BY Zenon DEF Init, CertifiedSound, OnePerJob
<1>6. LedgerSound
  <2>1. ledger = [root |-> ledger.root, head |-> ledger.head, accepted |-> ledger.accepted]
    BY <1>1, <1>2
  <2> QED  BY Zenon, <1>2, <1>3, <2>1 DEF LedgerSound
<1>7. HeadsSound
  <2>1. ASSUME NEW o \in Orders
        PROVE  /\ HeadSound(h[o], o) /\ h[o].status = "active" /\ h[o].remaining = Amount[o]
               /\ Amount[o] = Amount[o] - SumFunctionOnSet(SpentBy(o), SettledJobs(o))
    <3>1. h[o] = [hold |-> o, status |-> "active", sequence |-> 0,
                  remaining |-> Amount[o], receipt |-> None]
      BY Zenon, <1>1
    <3>2. PICK x : x = h[o]
      BY Zenon
    <3>3. /\ x.status = "active" /\ x.remaining = Amount[o] /\ x.sequence = 0
          /\ x.hold = o /\ x.receipt = None
      BY <3>1, <3>2
    <3>4. Amount[o] \in Nat
      BY Zenon, CommitteeAssumption
    <3>5. x.remaining \in Int /\ x.sequence \in Nat
      BY <3>3, <3>4
    <3>6. x = [hold |-> o, status |-> x.status, sequence |-> x.sequence,
               remaining |-> x.remaining, receipt |-> x.receipt]
      BY Zenon, <3>1, <3>2, <3>3
    <3>7. HeadSound(x, o)
      BY Zenon, <3>3, <3>5, <3>6 DEF HeadSound
    <3>8. SettledJobs(o) = {}
      BY Zenon, <1>3 DEF SettledJobs
    <3>9. SumFunctionOnSet(SpentBy(o), SettledJobs(o)) = 0
      BY Zenon, <3>8, SumEmpty
    <3>10. Amount[o] = Amount[o] - 0
      BY <3>4
    <3> QED  BY Zenon, <3>2, <3>3, <3>7, <3>9, <3>10
  <2>2. Heads(h)
    <3>1. h = [o \in Orders |-> h[o]]
      BY Zenon, <1>1
    <3> QED  BY Zenon, <2>1, <3>1 DEF Heads
  <2>3. "active" # "consumed" /\ "active" # "released"
    OBVIOUS
  <2> QED  BY Zenon, <1>2, <1>3, <2>1, <2>2, <2>3 DEF HeadsSound
<1> QED  BY Zenon, <1>4, <1>5, <1>6, <1>7 DEF IInv

\* Every step keeps the invariant.
LEMMA InvariantStep ==
    ASSUME IInv, [Next]_vars
    PROVE  IInv'
<1>1. CASE \E job \in Jobs : prove_fill(job)
  BY Zenon, <1>1, IdleStep
<1>2. CASE \E job \in Jobs, o \in Orders : issue_claim_authorizations(job, o)
  BY Zenon, <1>2, IssueStep
<1>3. CASE \E job \in Jobs, n \in Signers : ProposeFill(job, n)
  BY Zenon, <1>3, ProposeFillStep
<1>4. CASE \E o \in Orders, n \in Signers : ProposeRelease(o, n)
  BY Zenon, <1>4, ProposeReleaseStep
<1>5. CASE \E n \in Signers : certify_native_fill(n)
  BY Zenon, <1>5, CertifyStep
<1>6. CASE \E fills \in SUBSET certified : fills # {} /\ SettleFills(fills)
  BY Zenon, <1>6, SettleFillsStep
<1>7. CASE \E r \in certified : SettleRelease(r)
  BY Zenon, <1>7, SettleReleaseStep
<1>8. CASE \E o \in Orders : ExpireHold(o)
  BY Zenon, <1>8, ExpireStep
<1>9. CASE OtherTransaction
  BY Zenon, <1>9, OtherStep
<1>10. CASE \E n \in Nodes : OpenItem(n)
  BY Zenon, <1>10, IdleStep
<1>11. CASE \E n \in Nodes, f \in Statements : observe(n, f)
  BY Zenon, <1>11, ObserveStep
<1>12. CASE \E n \in Nodes : FinalizeRound(n)
  BY Zenon, <1>12, FinalizeStep
<1>13. CASE \E n \in Nodes, r \in Statements : confirm_release(n, r)
  BY Zenon, <1>13, ConfirmStep
<1>14. CASE Tick
  BY Zenon, <1>14, IdleStep
<1>15. CASE UNCHANGED vars
  BY Zenon, <1>15, IdleStep
<1> QED  BY Zenon, <1>1, <1>2, <1>3, <1>4, <1>5, <1>6, <1>7, <1>8, <1>9, <1>10, <1>11, <1>12,
            <1>13, <1>14, <1>15 DEF Next

\* Nodes, statements, ledger and heads always fit together.
THEOREM FillInvariant == Spec => []IInv
<1>1. Init => IInv
  BY InitInvariant
<1>2. IInv /\ [Next]_vars => IInv'
  BY InvariantStep
<1> QED  BY <1>1, <1>2, PTL DEF Spec

\* The ledger settles a round whole and once, between the orders the nodes
\* matched, whatever the coordinator asks for (native.rs, verify and
\* verify_group).
THEOREM RoundsWhole == Spec => []RoundsSettleWhole
<1>1. ASSUME IInv PROVE RoundsSettleWhole
  <2>1. LedgerSound
    BY Zenon, <1>1 DEF IInv
  <2>2. \A tx \in FillTransactions :
          {f.job : f \in tx.body} = {collaborative_job_id(RoundOf(tx), t) : t \in Slots(RoundOf(tx))}
    BY Zenon, <2>1, RoundFacts DEF JobsOfRound
  <2>3. \A tx \in FillTransactions : \A f \in tx.body :
            f.maker.hold = Maker(f.job) /\ f.taker.hold = Taker(f.job)
    BY Zenon, <2>1, RoundFacts DEF BodySound, FillSound
  <2> QED  BY Zenon, <2>1, <2>2, <2>3 DEF RoundsSettleWhole, LedgerSound
<1>2. IInv => RoundsSettleWhole
  BY <1>1
<1> QED  BY <1>2, FillInvariant, PTL

\* What a node recorded as final is on the ledger (native_finality.rs,
\* observe), and it goes past a round only when the round is settled.
THEOREM ObservedCanonical == Spec => []ObservedIsCanonical
<1>1. IInv => ObservedIsCanonical
  BY Zenon DEF IInv, NodesSound, ObservedIsCanonical
<1> QED  BY <1>1, FillInvariant, PTL
\* A node that has gone past a round, or any node at a later item, shows that
\* the round is settled.
LEMMA ReachedSettles ==
    ASSUME IInv, NEW p \in Rounds, NEW q \in Nat, p < q, Reached(q)
    PROVE  Settled(p)
<1>1. PICK m \in Nodes : at[m] >= q
  BY Zenon DEF Reached
<1>2. at[m] \in Nat /\ p \in Nat
  <2>1. at[m] \in Nat
    BY Zenon DEF IInv, NodesSound
  <2> QED  BY <2>1, LogAssumption DEF Rounds
<1>3. p < at[m]
  BY <1>1, <1>2
<1> QED  BY Zenon, <1>3 DEF IInv, NodesSound

\* While a node is at a round that is not settled, just the rounds before it
\* are.
LEMMA SettledBefore ==
    ASSUME IInv, NEW n \in Nodes, NEW p \in Rounds, p = at[n], ~Settled(p)
    PROVE  \A q \in Rounds : Settled(q) <=> q < p
<1>1. \A q \in Rounds : q \in Nat
  BY LogAssumption DEF Rounds
<1>2. ASSUME NEW q \in Rounds, Settled(q) PROVE q < p
  <2>1. PICK tx \in FillTransactions : RoundOf(tx) = q
    BY Zenon, <1>2 DEF Settled
  <2>2. /\ {f.job : f \in tx.body} = JobsOfRound(q)
        /\ \A f \in tx.body : f.job[1] = q /\ f.kind = "fill" /\ BodySound(f)
    BY Zenon, <2>1, RoundFacts DEF IInv
  <2>3. PICK f \in tx.body : TRUE
    BY Zenon, <2>1 DEF IInv, LedgerSound, FillTransactions, TxSound
  <2>4. Reached(q)
    BY Zenon, <2>2, <2>3 DEF BodySound
  <2>5. ~(p < q)
    BY Zenon, <1>1, <2>4, ReachedSettles
  <2>6. p # q
    BY Zenon, <1>2
  <2> QED  BY <1>1, <2>5, <2>6
<1>3. ASSUME NEW q \in Rounds, q < p PROVE Settled(q)
  BY Zenon, <1>3 DEF IInv, NodesSound
<1> QED  BY Zenon, <1>2, <1>3

\* An order of a round is one of the pair of some slot.
LEMMA OrderOfRound ==
    ASSUME NEW p \in Rounds, NEW o \in InRound(p)
    PROVE  o \in Orders /\ \E t \in Slots(p) : <<p, t>> \in Jobs /\ o \in Pair(<<p, t>>)
<1>1. \A t \in Slots(p) : <<p, t>> \in Jobs
  BY DEF Jobs, collaborative_job_id
<1>2. PICK t \in Slots(p) : o \in {Log[p].taker, Log[p].fills[t].maker}
  <2>1. CASE o = Log[p].taker
    BY Zenon, <2>1, LogAssumption
  <2>2. CASE o \in {f.maker : f \in Range(Log[p].fills)}
    BY Zenon, <2>2 DEF Range, Slots
  <2> QED  BY Zenon, <2>1, <2>2 DEF InRound
<1>3. PICK j : j = <<p, t>>
  BY Zenon
<1>4. j[1] = p /\ j[2] = t /\ j \in Jobs
  BY <1>1, <1>3
<1>5. Maker(j) = Log[p].fills[t].maker /\ Taker(j) = Log[p].taker
  BY Zenon, <1>4 DEF Maker, Taker
<1>6. o \in Pair(j)
  BY Zenon, <1>2, <1>5 DEF Pair
<1>7. o \in Orders
  BY Zenon, <1>4, <1>6, JobFacts
<1> QED  BY Zenon, <1>3, <1>4, <1>6, <1>7

\* The least slot that names an order.
LEMMA FirstSlot ==
    ASSUME NEW T, T \subseteq Nat, T # {}
    PROVE  Min(T) \in T /\ \A t \in T : Min(T) <= t
<1>1. PICK m \in T : \A t \in T : m <= t
  BY Zenon, LeastNumber
<1> QED  BY Zenon, <1>1 DEF Min

\* The reservations of a matched round hold what matching used until the round
\* settles or their deadline passes.
THEOREM MatchedFunded == Spec => []MatchedStaysFunded
<1>1. ASSUME IInv, NEW n \in Nodes, at[n] \in Rounds, ~Settled(at[n]), NEW o \in InRound(at[n]),
             now <= Deadline[o]
      PROVE  /\ ledger.head[o].status = "active"
             /\ ledger.head[o].remaining =
                    Reserve[<<at[n], Min({t \in Slots(at[n]) : o \in Pair(<<at[n], t>>)})>>][o]
  <2>1. PICK p \in Rounds : p = at[n]
    BY Zenon, <1>1
  <2>2. ~Settled(p) /\ o \in InRound(p)
    BY Zenon, <1>1, <2>1
  <2>3. \A q \in Rounds : Settled(q) <=> q < p
    BY Zenon, <1>1, <2>1, <2>2, SettledBefore
  <2>4. o \in Orders /\ \E t \in Slots(p) : <<p, t>> \in Jobs /\ o \in Pair(<<p, t>>)
    BY Zenon, <2>2, OrderOfRound
  <2>5. PICK T, first : T = {t \in Slots(p) : o \in Pair(<<p, t>>)} /\ first = Min(T)
    BY Zenon
  <2>6. first \in T /\ (\A t \in T : first <= t) /\ T \subseteq Nat
    <3>1. T \subseteq Nat /\ T # {}
      BY <2>4, <2>5, LogAssumption
    <3> QED  BY Zenon, <2>5, <3>1, FirstSlot
  <2>7. p \in Nat /\ \A q \in Rounds : q \in Nat
    BY LogAssumption DEF Rounds
  <2>8. PICK job : job = <<p, first>>
    BY Zenon
  <2>9. job[1] = p /\ job[2] = first /\ job \in Jobs
    <3>1. first \in Slots(p)
      BY Zenon, <2>5, <2>6
    <3>2. job \in Jobs
      BY <2>8, <3>1 DEF Jobs, collaborative_job_id
    <3> QED  BY <2>8, <3>2
  <2>10. SettledJobs(o) = {j \in Earlier(job) : o \in Pair(j)}
    <3>1. ASSUME NEW j \in Jobs, o \in Pair(j)
          PROVE  Settled(j[1]) <=> j[1] < p \/ (j[1] = p /\ j[2] < first)
      <4>1. j[1] \in Rounds /\ j[2] \in Slots(j[1]) /\ j = <<j[1], j[2]>>
        BY Zenon, <3>1, JobFacts
      <4>2. ASSUME j[1] = p PROVE ~(j[2] < first)
        <5>1. j[2] \in T
          BY Zenon, <2>5, <3>1, <4>1, <4>2
        <5>2. j[2] \in Nat /\ first \in Nat /\ first <= j[2]
          BY Zenon, <2>6, <5>1
        <5> QED  BY <5>2
      <4> QED  BY Zenon, <2>3, <4>1, <4>2
    <3> QED  BY Zenon, <2>9, <3>1 DEF SettledJobs, Earlier
  <2>11. ledger.head[o].remaining = Reserve[job][o]
    <3>1. ledger.head[o].remaining = Amount[o] - SumFunctionOnSet(SpentBy(o), SettledJobs(o))
      BY Zenon, <1>1, <2>4 DEF IInv, HeadsSound
    <3>2. Reserve[job][o] = Amount[o] - SumFunctionOnSet(SpentBy(o), {j \in Earlier(job) : o \in Pair(j)})
      BY Zenon, <2>4, <2>9 DEF Reserve, SpentBy
    <3> QED  BY Zenon, <2>10, <3>1, <3>2
  <2>12. ledger.head[o].status # "consumed"
    <3>1. ASSUME NEW q \in Rounds, Settled(q), Log[q].taker = o, Log[q].left = 0 PROVE FALSE
      <4>1. p > q
        <5>1. q < p
          BY Zenon, <2>3, <3>1
        <5> QED  BY <2>7, <5>1
      <4> QED  BY Zenon, <2>2, <3>1, <4>1, LogAssumption
    <3> QED  BY Zenon, <1>1, <2>4, <3>1 DEF IInv, HeadsSound
  <2>13. ledger.head[o].status # "released"
    <3>1. ASSUME NEW c \in DOMAIN Log \ Rounds, Log[c].order = o, Reached(c) PROVE FALSE
      <4>1. c \in Nat /\ c # p
        BY LogAssumption
      <4>2. ~(p > c)
        BY Zenon, <2>2, <3>1, LogAssumption
      <4>3. ~(p < c)
        BY Zenon, <1>1, <2>2, <3>1, <4>1, ReachedSettles
      <4> QED  BY <2>7, <4>1, <4>2, <4>3
    <3>2. ~(now > Deadline[o])
      <4>1. now \in Nat /\ Deadline[o] \in Nat
        BY Zenon, <1>1, <2>4, CommitteeAssumption DEF IInv, NodesSound
      <4> QED  BY <1>1, <4>1
    <3> QED  BY Zenon, <1>1, <2>4, <3>1, <3>2 DEF IInv, HeadsSound
  <2>14. ledger.head[o].status = "active"
    BY Zenon, <1>1, <2>4, <2>12, <2>13 DEF IInv, HeadsSound, Heads, HeadSound
  <2> QED  BY Zenon, <2>1, <2>5, <2>8, <2>11, <2>14
<1>2. IInv => MatchedStaysFunded
  BY Zenon, <1>1 DEF MatchedStaysFunded
<1> QED  BY <1>2, FillInvariant, PTL

\* Who is paid by a claim is one of the two orders.
LEMMA RecipientOfPair ==
    ASSUME NEW job \in Jobs, NEW leg
    PROVE  Recipient(job, leg) \in Pair(job)
<1>1. /\ Maker(job) \in Orders /\ Taker(job) \in Orders /\ Side[Maker(job)] # Side[Taker(job)]
      /\ Pair(job) = {Maker(job), Taker(job)}
  BY Zenon, JobFacts
<1>2. \A o \in Orders : Side[o] = "buy" \/ Side[o] = "sell"
  BY Zenon, CommitteeAssumption
<1>3. (\E o \in Pair(job) : Side[o] = "buy") /\ (\E o \in Pair(job) : Side[o] = "sell")
  BY Zenon, <1>1, <1>2
<1>4. Payer[job] \in Pair(job) /\ Payee[job] \in Pair(job)
  BY Zenon, <1>3 DEF Payer, Payee
<1> QED  BY Zenon, <1>4 DEF Recipient

\* The wallet that a claim pays still has its key, and no key opens two claims
\* (corporate_journal.rs, issue_claim_authorizations and claim_authorization).
THEOREM ClaimsRedeemed == Spec => []ClaimsRedeemable
<1>1. ASSUME IInv, NEW f \in SettledFills, NEW leg
      PROVE  /\ claim_authorization(ClaimKey(f, leg), f.job) # {}
             /\ \E t \in Spends(f) : /\ t.hold = ClaimKey(f, leg).owner
                                     /\ t.sequence = ClaimKey(f, leg).sequence
  <2>1. PICK tx \in FillTransactions : f \in tx.body
    BY <1>1 DEF SettledFills
  <2>2. BodySound(f) /\ f.kind = "fill"
    BY Zenon, <1>1, <2>1, RoundFacts DEF IInv
  <2>3. /\ FillSound(f) /\ Kept(f.maker, f.keys.maker, f.job) /\ Kept(f.taker, f.keys.taker, f.job)
    BY Zenon, <2>2 DEF BodySound
  <2>4. PICK o : o = Recipient(f.job, leg)
    BY Zenon
  <2>5. o \in {Maker(f.job), Taker(f.job)} /\ Maker(f.job) # Taker(f.job)
    BY Zenon, <2>3, <2>4, RecipientOfPair, JobFacts DEF FillSound
  <2>6. /\ Spend(f, Maker(f.job)) = f.maker /\ Spend(f, Taker(f.job)) = f.taker
        /\ f.maker.hold = Maker(f.job) /\ f.taker.hold = Taker(f.job)
    BY Zenon, <2>3, SpendsOf DEF FillSound
  <2>7. PICK t, d : /\ t \in Spends(f) /\ t.hold = o /\ t = Spend(f, o) /\ Kept(t, d, f.job)
                    /\ d = IF f.maker.hold = o THEN f.keys.maker ELSE f.keys.taker
    <3>1. CASE o = Maker(f.job)
      BY Zenon, <2>3, <2>6, <3>1 DEF Spends
    <3>2. CASE o = Taker(f.job)
      BY Zenon, <2>3, <2>5, <2>6, <3>2 DEF Spends
    <3> QED  BY Zenon, <2>5, <3>1, <3>2
  <2>8. PICK key : key = ClaimKey(f, leg)
    BY Zenon
  <2>9. key = [owner |-> o, leg |-> leg, sequence |-> t.sequence, draw |-> d]
    BY Zenon, <2>4, <2>7, <2>8 DEF ClaimKey
  <2>10. key.owner = o /\ key.sequence = t.sequence /\ key.draw = d
    BY <2>9
  <2>11. claim_authorization(key, f.job) # {}
    BY Zenon, <2>7, <2>10 DEF claim_authorization, Kept
  <2> QED  BY Zenon, <2>7, <2>8, <2>10, <2>11
<1>2. ASSUME IInv, NEW f \in SettledFills, NEW g \in SettledFills, NEW leg,
             ClaimKey(f, leg) = ClaimKey(g, leg)
      PROVE  f = g
  <2>1. PICK t \in Spends(f) : t.hold = ClaimKey(f, leg).owner /\ t.sequence = ClaimKey(f, leg).sequence
    BY Zenon, <1>1, <1>2
  <2>2. PICK u \in Spends(g) : u.hold = ClaimKey(g, leg).owner /\ u.sequence = ClaimKey(g, leg).sequence
    BY Zenon, <1>1, <1>2
  <2>3. t.hold = u.hold /\ t.sequence = u.sequence
    BY Zenon, <1>2, <2>1, <2>2
  <2> QED  BY Zenon, <1>2, <2>3 DEF IInv, HeadsSound
<1>3. IInv => ClaimsRedeemable
  <2>1. ASSUME IInv PROVE ClaimsRedeemable
    <3>1. /\ \A f \in SettledFills, leg \in Legs : claim_authorization(ClaimKey(f, leg), f.job) # {}
          /\ \A f, g \in SettledFills, leg \in Legs : ClaimKey(f, leg) = ClaimKey(g, leg) => f = g
      BY Zenon, <1>1, <1>2, <2>1
    <3> QED  BY Zenon, <3>1 DEF ClaimsRedeemable, SettledFills
  <2> QED  BY <2>1
<1> QED  BY <1>3, FillInvariant, PTL
=============================================================================
