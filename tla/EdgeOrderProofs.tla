-------------------------- MODULE EdgeOrderProofs --------------------------
(***************************************************************************)
(* Proofs about EdgeOrder, for any orders, manifests, nodes and faults.    *)
(* What a node has stored for a manifest stays true of it (StoreSound), a  *)
(* returned receipt is the one kept with the record (AnswerSound), and an  *)
(* admitted order has such a receipt from every node (AdmittedSound).      *)
(***************************************************************************)
EXTENDS EdgeOrder, FiniteSetTheorems, TLAPS

\* The share in the record passed every check of a native order when it was
\* admitted, and its reservation is claimed for it.
RecordSound(n, m, s) ==
    LET rec == s.records[m] IN
    /\ rec.bundle \in Bundles /\ rec.bundle.manifest = m
    /\ \A g, h \in rec.receipts : g = h
    /\ \A g \in rec.receipts : g \in Nat /\ g <= s.generation
    /\ Native(m) =>
        /\ Permitted(n, rec.bundle, m, rec.admitted_at)
        /\ Hold[m[1]] \in DOMAIN s.claims /\ s.claims[Hold[m[1]]] = m

\* s is a sound state of node n's store.
StoreSound(n, s) == s.generation \in Nat /\ \A m \in DOMAIN s.records : RecordSound(n, m, s)

AnswerSound(r) ==
    /\ r = Receipt(r.party, r.bundle, r.generation) /\ r.party \in Parties
    /\ Holds(r.party, r.bundle.manifest)
    /\ store[r.party].records[r.bundle.manifest].bundle = r.bundle
    /\ store[r.party].records[r.bundle.manifest].receipts = {r.generation}

AdmittedSound(m) == \A p \in Parties : \E r \in answers : r.party = p /\ r.bundle.manifest = m

IInv ==
    /\ bundles \subseteq Bundles
    /\ DOMAIN store = Parties
    /\ \A n \in Parties : StoreSound(n, store[n])
    /\ \A r \in answers : AnswerSound(r)
    /\ \A m \in admitted : AdmittedSound(m)

-----------------------------------------------------------------------------
(* The store of a node *)

\* Ingest of a new manifest: its record is sound, and since its reservation was
\* free no other record loses its claim.
LEMMA StoredSound ==
    ASSUME NEW n \in Parties, NEW b \in Bundles, StoreSound(n, store[n]),
           ~Holds(n, b.manifest), Ingesting(n, b),
           NEW rs, \A g \in rs : g = store[n].generation + 1, NEW s, s = Stored(n, b, rs)
    PROVE  /\ StoreSound(n, s) /\ DOMAIN s.records = DOMAIN store[n].records \cup {b.manifest}
           /\ s.records[b.manifest].bundle = b /\ s.records[b.manifest].receipts = rs
           /\ \A m \in DOMAIN store[n].records : s.records[m] = store[n].records[m]
<1>1. PICK old, k, rec :
        /\ old = store[n] /\ k = b.manifest
        /\ rec = [bundle |-> b, admitted_at |-> now, receipts |-> rs]
  BY Zenon
<1>2. /\ s.generation = old.generation + 1 /\ s.records = Insert(old.records, k, rec)
      /\ s.claims = IF Native(k) THEN Insert(old.claims, Hold[k[1]], k) ELSE old.claims
  BY Zenon, <1>1 DEF Stored
<1>3. old.generation \in Nat /\ s.generation \in Nat /\ old.generation <= s.generation
  BY <1>1, <1>2 DEF StoreSound
<1>4. /\ DOMAIN s.records = DOMAIN old.records \cup {k} /\ s.records[k] = rec
      /\ \A m \in DOMAIN old.records : m # k /\ s.records[m] = old.records[m]
  <2>1. \A m \in DOMAIN old.records : m # k
    BY Zenon, <1>1 DEF Holds
  <2> QED  BY <1>2, <2>1 DEF Insert
<1>5. Native(k) => /\ Hold[k[1]] \in DOMAIN s.claims /\ s.claims[Hold[k[1]]] = k
                   /\ \A h \in DOMAIN old.claims \ {Hold[k[1]]} : h \in DOMAIN s.claims /\ s.claims[h] = old.claims[h]
                   /\ Hold[k[1]] \in DOMAIN old.claims => old.claims[Hold[k[1]]] = k
                   /\ Permitted(n, b, k, now)
  <2>1. Native(k) => ClaimFree(n, k)
                     /\ Permitted(n, b, k, now)
    BY Zenon, <1>1 DEF Ingesting, Acceptable
  <2>2. Native(k) => s.claims = Insert(old.claims, Hold[k[1]], k)
    BY Zenon, <1>2
  <2>3. Native(k) /\ Hold[k[1]] \in DOMAIN old.claims => old.claims[Hold[k[1]]] = k
    BY Zenon, <1>1, <2>1 DEF ClaimFree
  <2> QED  BY <2>1, <2>2, <2>3 DEF Insert
<1>6. RecordSound(n, k, s)
  <2>1. \A g \in rs : g = s.generation
    BY Zenon, <1>1, <1>2
  <2>2. rec.bundle = b /\ rec.admitted_at = now /\ rec.receipts = rs /\ b.manifest = k
    BY Zenon, <1>1
  <2> QED  BY <1>3, <1>4, <1>5, <2>1, <2>2 DEF RecordSound
<1>7. ASSUME NEW m \in DOMAIN old.records PROVE RecordSound(n, m, s)
  <2>1. RecordSound(n, m, old) /\ m # k /\ s.records[m] = old.records[m]
    BY Zenon, <1>1, <1>4 DEF StoreSound
  <2>2. Native(m) => Hold[m[1]] \in DOMAIN s.claims /\ s.claims[Hold[m[1]]] = m
    <3>1. CASE Native(k)
      BY Zenon, <1>5, <2>1, <3>1 DEF RecordSound
    <3>2. CASE ~Native(k)
      BY Zenon, <1>2, <2>1, <3>2 DEF RecordSound
    <3> QED  BY <3>1, <3>2
  <2> QED  BY <1>3, <2>1, <2>2 DEF RecordSound
<1> QED  BY <1>1, <1>3, <1>4, <1>6, <1>7 DEF StoreSound

\* admission_receipt of a stored record: its own receipt, or the first one.
LEMMA ReceiptedSound ==
    ASSUME NEW n \in Parties, NEW m, StoreSound(n, store[n]), Holds(n, m), NEW g,
           IF store[n].records[m].receipts = {} THEN g = store[n].generation
           ELSE g \in store[n].records[m].receipts
    PROVE  /\ StoreSound(n, Receipted(n, m, g))
           /\ DOMAIN Receipted(n, m, g).records = DOMAIN store[n].records
           /\ Receipted(n, m, g).records[m].bundle = store[n].records[m].bundle
           /\ Receipted(n, m, g).records[m].receipts = {g}
           /\ \A k \in DOMAIN store[n].records \ {m} : Receipted(n, m, g).records[k] = store[n].records[k]
<1>1. PICK s, old, rec :
        /\ s = Receipted(n, m, g) /\ old = store[n]
        /\ rec = [bundle |-> old.records[m].bundle, admitted_at |-> old.records[m].admitted_at, receipts |-> {g}]
  BY Zenon
<1>2. s.generation = old.generation /\ s.records = Insert(old.records, m, rec) /\ s.claims = old.claims
  BY Zenon, <1>1 DEF Receipted
<1>3. /\ DOMAIN s.records = DOMAIN old.records /\ s.records[m] = rec
      /\ \A k \in DOMAIN old.records \ {m} : s.records[k] = old.records[k]
  <2>1. m \in DOMAIN old.records
    BY Zenon, <1>1 DEF Holds
  <2> QED  BY <1>2, <2>1 DEF Insert
<1>4. RecordSound(n, m, old) /\ old.generation \in Nat
  BY Zenon, <1>1 DEF StoreSound, Holds
<1>5. g \in Nat /\ g <= old.generation
  BY <1>1, <1>4 DEF RecordSound
<1>6. RecordSound(n, m, s)
  <2>1. /\ s.records[m].bundle = old.records[m].bundle /\ s.records[m].receipts = {g}
        /\ s.records[m].admitted_at = old.records[m].admitted_at
    BY <1>1, <1>3
  <2> QED  BY <1>2, <1>4, <1>5, <2>1 DEF RecordSound
<1>7. ASSUME NEW k \in DOMAIN old.records \ {m} PROVE RecordSound(n, k, s)
  <2>1. RecordSound(n, k, old) /\ s.records[k] = old.records[k]
    BY Zenon, <1>1, <1>3 DEF StoreSound
  <2> QED  BY <1>2, <2>1 DEF RecordSound
<1>8. StoreSound(n, s)
  BY Zenon, <1>2, <1>3, <1>4, <1>6, <1>7 DEF StoreSound
<1> QED  BY <1>1, <1>3, <1>8

-----------------------------------------------------------------------------
(* Every step keeps the invariant *)

\* The state before the first order satisfies the invariant.
LEMMA InitSound == Init => IInv
<1> SUFFICES ASSUME Init PROVE IInv
  OBVIOUS
<1>1. ASSUME NEW n \in Parties PROVE StoreSound(n, store[n])
  BY DEF Init, StoreSound
<1> QED  BY <1>1 DEF Init, IInv

\* A store that keeps its records and the receipts it gave keeps every answer.
LEMMA StoreStep ==
    ASSUME IInv, NEW n \in Parties, NEW s, store' = [store EXCEPT ![n] = s], StoreSound(n, s),
           \A m \in DOMAIN store[n].records :
              /\ m \in DOMAIN s.records /\ s.records[m].bundle = store[n].records[m].bundle
              /\ store[n].records[m].receipts # {} => s.records[m].receipts = store[n].records[m].receipts,
           answers \subseteq answers', UNCHANGED <<bundles, admitted>>,
           \A r \in answers' \ answers : \E b, g :
              /\ r = Receipt(n, b, g) /\ b.manifest \in DOMAIN s.records
              /\ s.records[b.manifest].bundle = b /\ s.records[b.manifest].receipts = {g}
    PROVE  IInv'
<1>1. /\ DOMAIN store' = Parties /\ store'[n] = s
      /\ \A q \in Parties \ {n} : store'[q] = store[q]
  BY Zenon DEF IInv
<1>2. \A q \in Parties : StoreSound(q, store'[q])
  BY Zenon, <1>1 DEF IInv
<1>3. ASSUME NEW r \in answers' PROVE AnswerSound(r)'
  <2>1. CASE r \in answers
    <3>1. PICK q, m : q = r.party /\ m = r.bundle.manifest
      BY Zenon
    <3>2. /\ r = Receipt(q, r.bundle, r.generation) /\ q \in Parties /\ m \in DOMAIN store[q].records
          /\ store[q].records[m].bundle = r.bundle /\ store[q].records[m].receipts = {r.generation}
      BY Zenon, <2>1, <3>1 DEF IInv, AnswerSound, Holds
    <3>3. /\ m \in DOMAIN store'[q].records
          /\ store'[q].records[m].bundle = r.bundle /\ store'[q].records[m].receipts = {r.generation}
      BY Zenon, <1>1, <3>2
    <3> QED  BY Zenon, <3>1, <3>2, <3>3 DEF AnswerSound, Holds
  <2>2. CASE r \notin answers
    <3>1. PICK b, g : /\ r = Receipt(n, b, g) /\ b.manifest \in DOMAIN s.records
                      /\ s.records[b.manifest].bundle = b /\ s.records[b.manifest].receipts = {g}
      BY <2>2
    <3>2. r.party = n /\ r.bundle = b /\ r.generation = g
      BY Zenon, <3>1 DEF Receipt
    <3> QED  BY <1>1, <3>1, <3>2 DEF AnswerSound, Holds
  <2> QED  BY <2>1, <2>2
<1>4. \A m \in admitted' : AdmittedSound(m)'
  BY DEF IInv, AdmittedSound
<1> QED  BY <1>1, <1>2, <1>3, <1>4 DEF IInv

\* Ingest, answered or cut short, keeps the invariant.
LEMMA IngestKeeps ==
    ASSUME IInv, NEW n \in Parties, NEW b \in bundles, Ingest(n, b) \/ IngestCutShort(n, b)
    PROVE  IInv'
<1>1. b \in Bundles /\ StoreSound(n, store[n]) /\ Ingesting(n, b) /\ UNCHANGED <<bundles, admitted>>
  BY Zenon DEF IInv, Ingest, IngestCutShort
<1>2. CASE Ingest(n, b) /\ Holds(n, b.manifest)
  <2>1. PICK g, s : /\ g = AdmissionReceipt(n, b) /\ s = Receipted(n, b.manifest, g)
                    /\ store' = [store EXCEPT ![n] = s] /\ answers' = answers \cup {Receipt(n, b, g)}
    BY Zenon, <1>2 DEF Ingest
  <2>2. /\ store[n].records[b.manifest].receipts = {} => g = store[n].generation
        /\ store[n].records[b.manifest].receipts # {} => g \in store[n].records[b.manifest].receipts
    BY Zenon, <1>2, <2>1 DEF AdmissionReceipt
  <2>3. /\ StoreSound(n, s) /\ DOMAIN s.records = DOMAIN store[n].records
        /\ s.records[b.manifest].bundle = store[n].records[b.manifest].bundle
        /\ s.records[b.manifest].receipts = {g}
        /\ \A k \in DOMAIN store[n].records \ {b.manifest} : s.records[k] = store[n].records[k]
    BY SMTT(30), <1>1, <1>2, <2>1, <2>2, ReceiptedSound
  <2>4. store[n].records[b.manifest].bundle = b /\ b.manifest \in DOMAIN s.records
    BY Zenon, <1>2, <2>3 DEF Ingest, Holds
  <2>5. \A h \in store[n].records[b.manifest].receipts : h = g
    BY Zenon, <1>1, <1>2, <2>2 DEF StoreSound, RecordSound, Holds
  <2>6. store[n].records[b.manifest].receipts # {} => store[n].records[b.manifest].receipts = {g}
    BY Zenon, <2>5
  <2>7. answers \subseteq answers' /\ \A r \in answers' \ answers : \E c, h :
              /\ r = Receipt(n, c, h) /\ c.manifest \in DOMAIN s.records
              /\ s.records[c.manifest].bundle = c /\ s.records[c.manifest].receipts = {h}
    BY SMTT(30), <2>1, <2>3, <2>4
  <2>8. \A m \in DOMAIN store[n].records :
              /\ m \in DOMAIN s.records /\ s.records[m].bundle = store[n].records[m].bundle
              /\ store[n].records[m].receipts # {} => s.records[m].receipts = store[n].records[m].receipts
    BY Zenon, <2>3, <2>6
  <2>9. store' = [store EXCEPT ![n] = s] /\ StoreSound(n, s) /\ UNCHANGED <<bundles, admitted>>
    BY Zenon, <1>1, <2>1, <2>3
  <2> QED  BY Zenon, <2>7, <2>8, <2>9, StoreStep
<1>3. ASSUME NEW rs \in {{}, {store[n].generation + 1}}, ~Holds(n, b.manifest),
             store' = [store EXCEPT ![n] = Stored(n, b, rs)],
             answers \subseteq answers', \A r \in answers' \ answers : \E g \in rs : r = Receipt(n, b, g)
      PROVE  IInv'
  <2>1. PICK s : s = Stored(n, b, rs)
    BY Zenon
  <2>2. /\ StoreSound(n, s) /\ DOMAIN s.records = DOMAIN store[n].records \cup {b.manifest}
        /\ s.records[b.manifest].bundle = b /\ s.records[b.manifest].receipts = rs
        /\ \A m \in DOMAIN store[n].records : s.records[m] = store[n].records[m]
    <3>1. \A g \in rs : g = store[n].generation + 1
      BY <1>3
    <3> QED  BY <1>1, <1>3, <2>1, <3>1, StoredSound
  <2>3. \A g \in rs : rs = {g}
    BY Zenon, <1>3
  <2>4. \A r \in answers' \ answers : \E c, g :
              /\ r = Receipt(n, c, g) /\ c.manifest \in DOMAIN s.records
              /\ s.records[c.manifest].bundle = c /\ s.records[c.manifest].receipts = {g}
    BY <1>3, <2>2, <2>3
  <2>5. store' = [store EXCEPT ![n] = s] /\ answers \subseteq answers'
    BY Zenon, <1>3, <2>1
  <2>6. \A m \in DOMAIN store[n].records :
              /\ m \in DOMAIN s.records /\ s.records[m].bundle = store[n].records[m].bundle
              /\ s.records[m].receipts = store[n].records[m].receipts
    BY Zenon, <2>2
  <2> QED  BY Zenon, <1>1, <2>2, <2>4, <2>5, <2>6, StoreStep
<1>4. CASE Ingest(n, b) /\ ~Holds(n, b.manifest)
  <2>1. PICK g : g = store[n].generation + 1
    OBVIOUS
  <2>2. /\ store' = [store EXCEPT ![n] = Stored(n, b, {g})] /\ answers' = answers \cup {Receipt(n, b, g)}
    <3>1. AdmissionReceipt(n, b) = g
      BY Zenon, <1>4, <2>1 DEF AdmissionReceipt
    <3> QED  BY <1>4, <3>1 DEF Ingest
  <2>3. {g} \in {{}, {store[n].generation + 1}}
    BY Zenon, <2>1
  <2>4. answers \subseteq answers' /\ \A r \in answers' \ answers : \E h \in {g} : r = Receipt(n, b, h)
    BY Zenon, <2>2
  <2> QED  BY Zenon, <1>3, <1>4, <2>2, <2>3, <2>4
<1>5. CASE IngestCutShort(n, b)
  <2>1. /\ store' = [store EXCEPT ![n] = Stored(n, b, {})] /\ answers' = answers /\ ~Holds(n, b.manifest)
    BY Zenon, <1>5 DEF IngestCutShort
  <2> QED  BY <1>3, <2>1
<1> QED  BY <1>2, <1>4, <1>5

\* Any step keeps the invariant.
LEMMA NextKeeps == IInv /\ [Next]_vars => IInv'
<1> SUFFICES ASSUME IInv, [Next]_vars PROVE IInv'
  OBVIOUS
<1>1. ASSUME UNCHANGED <<store, answers>>, bundles' \subseteq Bundles,
             \A m \in admitted' \ admitted : AdmittedSound(m)
      PROVE  IInv'
  <2>1. DOMAIN store' = Parties /\ \A n \in Parties : StoreSound(n, store'[n])
    BY Zenon, <1>1 DEF IInv
  <2>2. \A r \in answers' : AnswerSound(r)'
    BY Zenon, <1>1 DEF IInv, AnswerSound, Holds
  <2>3. \A m \in admitted' : AdmittedSound(m)'
    BY Zenon, <1>1 DEF IInv, AdmittedSound
  <2> QED  BY <1>1, <2>1, <2>2, <2>3 DEF IInv
<1>2. ASSUME NEW b \in Bundles, Bundled(b) PROVE IInv'
  BY Zenon, <1>1, <1>2 DEF Bundled, IInv
<1>3. ASSUME NEW b \in bundles, Admit(b) PROVE IInv'
  BY <1>1, <1>3 DEF Admit, IInv, AdmittedSound
<1>4. ASSUME NEW m \in Manifests, Create(m) PROVE IInv'
  BY Zenon, <1>2, <1>4 DEF Create, Bundles
<1>5. ASSUME NEW slip \in Slips, CreateElsewhere(slip) PROVE IInv'
  BY Zenon, <1>2, <1>5 DEF CreateElsewhere, Bundles
<1>6. ASSUME UNCHANGED <<bundles, store, answers, admitted>> PROVE IInv'
  BY Zenon, <1>1, <1>6 DEF IInv
<1>7. ASSUME NEW n \in Honest, Restart(n) \/ PinTrust(n) \/ \E m \in Manifests : Complete(n, m)
      PROVE  IInv'
  BY Zenon, <1>6, <1>7 DEF Restart, PinTrust, Complete
<1>8. ASSUME NEW m \in Manifests, ApplyLifecycle(m) \/ CollectRelease(m) \/ CollectLifecycle(m)
      PROVE  IInv'
  BY Zenon, <1>6, <1>8 DEF ApplyLifecycle, CollectRelease, CollectLifecycle, Open
<1>9. CASE Tick \/ UNCHANGED vars
  BY Zenon, <1>6, <1>9 DEF Tick, vars
<1>10. Honest \subseteq Parties
  BY Zenon DEF Honest
<1> QED  BY <1>3, <1>4, <1>5, <1>7, <1>8, <1>9, <1>10, IngestKeeps DEF Next

-----------------------------------------------------------------------------
(* Theorems *)

\* IInv holds of every reachable state, for any nodes, orders and bundles.
THEOREM Invariant == Spec => []IInv
BY InitSound, NextKeeps, PTL DEF Spec

\* A reservation carries at most one admitted order (durable reservation_claims):
\* both orders' records at one node would need the same claim.
THEOREM OncePerReservation == Spec => []AdmittedOncePerReservation
<1>1. ASSUME IInv PROVE AdmittedOncePerReservation
  <2> SUFFICES ASSUME NEW m \in admitted, NEW k \in admitted, Native(m), Hold[m[1]] = Hold[k[1]]
               PROVE  m = k
    BY Zenon DEF AdmittedOncePerReservation
  <2>1. 0 \in Parties
    BY SMTT(30), EdgeOrderAssumption DEF Parties
  <2>2. ASSUME NEW j \in admitted, Native(j)
        PROVE  store[0].claims[Hold[j[1]]] = j
    <3>1. PICK r \in answers : r.party = 0 /\ r.bundle.manifest = j
      BY Zenon, <1>1, <2>1 DEF IInv, AdmittedSound
    <3>2. j \in DOMAIN store[0].records
      BY Zenon, <1>1, <3>1 DEF IInv, AnswerSound, Holds
    <3> QED  BY <1>1, <2>1, <2>2, <3>2 DEF IInv, StoreSound, RecordSound
  <2>3. Native(k)
    BY Zenon DEF Native
  <2> QED  BY <2>2, <2>3
<1> QED  BY <1>1, Invariant, PTL

\* A restarted node can pin its trust again, and repeats every receipt
\* (pin_reservation_trust, NodeRpcServer::start, admission_receipt).
THEOREM ReceiptsSurvive == Spec => []RestartKeepsReceipts
<1>1. ASSUME IInv PROVE RestartKeepsReceipts
  <2>1. ASSUME NEW n \in Honest PROVE Recoverable(n) /\ ReceiptsInOrder(n)
    <3>1. StoreSound(n, store[n])
      BY Zenon, <1>1, <2>1 DEF IInv, Honest
    <3>2. Recoverable(n)
      BY Zenon, <3>1 DEF StoreSound, RecordSound, Recoverable, Claimed
    <3>3. ReceiptsInOrder(n)
      BY Zenon, <3>1 DEF StoreSound, RecordSound, ReceiptsInOrder
    <3> QED  BY <3>2, <3>3
  <2>2. ASSUME NEW r \in answers, NEW q \in answers, r.party = q.party, r.bundle = q.bundle PROVE r = q
    <3>1. /\ r = Receipt(r.party, r.bundle, r.generation) /\ q = Receipt(q.party, q.bundle, q.generation)
          /\ store[r.party].records[r.bundle.manifest].receipts = {r.generation}
          /\ store[q.party].records[q.bundle.manifest].receipts = {q.generation}
      BY Zenon, <1>1 DEF IInv, AnswerSound
    <3>2. r.generation = q.generation
      BY Zenon, <2>2, <3>1
    <3> QED  BY Zenon, Zenon, <2>2, <3>1, <3>2
  <2> QED  BY <2>1, <2>2 DEF RestartKeepsReceipts
<1> QED  BY <1>1, Invariant, PTL

\* The answer of a corrupt node that passes the Feldman check is its key share.
LEMMA CorruptAnswer ==
    ASSUME IInv, NEW m \in Manifests, NEW n \in Parties, NEW r \in CorruptShare(n, m),
           ReleaseVerified(r, m, now)
    PROVE  n \in Corrupt /\ r = [party |-> n, commitment |-> m, value |-> KeyShare[m][n]]
<1>1. PICK b : b = store[n].records[m].bundle
  OBVIOUS
<1>2. n \in Corrupt /\ Holds(n, m)
  BY Zenon DEF CorruptShare
<1>3. b \in Bundles
  BY Zenon, <1>1, <1>2 DEF IInv, StoreSound, RecordSound, Holds
<1>4. PICK body : body = SealedKeyShare[b][n].clear.body
  OBVIOUS
<1>5. \E v : body = [party |-> n, commitment |-> b.manifest, value |-> v]
  BY Zenon, <1>3, <1>4 DEF SealedKeyShare, Seal, Frame, CapabilityKeyShare
<1>6. \E v : r = [party |-> n, commitment |-> b.manifest, value |-> v]
  BY SMTT(30), <1>1, <1>2, <1>4, <1>5 DEF CorruptShare, NodeRelease
<1> QED  BY <1>2, <1>6 DEF ReleaseVerified, KeyShareVerified

\* Too few corrupt nodes to open an order alone: without an authorized round the
\* verified releases are the corrupt nodes' own key shares, one for each of them
\* at most (release_capability_key_share, NodeCapabilityRelease::verify).
THEOREM StaysSealed == Spec => []UnmatchedStaysSealed
<1>1. ASSUME IInv PROVE UnmatchedStaysSealed
  <2> SUFFICES ASSUME NEW m \in Manifests, ~(result[m] = TRUE /\ completed[m] # {})
               PROVE  ~(Cardinality(RoundReleases(m, now)) >= Threshold)
    BY Zenon DEF UnmatchedStaysSealed
  <2>1. PICK R : R = RoundReleases(m, now)
    OBVIOUS
  <2>2. \A n \in Parties : ReleaseShare(n, m, now) = {}
    BY Zenon DEF ReleaseShare, Authorized
  <2>3. \A r \in R : \E n \in Parties : r \in CorruptShare(n, m) /\ ReleaseVerified(r, m, now)
    BY Zenon, <2>1, <2>2 DEF RoundReleases
  <2>4. \A r \in R : r.party \in Corrupt /\ r = [party |-> r.party, commitment |-> m, value |-> KeyShare[m][r.party]]
    BY <1>1, <2>3, CorruptAnswer
  <2>5. PICK f : f = [r \in R |-> r.party]
    BY Zenon
  <2>6. f \in [R -> Corrupt] /\ \A r, q \in R : f[r] = f[q] => r = q
    BY Zenon, <2>4, <2>5
  <2>7. f \in Injection(R, Corrupt)
    BY Zenon, <2>6 DEF Injection, IsInjective
  <2>8. IsFiniteSet(Corrupt) /\ Cardinality(Corrupt) \in Nat
    <3>0. 0 \in Int /\ Size - 1 \in Int
      BY EdgeOrderAssumption
    <3>1. IsFiniteSet(0..(Size - 1))
      BY Zenon, <3>0, FS_Interval
    <3> QED  BY Zenon, <3>1, FS_Subset, FS_CardinalityType, EdgeOrderAssumption
  <2>9. Cardinality(R) <= Cardinality(Corrupt) /\ Cardinality(R) \in Nat
    BY Zenon, <2>7, <2>8, FS_Injection, FS_CardinalityType
  <2> QED  BY <2>1, <2>8, <2>9, EdgeOrderAssumption DEF Threshold
<1> QED  BY <1>1, Invariant, PTL

=============================================================================
