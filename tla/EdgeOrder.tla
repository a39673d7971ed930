----------------------------- MODULE EdgeOrder -----------------------------
(***************************************************************************)
(* A participant's order on its way into the committee and its authority   *)
(* on the way out: EdgeOrderBundle cuts the private fields into verifiable *)
(* shares and seals one share and one key share to each node, the nodes    *)
(* check and store them and sign receipts, and three of them later release *)
(* the key under which the settlement authority was sealed.                *)
(*                                                                         *)
(* Hashes and signatures are injective: a manifest's commitment is the     *)
(* order together with the random draw.  A Pedersen commitment is the pair *)
(* it commits to, a Feldman commitment its exponent; scalars live in the   *)
(* prime field of size P, with P above the number of nodes.                *)
(***************************************************************************)
EXTENDS Integers, FiniteSets, FiniteSetsExt, Functions

CONSTANTS
    Orders,      \* private orders
    Manifests,   \* <<order, draw>>: an order cut into shares with one outcome of the random generator
    Random,      \* Random[draw][name][i]: the i-th scalar drawn for name, values before blindings
    Secret,      \* Secret[order][field]: the values the order hides
    Blinding,    \* Blinding[order][field]: side and reserve blindings of its permit
    Hold,        \* Hold[order]: the reservation nullifier, or None (legacy order)
    Deadline,    \* Deadline[order]: retention deadline
    Size,        \* MPC_PARTIES
    Corrupt,     \* nodes that admit orders but answer for their key shares as they like
    Slips,       \* [manifest, party, part]: a share that other software evaluates wrongly
    P, None,
    MaxBundles, MaxRounds, MaxTime, MaxRestarts

Threshold == 3

ASSUME EdgeOrderAssumption ==
    /\ Size \in Nat \ {0} /\ P > Size
    /\ \A m \in Manifests : m[1] \in Orders /\ m[2] \in DOMAIN Random
    /\ Corrupt \subseteq 0..(Size - 1) /\ Cardinality(Corrupt) < Threshold
    /\ \A x \in 1..(P - 1) : \E y \in 1..(P - 1) : (x * y) % P = 1

VARIABLES
    bundles,     \* what participants created: a manifest and what was evaluated wrongly
    store,       \* each node's durable share store; its generation counts admissions, not
                 \* the rounds and commands that raise it as well
    pinned,      \* nodes that pinned the reservation trust since they started
    answers,     \* admission receipts the nodes returned
    admitted,    \* commitments whose EdgeAdmissionReceipt is complete
    result,      \* whether the round of an order authorizes its release
    completed,   \* completed[m]: nodes that recorded that round
    certified,   \* orders whose cancellation or expiry every node accepted
    opened,      \* authorities the settlement side opened
    now, restarts

vars == <<bundles, store, pinned, answers, admitted, result, completed, certified,
          opened, now, restarts>>
market == <<result, completed, certified>>

Parties == 0..(Size - 1)
Honest == Parties \ Corrupt
Coefficients == 0..(Threshold - 1)
MatchFields == {"side", "price"}
SettlementFields == {"handle", "reserve"}
Fields == MatchFields \cup SettlementFields

Native(m) == Hold[m[1]] # None

Init ==
    /\ bundles = {}
    /\ store = [n \in Parties |-> [generation |-> 0, records |-> << >>, claims |-> << >>]]
    /\ pinned = Parties
    /\ answers = {} /\ admitted = {}
    /\ result = [m \in Manifests |-> None]
    /\ completed = [m \in Manifests |-> {}]
    /\ certified = {} /\ opened = {}
    /\ now = 0 /\ restarts = 0

-----------------------------------------------------------------------------
(* Verifiable secret sharing *)

Evaluate(coefficients, x) ==
    (coefficients[0] + coefficients[1] * x + coefficients[2] * x * x) % P

\* order_values: the shared constant terms; the reserve and the handle are
\* shared only by the settlement-capable constructors.
OrderValues(o, f) == Secret[o][f]

ValueCoefficients(m, f) ==
    [k \in Coefficients |-> IF k = 0 THEN OrderValues(m[1], f) ELSE Random[m[2]][f][k]]

\* The handle is shared without blinding; the side and the reserve of a native
\* order keep the blinding under which the permit committed to them.
BlindingCoefficients(m, f) ==
    [k \in Coefficients |->
        CASE f = "handle" -> 0
          [] f \in {"side", "reserve"} /\ Native(m) /\ k = 0 -> Blinding[m[1]][f]
          [] OTHER -> Random[m[2]][f][Threshold + k]]

KeyCoefficients(m) == Random[m[2]]["key"]

Commit(value, blinding) == <<value, blinding>>

FieldCommitments == [m \in Manifests, f \in Fields |->
    [k \in Coefficients |-> Commit(ValueCoefficients(m, f)[k], BlindingCoefficients(m, f)[k])]]

FieldShare == [m \in Manifests, p \in Parties, f \in Fields |->
    [value |-> Evaluate(ValueCoefficients(m, f), p + 1),
     blinding |-> Evaluate(BlindingCoefficients(m, f), p + 1)]]

\* The commitment to party p's share, computed from those to the coefficients.
CommittedShare == [m \in Manifests, p \in Parties, f \in Fields |->
    Commit(Evaluate([k \in Coefficients |-> FieldCommitments[m, f][k][1]], p + 1),
           Evaluate([k \in Coefficients |-> FieldCommitments[m, f][k][2]], p + 1))]

KeyShare == [m \in Manifests |-> [p \in Parties |-> Evaluate(KeyCoefficients(m), p + 1)]]

SharedFields(m) == MatchFields \cup (IF Native(m) THEN SettlementFields ELSE {})

-----------------------------------------------------------------------------
(* Manifests and the reservation admission they name *)

\* The redacted certificate DeFMI signed for a reservation of this order.
Admission(o) ==
    [order |-> o, nullifier |-> Hold[o], valid_until |-> Deadline[o],
     side |-> Commit(OrderValues(o, "side"), Blinding[o]["side"]),
     reserve |-> Commit(OrderValues(o, "reserve"), Blinding[o]["reserve"]),
     handle |-> Commit(OrderValues(o, "handle"), 0)]

\* manifest.verify: a live deadline and no zero key or handle.
ManifestVerified(m, t) ==
    /\ t <= Deadline[m[1]]
    /\ KeyCoefficients(m)[0] # 0
    /\ Native(m) => FieldCommitments[m, "handle"][0] # Commit(0, 0)

AdmissionBound(admission, m) ==
    /\ admission.order = m[1]
    /\ admission.handle = FieldCommitments[m, "handle"][0]
    /\ admission.reserve = FieldCommitments[m, "reserve"][0]
    /\ admission.side = FieldCommitments[m, "side"][0]
    /\ admission.valid_until >= Deadline[m[1]]

\* verified_reservation_admission; the pinned venue and signer are DeFMI's own.
AdmissionVerified(share, m, t) ==
    /\ share.admission # {}
    /\ \A a \in share.admission : t <= a.valid_until /\ AdmissionBound(a, m)

-----------------------------------------------------------------------------
(* Shares, key shares and their envelopes *)

PartyOrderShare(m, p) ==
    [party |-> p, commitment |-> m, fields |-> [f \in SharedFields(m) |-> FieldShare[m, p, f]],
     admission |-> IF Native(m) THEN {Admission(m[1])} ELSE {}]

\* Mutant: only the fields the matching circuit reads are checked.
ShareVerifiedMatchOnly(share, m, p, t) ==
    /\ ManifestVerified(m, t)
    /\ share.party = p /\ share.commitment = m
    /\ \A f \in MatchFields :
         Commit(share.fields[f].value, share.fields[f].blinding) = CommittedShare[m, p, f]

ShareVerified(share, m, p, t) ==
    /\ ManifestVerified(m, t)
    /\ share.party = p /\ share.commitment = m
    /\ DOMAIN share.fields = SharedFields(m)
    /\ \A f \in SharedFields(m) :
         Commit(share.fields[f].value, share.fields[f].blinding) = CommittedShare[m, p, f]

CapabilityKeyShare(m, p) ==
    [party |-> p, commitment |-> m, value |-> KeyShare[m][p]]

\* Mutant: the Feldman check of the key share is left out.
KeyShareVerifiedUnchecked(share, m, p, t) ==
    ManifestVerified(m, t) /\ share.party = p /\ share.commitment = m

KeyShareVerified(share, m, p, t) ==
    /\ ManifestVerified(m, t)
    /\ share.party = p /\ share.commitment = m
    /\ share.value = KeyShare[m][p]

\* A padded frame of fixed size; its domain tag tells what it holds.
Frame(domain, body) == [domain |-> domain, body |-> body]
Unframe(domain, frame) == IF frame.domain = domain THEN {frame.body} ELSE {}

\* Hybrid encryption to one node.
Seal(domain, body, recipient) ==
    [party |-> body.party, commitment |-> body.commitment, recipient |-> recipient, clear |-> Frame(domain, body)]

\* Party, commitment and recipient enter the derived key and the associated data:
\* decryption fails for any other.
Decrypt(envelope, m, p) ==
    IF envelope.party = p /\ envelope.recipient = p /\ envelope.commitment = m THEN {envelope.clear} ELSE {}

OpenShare(envelope, m, p, t) ==
    {s \in UNION {Unframe("share", c) : c \in Decrypt(envelope, m, p)} : ShareVerified(s, m, p, t)}

OpenKeyShare(envelope, m, p, t) ==
    {s \in UNION {Unframe("key", c) : c \in Decrypt(envelope, m, p)} : KeyShareVerified(s, m, p, t)}

-----------------------------------------------------------------------------
(* EdgeOrderBundle *)

\* create_inner: the permit's commitments must be the polynomials' constants.
Creatable(m) ==
    /\ ManifestVerified(m, 0)
    /\ Native(m) => AdmissionBound(Admission(m[1]), m)
    /\ \A p \in Parties : ShareVerified(PartyOrderShare(m, p), m, p, 0)

\* Software other than EdgeOrderBundle may have evaluated one share wrongly.
Slipped(b, p, part) == IF [manifest |-> b.manifest, party |-> p, part |-> part] \in b.slips THEN 1 ELSE 0

Bundles == {[manifest |-> m, slips |-> {}] : m \in Manifests} \cup {[manifest |-> s.manifest, slips |-> {s}] : s \in Slips}

SealedShare == [b \in Bundles |-> [p \in Parties |->
    Seal("share", [PartyOrderShare(b.manifest, p) EXCEPT !.fields =
            [f \in DOMAIN @ |-> [@[f] EXCEPT !.value = (@ + Slipped(b, p, f)) % P]]], p)]]

SealedKeyShare == [b \in Bundles |-> [p \in Parties |->
    Seal("key", [CapabilityKeyShare(b.manifest, p) EXCEPT !.value = (@ + Slipped(b, p, "key")) % P], p)]]

Bundled(b) ==
    /\ Cardinality(bundles) < MaxBundles
    /\ now <= Deadline[b.manifest[1]]
    /\ \A other \in bundles : other.manifest # b.manifest
    /\ bundles' = bundles \cup {b}
    /\ UNCHANGED <<store, pinned, answers, admitted, market, opened, now, restarts>>

Create(m) == Creatable(m) /\ Bundled([manifest |-> m, slips |-> {}])

CreateElsewhere(slip) == Bundled([manifest |-> slip.manifest, slips |-> {slip}])

\* PreparedEdgeDelivery.validate, checked before each attempt at delivery: every
\* envelope is addressed to its node and names this manifest.
ValidDelivery(b, t) ==
    /\ ManifestVerified(b.manifest, t)
    /\ \A p \in Parties : \A e \in {SealedShare[b][p], SealedKeyShare[b][p]} :
         e.party = p /\ e.recipient = p /\ e.commitment = b.manifest

-----------------------------------------------------------------------------
(* The node: ingest, receipts, restart *)

Holds(n, m) == m \in DOMAIN store[n].records

Blocked(m) == m \in certified

\* Mutant: a permit issued again for another order is taken as new.
ClaimIgnored(n, m) == TRUE

\* One reservation authorizes one commitment at this node, also when its permit
\* was issued again.
ClaimFree(n, m) ==
    Hold[m[1]] \in DOMAIN store[n].claims => store[n].claims[Hold[m[1]]] = m

\* Node n's share of the bundle opens and carries a valid permit.
Permitted(n, b, m, t) == \E share \in OpenShare(SealedShare[b][n], m, n, t) : AdmissionVerified(share, m, t)

\* The reservation of the manifest is claimed for it.
Claimed(n, m) == Hold[m[1]] \in DOMAIN store[n].claims /\ store[n].claims[Hold[m[1]]] = m

Acceptable(n, b, t) ==
    /\ ~Blocked(b.manifest)
    /\ OpenShare(SealedShare[b][n], b.manifest, n, t) # {}
    /\ Native(b.manifest) =>
         n \in pinned /\ Permitted(n, b, b.manifest, t) /\ ClaimFree(n, b.manifest)
    /\ OpenKeyShare(SealedKeyShare[b][n], b.manifest, n, t) # {}

\* NodeAdmissionReceipt names the node, the ciphertexts (those of bundle b) and
\* the generation at which it was first signed.
Receipt(n, b, generation) == [party |-> n, bundle |-> b, generation |-> generation]

\* A map with a key inserted or overwritten.
Insert(f, key, value) == [k \in DOMAIN f \cup {key} |-> IF k = key THEN value ELSE f[k]]

\* The record with the ciphertexts; a receipt is kept by its generation.
Stored(n, b, receipts) ==
    [generation |-> store[n].generation + 1,
     records |-> Insert(store[n].records, b.manifest,
                        [bundle |-> b, admitted_at |-> now, receipts |-> receipts]),
     claims |-> IF Native(b.manifest) THEN Insert(store[n].claims, Hold[b.manifest[1]], b.manifest)
                ELSE store[n].claims]

\* The stored record with the receipt that answers for it.
Receipted(n, m, g) ==
    [generation |-> store[n].generation,
     records |-> Insert(store[n].records, m,
                        [bundle |-> store[n].records[m].bundle,
                         admitted_at |-> store[n].records[m].admitted_at, receipts |-> {g}]),
     claims |-> store[n].claims]

Ingesting(n, b) == ValidDelivery(b, now) /\ Acceptable(n, b, now)

\* The record is durable and the process dies before it signs the receipt.
IngestCutShort(n, b) ==
    /\ restarts < MaxRestarts /\ ~Holds(n, b.manifest) /\ Ingesting(n, b)
    /\ store' = [store EXCEPT ![n] = Stored(n, b, {})]
    /\ pinned' = pinned \ {n} /\ restarts' = restarts + 1
    /\ UNCHANGED <<bundles, answers, admitted, market, opened, now>>

\* Mutant: every retry is answered with a newly signed receipt.
ReceiptAnew(n, b) ==
    IF Holds(n, b.manifest) THEN store[n].generation ELSE store[n].generation + 1

\* admission_receipt: a receipt is signed once and repeated afterwards.
AdmissionReceipt(n, b) ==
    IF ~Holds(n, b.manifest) THEN store[n].generation + 1
    ELSE IF store[n].records[b.manifest].receipts = {} THEN store[n].generation
    ELSE CHOOSE g \in store[n].records[b.manifest].receipts : TRUE

\* The Ingest request: stored, or already present with the same ciphertexts.
Ingest(n, b) ==
    /\ Ingesting(n, b)
    /\ Holds(n, b.manifest) => store[n].records[b.manifest].bundle = b
    /\ \E g \in {AdmissionReceipt(n, b)} :
         /\ store' = [store EXCEPT ![n] =
                IF Holds(n, b.manifest) THEN Receipted(n, b.manifest, g) ELSE Stored(n, b, {g})]
         /\ answers' = answers \cup {Receipt(n, b, g)}
    /\ UNCHANGED <<bundles, pinned, admitted, market, opened, now, restarts>>

\* submit_prepared: all nodes acknowledged these ciphertexts. Receipts do not
\* change between attempts, so those of earlier attempts stand for a retry's.
Admit(b) ==
    /\ ValidDelivery(b, now)
    /\ \A p \in Parties : \E r \in answers : r.party = p /\ r.bundle = b
    /\ b.manifest \notin admitted
    /\ admitted' = admitted \cup {b.manifest}
    /\ UNCHANGED <<bundles, store, pinned, answers, market, opened, now, restarts>>

Restart(n) ==
    /\ restarts < MaxRestarts
    /\ pinned' = pinned \ {n} /\ restarts' = restarts + 1
    /\ UNCHANGED <<bundles, store, answers, admitted, market, opened, now>>

\* pin_reservation_trust: every native record is checked as of its admission,
\* and its reservation must still be claimed for it.
Recoverable(n) ==
    \A m \in DOMAIN store[n].records : Native(m) =>
        Permitted(n, store[n].records[m].bundle, m, store[n].records[m].admitted_at) /\ Claimed(n, m)

\* NodeRpcServer::start: the receipts it will repeat are its own and not of a
\* later generation than the store.
ReceiptsInOrder(n) ==
    \A m \in DOMAIN store[n].records : \A g \in store[n].records[m].receipts : g <= store[n].generation

PinTrust(n) ==
    /\ n \notin pinned
    /\ Recoverable(n) /\ ReceiptsInOrder(n)
    /\ pinned' = pinned \cup {n}
    /\ UNCHANGED <<bundles, store, answers, admitted, market, opened, now, restarts>>

-----------------------------------------------------------------------------
(* The round and the release of the key *)

\* record_completed_round: the agreed result either fills or rests the order, or
\* leaves an unmatched immediate-or-cancel order without any authority.
Complete(n, m) ==
    /\ m \in admitted /\ n \notin completed[m] /\ now <= Deadline[m[1]]
    /\ Holds(n, m) /\ ~Blocked(m)
    /\ \E authorized \in BOOLEAN :
         /\ IF result[m] = None THEN Cardinality({k \in Manifests : result[k] # None}) < MaxRounds
            ELSE authorized = result[m]
         /\ result' = [result EXCEPT ![m] = authorized]
    /\ completed' = [completed EXCEPT ![m] = @ \cup {n}]
    /\ UNCHANGED <<bundles, store, pinned, answers, admitted, certified, opened, now, restarts>>

\* Mutant: any completed round releases, an unmatched order's too.
AuthorizedByReceipt(n, m) == n \in completed[m]

Authorized(n, m) == n \in completed[m] /\ result[m] = TRUE

\* NodeCapabilityRelease.
NodeRelease(share) == [party |-> share.party, commitment |-> share.commitment, value |-> share.value]

\* release_capability_key_share: record, pinned permit and claim are looked at again.
ReleaseShare(n, m, t) ==
    IF /\ Authorized(n, m)
       /\ Holds(n, m)
       /\ Native(m) => n \in pinned /\ Permitted(n, store[n].records[m].bundle, m, t) /\ Claimed(n, m)
    THEN {NodeRelease(s) : s \in OpenKeyShare(SealedKeyShare[store[n].records[m].bundle][n], m, n, t)}
    ELSE {}

\* order_lifecycle: a cancellation or an expiry is ordered and every node accepts
\* its certificate; the coordinator stops at the first one that does not.
ApplyLifecycle(m) ==
    /\ Native(m) /\ m \in admitted /\ ~Blocked(m)
    /\ \A n \in Parties : Holds(n, m)
    /\ certified' = certified \cup {m}
    /\ UNCHANGED <<bundles, store, pinned, answers, admitted, result, completed, opened, now, restarts>>

\* lifecycle_share opens as of the admission, since the order may have expired.
LifecycleShare(n, m) ==
    IF Blocked(m) /\ Holds(n, m)
    THEN {NodeRelease(s) : s \in OpenKeyShare(SealedKeyShare[store[n].records[m].bundle][n], m, n, store[n].records[m].admitted_at)}
    ELSE {}

\* A corrupt node answers with its key share, or with another value, at any time.
CorruptShare(n, m) ==
    IF n \in Corrupt /\ Holds(n, m)
    THEN {NodeRelease([SealedKeyShare[store[n].records[m].bundle][n].clear.body EXCEPT !.value = (@ + slip) % P]) : slip \in {0, 1}}
    ELSE {}

\* The signed release names this order and its share lies on the key polynomial.
ReleaseVerified(r, m, t) == r.commitment = m /\ KeyShareVerified(r, m, r.party, t)

RoundReleases(m, t) ==
    {r \in UNION {ReleaseShare(n, m, t) \cup CorruptShare(n, m) : n \in Parties} : ReleaseVerified(r, m, t)}

LifecycleReleases(m) ==
    {r \in UNION {LifecycleShare(n, m) \cup CorruptShare(n, m) : n \in Parties} :
        ReleaseVerified(r, m, Deadline[m[1]])}

Reciprocal(x) == CHOOSE y \in 1..(P - 1) : (x * y) % P = 1

Groups == {g \in SUBSET Parties : Cardinality(g) >= Threshold}

\* Lagrange's coefficients at zero for a group of parties.
Lagrange == [group \in Groups |-> [p \in group |->
    MapThenFoldSet(LAMBDA x, y : (x * y) % P, 1,
        LAMBDA q : ((P - q - 1) * Reciprocal((p - q) % P)) % P,
        LAMBDA s : CHOOSE x \in s : TRUE, group \ {p})]]

Interpolate(value) == MapThenSumSet(LAMBDA p : value[p] * Lagrange[DOMAIN value][p], DOMAIN value) % P

\* reconstruct_settlement_capability_key: at least three distinct verified shares,
\* and the secret must be the committed one.
Reconstruct(m, releases, t) ==
    IF /\ ManifestVerified(m, t)
       /\ Cardinality(releases) >= Threshold
       /\ \A r, s \in releases : r.party = s.party => r = s
       /\ \A r \in releases : ReleaseVerified(r, m, t)
    THEN {k \in {Interpolate([p \in {r.party : r \in releases} |-> (CHOOSE r \in releases : r.party = p).value])} :
             k # 0 /\ k = KeyCoefficients(m)[0]}
    ELSE {}

\* The two authorities sealed under the key: the admission with its permit, or, for
\* a legacy order, the order and the constant blindings.
SealReservationAuthority(m) ==
    [commitment |-> m, key |-> KeyCoefficients(m)[0], clear |-> Frame("reservation", Admission(m[1]))]

SealSettlementCapability(m) ==
    [commitment |-> m, key |-> KeyCoefficients(m)[0], clear |-> Frame("capability",
        [order |-> m[1], blindings |-> [f \in MatchFields |-> BlindingCoefficients(m, f)[0]]])]

VerifyConstantTerms(o, blindings, m) ==
    \A f \in MatchFields : Commit(OrderValues(o, f), blindings[f]) = FieldCommitments[m, f][0]

OpenReservationAuthority(e, m, key, t) ==
    {a \in IF e.commitment = m /\ e.key = key THEN Unframe("reservation", e.clear) ELSE {} :
        t <= a.valid_until /\ AdmissionBound(a, m)}

OpenSettlementCapability(e, m, key) ==
    {a \in IF e.commitment = m /\ e.key = key THEN Unframe("capability", e.clear) ELSE {} :
        VerifyConstantTerms(a.order, a.blindings, m)}

Opens(m, key, t) ==
    IF Native(m) THEN OpenReservationAuthority(SealReservationAuthority(m), m, key, t) # {}
    ELSE OpenSettlementCapability(SealSettlementCapability(m), m, key) # {}

Open(m, releases, t) ==
    /\ m \notin opened
    /\ \E key \in Reconstruct(m, releases, t) : Opens(m, key, t)
    /\ opened' = opened \cup {m}
    /\ UNCHANGED <<bundles, store, pinned, answers, admitted, market, now, restarts>>

\* collect_threshold_capability_release, then open or open_reservation: the
\* settlement side uses whichever verified answers arrived.
CollectRelease(m) ==
    /\ result[m] = TRUE /\ now <= Deadline[m[1]]
    /\ \E releases \in SUBSET RoundReleases(m, now) : Open(m, releases, now)

\* release_authority over the answers of order_lifecycle.
CollectLifecycle(m) ==
    /\ m \in certified
    /\ Open(m, LifecycleReleases(m), Deadline[m[1]])

Tick ==
    /\ now < MaxTime
    /\ now' = now + 1
    /\ UNCHANGED <<bundles, store, pinned, answers, admitted, market, opened, restarts>>

Next ==
    \/ \E m \in Manifests : Create(m)
    \/ \E slip \in Slips : CreateElsewhere(slip)
    \/ \E b \in bundles : Admit(b)
    \/ \E n \in Parties, b \in bundles : Ingest(n, b)
    \/ \E n \in Honest, b \in bundles : IngestCutShort(n, b)
    \/ \E n \in Honest : Restart(n)
    \/ \E n \in Honest : PinTrust(n)
    \/ \E n \in Honest, m \in Manifests : Complete(n, m)
    \/ \E m \in Manifests : ApplyLifecycle(m)
    \/ \E m \in Manifests : CollectRelease(m)
    \/ \E m \in Manifests : CollectLifecycle(m)
    \/ Tick

Spec == Init /\ [][Next]_vars

-----------------------------------------------------------------------------
(* Properties *)

\* Every admitted order rests at every node in shares of one polynomial: any
\* three nodes' stored shares of any field interpolate to the order's own value,
\* whatever other participants' software sealed (PartyOrderShare::verify).
SharesDetermineOrder ==
    \A m \in admitted : \A group \in Groups :
        (\A n \in group : Holds(n, m)) =>
            \A f \in SharedFields(m) :
                Interpolate([n \in group |-> SealedShare[store[n].records[m].bundle][n].clear.body.fields[f].value])
                  = OrderValues(m[1], f)

\* A reservation carries at most one admitted order, also when the order was cut
\* into shares again after a partial delivery or its permit was reissued for
\* another order (the durable reservation_claims).
AdmittedOncePerReservation ==
    \A m, k \in admitted : Native(m) /\ Hold[m[1]] = Hold[k[1]] => m = k

\* Two corrupt nodes cannot open an order alone: enough verified key shares exist
\* only after an honest node recorded a round whose result fills or rests the
\* order; an unmatched immediate-or-cancel order stays sealed
\* (release_capability_key_share).
UnmatchedStaysSealed ==
    \A m \in Manifests : Cardinality(RoundReleases(m, now)) >= Threshold =>
        result[m] = TRUE /\ completed[m] # {}

\* Whoever may open a settlement authority can: any three releases that pass the
\* settlement side's checks give the key, whichever nodes sent them and whatever a
\* corrupt node answered (collect_threshold_capability_release); and when every
\* node accepted a cancellation or an expiry, the shares kept for it give the key,
\* also after the order expired and after restarts (lifecycle_share).
EntitledOpens ==
    /\ \A m \in admitted : now <= Deadline[m[1]] =>
        \A releases \in SUBSET RoundReleases(m, now) : Cardinality(releases) >= Threshold =>
            \E key \in Reconstruct(m, releases, now) : Opens(m, key, now)
    /\ \A m \in certified :
        \E key \in Reconstruct(m, LifecycleReleases(m), Deadline[m[1]]) : Opens(m, key, Deadline[m[1]])

\* A node that stops can start and pin its trust again, although stored orders
\* may have expired (pin_reservation_trust, NodeRpcServer::start), and it answers
\* every delivery of the same ciphertexts with the same receipt, across retries,
\* other admissions and a crash between the record and the receipt
\* (admission_receipt).
RestartKeepsReceipts ==
    /\ \A n \in Honest : Recoverable(n) /\ ReceiptsInOrder(n)
    /\ \A r, q \in answers : r.party = q.party /\ r.bundle = q.bundle => r = q
====
