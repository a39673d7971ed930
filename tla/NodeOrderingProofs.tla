------------------------- MODULE NodeOrderingProofs -------------------------
(***************************************************************************)
(* Proofs about NodeOrdering for every committee, quorum, set of           *)
(* commitments and clock bound that satisfies OrderingAssumption.          *)
(***************************************************************************)
EXTENDS NodeOrdering, FiniteSetTheorems, SequenceTheorems, TLAPS

-----------------------------------------------------------------------------
(* The inductive invariant *)

\* One honest node never has two live signatures for one sequence number.
VotesUnique ==
    \A v, w \in signed :
        /\ v[1] = w[1]
        /\ v[2].sequence = w[2].sequence
        /\ now <= v[2].expires_at /\ now <= w[2].expires_at
        => v[2] = w[2]

\* A stored vote is for the next sequence number, and the vote a running node
\* would sign again is also the one its file holds, unless it has expired.
StoredVotes ==
    \A n \in Honest :
        /\ \A state \in {mem[n], disk[n]} :
              state.ordering_vote # NoVote =>
                  state.ordering_vote.sequence = state.ordering_sequence + 1
        /\ mem[n].ordering_vote # NoVote =>
              ReleasedVoteRecorded(mem[n].ordering_vote, disk[n])

VotesInv == VotesDurable /\ VotesUnique /\ StoredVotes

\* The statement that the votes of the k-th certificate of a chain signed.
StatementAt(head, k) ==
    [sequence |-> k, commitment |-> head[k].commitment,
     previous |-> SubSeq(head, 1, k - 1), expires_at |-> head[k].expires_at]

\* Every certificate of a chain has its quorum of signatures.
ChainCertified(state) ==
    /\ state.ordering_sequence = Len(state.ordering_head)
    /\ \A k \in 1 .. Len(state.ordering_head) :
          ValidVotes(StatementAt(state.ordering_head, k), state.ordering_head[k].votes)

ChainsCertified ==
    \A n \in Honest : ChainCertified(mem[n]) /\ ChainCertified(disk[n])

\* b continues a.
Continues(b, a) == Len(b) >= Len(a) /\ SubSeq(b, 1, Len(a)) = a

\* A save that failed after the rename leaves the file ahead of memory, never
\* behind it and never on another chain.
DiskContinuesMem ==
    \A n \in Honest : Continues(disk[n].ordering_head, mem[n].ordering_head)

-----------------------------------------------------------------------------
(* Quorums *)

\* Two ordering quorums share a node that is not corrupt: this is what the
\* policy's five of seven with at most two corrupt nodes is for.
LEMMA QuorumsShareHonest ==
    ASSUME NEW P \in SUBSET Nodes, NEW Q \in SUBSET Nodes,
           Cardinality(P) >= OrderingQuorum, Cardinality(Q) >= OrderingQuorum
    PROVE  \E n \in Honest : n \in P /\ n \in Q
<1>1. IsFiniteSet(Nodes) /\ IsFiniteSet(P) /\ IsFiniteSet(Q) /\ IsFiniteSet(Byzantine)
  BY Zenon, FS_Subset, OrderingAssumption
<1>2. /\ IsFiniteSet(P \cap Q)
      /\ Cardinality(P \cup Q) = Cardinality(P) + Cardinality(Q) - Cardinality(P \cap Q)
  BY Zenon, <1>1, FS_Union, FS_Intersection
<1>3. Cardinality(P \cup Q) <= Cardinality(Nodes)
  <2>1. P \cup Q \in SUBSET Nodes
    OBVIOUS
  <2> QED  BY <1>1, <2>1, FS_Subset
<1>4. /\ Cardinality(P) \in Nat /\ Cardinality(Q) \in Nat
      /\ Cardinality(P \cap Q) \in Nat /\ Cardinality(Nodes) \in Nat
      /\ Cardinality(Byzantine) \in Nat /\ Cardinality(P \cup Q) \in Nat
  BY Zenon, <1>1, <1>2, FS_CardinalityType, FS_Union
<1>5. Cardinality(P \cap Q) > Cardinality(Byzantine)
  BY <1>2, <1>3, <1>4, OrderingAssumption
<1>6. ~(P \cap Q \subseteq Byzantine)
  <2> SUFFICES ASSUME P \cap Q \subseteq Byzantine PROVE FALSE
    OBVIOUS
  <2>1. Cardinality(P \cap Q) <= Cardinality(Byzantine)
    BY Zenon, <1>1, FS_Subset
  <2> QED  BY <2>1, <1>4, <1>5
<1> QED  BY <1>6 DEF Honest

\* A quorum has an honest member.
LEMMA QuorumHasHonest ==
    ASSUME NEW Q \in SUBSET Nodes, Cardinality(Q) >= OrderingQuorum
    PROVE  \E n \in Honest : n \in Q
BY Zenon, QuorumsShareHonest

-----------------------------------------------------------------------------
(* Types *)

\* The states that record_order_vote and accept_order_certificate save are
\* well-typed.
LEMMA StateTypes ==
    ASSUME NEW state \in StoreState, NEW s \in Statement, NEW votes \in SUBSET Nodes
    PROVE  /\ VotedState(state, s) \in StoreState
           /\ AcceptedState(state, s, votes) \in StoreState
<1>1. VotedState(state, s) \in StoreState
  BY Zenon DEF VotedState, StoreState
<1>2. BlockOf(s, votes) \in Block
  BY Zenon DEF BlockOf, Block, Statement
<1>3. Append(s.previous, BlockOf(s, votes)) \in Seq(Block)
  BY Zenon, <1>2, AppendProperties DEF Statement
<1>4. AcceptedState(state, s, votes) \in StoreState
  BY Zenon, <1>3 DEF AcceptedState, StoreState, Statement
<1> QED  BY <1>1, <1>4

\* Nodes only ever save and restore states of the right type.
THEOREM TypeCorrect == Spec => []TypeOK
<1>1. Init => TypeOK
  BY DEF Init, TypeOK, EmptyState, StoreState
<1>2. TypeOK /\ [Next]_vars => TypeOK'
  <2> SUFFICES ASSUME TypeOK, [Next]_vars PROVE TypeOK'
    OBVIOUS
  <2>1. ASSUME NEW n \in Honest, NEW c \in Commitments, NEW e \in 0 .. MaxTime,
               Vote(n, NextStatement(n, c, e))
        PROVE  TypeOK'
    <3> DEFINE s == NextStatement(n, c, e)
    <3>1. s \in Statement
      BY OrderingAssumption DEF TypeOK, StoreState, NextStatement, Statement, Times
    <3> HIDE DEF s
    <3>2. mem[n] \in StoreState
      BY Zenon DEF TypeOK
    <3>3. VotedState(mem[n], s) \in StoreState
      BY Zenon, <3>1, <3>2, StateTypes
    <3> QED  BY <2>1, <3>1, <3>3 DEF Vote, Persisted, PersistFailed, TypeOK, s
  <2>2. ASSUME NEW n \in Honest, NEW s \in SignedStatements,
               NEW votes \in SUBSET Signers(s), AcceptCertificate(n, s, votes)
        PROVE  TypeOK'
    <3>1. s \in Statement /\ votes \in SUBSET Nodes /\ mem[n] \in StoreState
      BY Zenon, OrderingAssumption DEF TypeOK, SignedStatements, Signers, Honest
    <3>2. AcceptedState(mem[n], s, votes) \in StoreState
      BY Zenon, <3>1, StateTypes
    <3> QED  BY <2>2, <3>2 DEF AcceptCertificate, Persisted, PersistFailed, TypeOK
  <2>3. ASSUME NEW n \in Honest, Restart(n) PROVE TypeOK'
    BY Zenon, <2>3 DEF TypeOK, Restart
  <2>4. CASE Tick
    BY <2>4 DEF TypeOK, Tick
  <2>5. CASE UNCHANGED vars
    BY Zenon, <2>5 DEF TypeOK, vars
  <2> QED  BY <2>1, <2>2, <2>3, <2>4, <2>5 DEF Next
<1> QED  BY <1>1, <1>2, PTL DEF Spec

-----------------------------------------------------------------------------
(* Votes *)

\* Neither a new vote nor an accepted certificate makes a node forget a live
\* vote for the sequence number it is at.
LEMMA RecordedStep ==
    ASSUME NEW state \in StoreState, NEW s \in Statement, NEW t \in Statement,
           NEW votes, now \in Nat, Extends(state, s), VoteFree(state, s),
           ReleasedVoteRecorded(t, state)
    PROVE  /\ ReleasedVoteRecorded(t, VotedState(state, s))
           /\ ReleasedVoteRecorded(t, AcceptedState(state, s, votes))
<1>1. state.ordering_vote = t /\ t.sequence = state.ordering_sequence + 1 /\ t # s
        => t.expires_at < now
  <2>1. t.sequence = state.ordering_sequence + 1 => t # NoVote
    BY DEF NoVote, Statement, StoreState
  <2> QED  BY <2>1 DEF VoteFree, Statement, Times
<1>2. ReleasedVoteRecorded(t, VotedState(state, s))
  BY Zenon, <1>1 DEF ReleasedVoteRecorded, VotedState, StoreState
<1>3. ReleasedVoteRecorded(t, AcceptedState(state, s, votes))
  BY DEF ReleasedVoteRecorded, AcceptedState, StoreState, Statement, Extends
<1> QED  BY <1>2, <1>3

\* The vote just recorded is recorded.
LEMMA RecordedNew ==
    ASSUME NEW state \in StoreState, NEW s \in Statement, NEW votes, Extends(state, s)
    PROVE  /\ ReleasedVoteRecorded(s, VotedState(state, s))
           /\ ReleasedVoteRecorded(s, AcceptedState(state, s, votes))
BY DEF ReleasedVoteRecorded, VotedState, AcceptedState, StoreState, Statement, Extends

\* The votes of a node survive every step of record_order_vote.
LEMMA VoteKeepsVotes ==
    ASSUME TypeOK, VotesInv, NEW n \in Honest, NEW s \in Statement, Vote(n, s)
    PROVE  VotesInv'
<1> DEFINE new == VotedState(mem[n], s)
<1>1. /\ mem[n] \in StoreState /\ disk[n] \in StoreState /\ now \in Nat
      /\ Extends(mem[n], s) /\ VoteFree(mem[n], s) /\ now' = now
      /\ \A v \in signed : v[1] \in Honest /\ v[2] \in Statement
  BY Zenon DEF TypeOK, Vote
<1>2. /\ signed \subseteq signed' /\ signed' \subseteq signed \cup {<<n, s>>}
      /\ \A m \in Honest : m # n => mem'[m] = mem[m] /\ disk'[m] = disk[m]
  BY Zenon DEF Vote, Persisted, PersistFailed, TypeOK
<1>3. \/ /\ mem'[n] = new /\ disk'[n] = new
      \/ /\ mem[n].ordering_vote = s /\ mem'[n] = mem[n] /\ disk'[n] = disk[n]
      \/ /\ mem'[n] = mem[n] /\ disk'[n] \in {disk[n], new} /\ signed' = signed
  BY Zenon DEF Vote, Persisted, PersistFailed, TypeOK
<1>4. ASSUME NEW t \in Statement, ReleasedVoteRecorded(t, mem[n])
      PROVE  ReleasedVoteRecorded(t, new)
  BY Zenon, <1>1, <1>4, RecordedStep
<1>5. ReleasedVoteRecorded(s, new)
  BY Zenon, <1>1, RecordedNew
<1>6. new.ordering_vote = s /\ new.ordering_sequence = mem[n].ordering_sequence
      /\ s.sequence = mem[n].ordering_sequence + 1 /\ s # NoVote
  BY <1>1 DEF VotedState, StoreState, Extends, NoVote, Statement
<1> HIDE DEF new
<1>7. VotesDurable'
  <2> SUFFICES ASSUME NEW v \in signed'
               PROVE  /\ ReleasedVoteRecorded(v[2], mem'[v[1]])
                      /\ ReleasedVoteRecorded(v[2], disk'[v[1]])
    BY Zenon, <1>1 DEF VotesDurable, ReleasedVoteRecorded
  <2>1. CASE v \in signed
    BY Zenon, <2>1, <1>1, <1>2, <1>3, <1>4 DEF VotesInv, VotesDurable
  <2>2. CASE v = <<n, s>> /\ v \notin signed
    <3>1. mem[n].ordering_vote = s =>
             ReleasedVoteRecorded(s, mem[n]) /\ ReleasedVoteRecorded(s, disk[n])
      BY Zenon, <1>6 DEF VotesInv, StoredVotes, ReleasedVoteRecorded
    <3> QED  BY <2>2, <1>3, <1>5, <3>1
  <2> QED  BY <2>1, <2>2, <1>2
<1>8. VotesUnique'
  <2>1. ASSUME NEW t \in Statement, <<n, t>> \in signed, t.sequence = s.sequence,
               now <= t.expires_at
        PROVE  t = s
    <3>1. ReleasedVoteRecorded(t, mem[n])
      BY Zenon, <2>1 DEF VotesInv, VotesDurable
    <3>2. mem[n].ordering_vote = t
      BY <1>1, <1>6, <2>1, <3>1 DEF ReleasedVoteRecorded, StoreState, Statement, Times
    <3>3. t # NoVote
      BY <1>1, <1>6, <2>1 DEF NoVote, StoreState
    <3> QED  BY <1>1, <2>1, <3>2, <3>3 DEF VoteFree, Statement, Times
  <2> SUFFICES ASSUME NEW v \in signed', NEW w \in signed', v[1] = w[1],
                      v[2].sequence = w[2].sequence,
                      now <= v[2].expires_at, now <= w[2].expires_at
               PROVE  v[2] = w[2]
    BY Zenon, <1>1 DEF VotesUnique
  <2>2. \A u \in signed : u = <<u[1], u[2]>>
    BY DEF TypeOK
  <2>3. CASE v \in signed /\ w \in signed
    BY Zenon, <2>3 DEF VotesInv, VotesUnique
  <2>4. CASE v = <<n, s>> /\ w \in signed
    BY Zenon, <2>1, <2>2, <2>4, <1>1
  <2>5. CASE w = <<n, s>> /\ v \in signed
    BY Zenon, <2>1, <2>2, <2>5, <1>1
  <2> QED  BY <2>3, <2>4, <2>5, <1>2
<1>9. StoredVotes'
  <2> SUFFICES ASSUME NEW m \in Honest
               PROVE  /\ \A state \in {mem'[m], disk'[m]} :
                            state.ordering_vote # NoVote =>
                              state.ordering_vote.sequence = state.ordering_sequence + 1
                      /\ mem'[m].ordering_vote # NoVote =>
                            ReleasedVoteRecorded(mem'[m].ordering_vote, disk'[m])
    BY Zenon, <1>1 DEF StoredVotes, ReleasedVoteRecorded
  <2>1. CASE m # n
    BY <2>1, <1>2 DEF VotesInv, StoredVotes
  <2>2. CASE m = n
    <3>1. mem[n].ordering_vote # NoVote => mem[n].ordering_vote \in Statement
      BY Zenon, <1>1 DEF StoreState
    <3>2. mem[n].ordering_vote # NoVote => ReleasedVoteRecorded(mem[n].ordering_vote, mem[n])
      BY Zenon DEF VotesInv, StoredVotes, ReleasedVoteRecorded
    <3> QED  BY <2>2, <3>1, <3>2, <1>3, <1>4, <1>5, <1>6 DEF VotesInv, StoredVotes
  <2> QED  BY <2>1, <2>2
<1> QED  BY <1>7, <1>8, <1>9 DEF VotesInv

\* The votes of a node survive every step of accept_order_certificate.
LEMMA AcceptKeepsVotes ==
    ASSUME TypeOK, VotesInv, NEW n \in Honest, NEW s \in Statement,
           NEW votes, AcceptCertificate(n, s, votes)
    PROVE  VotesInv'
<1> DEFINE new == AcceptedState(mem[n], s, votes)
<1>1. /\ mem[n] \in StoreState /\ now \in Nat
      /\ Extends(mem[n], s) /\ VoteFree(mem[n], s) /\ now' = now /\ signed' = signed
      /\ \A v \in signed : v[1] \in Honest /\ v[2] \in Statement
  BY Zenon DEF TypeOK, AcceptCertificate
<1>2. \A m \in Honest : m # n => mem'[m] = mem[m] /\ disk'[m] = disk[m]
  BY Zenon DEF AcceptCertificate, Persisted, PersistFailed, TypeOK
<1>3. \/ mem'[n] = new /\ disk'[n] = new
      \/ mem'[n] = mem[n] /\ disk'[n] \in {disk[n], new}
  BY Zenon DEF AcceptCertificate, Persisted, PersistFailed, TypeOK
<1>4. ASSUME NEW t \in Statement, ReleasedVoteRecorded(t, mem[n])
      PROVE  ReleasedVoteRecorded(t, new)
  BY Zenon, <1>1, <1>4, RecordedStep
<1>5. new.ordering_vote = NoVote
  BY Zenon DEF AcceptedState
<1> HIDE DEF new
<1>6. VotesDurable'
  <2> SUFFICES ASSUME NEW v \in signed
               PROVE  /\ ReleasedVoteRecorded(v[2], mem'[v[1]])
                      /\ ReleasedVoteRecorded(v[2], disk'[v[1]])
    BY Zenon, <1>1 DEF VotesDurable, ReleasedVoteRecorded
  <2> QED  BY <1>1, <1>2, <1>3, <1>4 DEF VotesInv, VotesDurable
<1>7. VotesUnique'
  BY Zenon, <1>1 DEF VotesInv, VotesUnique
<1>8. StoredVotes'
  <2> SUFFICES ASSUME NEW m \in Honest
               PROVE  /\ \A state \in {mem'[m], disk'[m]} :
                            state.ordering_vote # NoVote =>
                              state.ordering_vote.sequence = state.ordering_sequence + 1
                      /\ mem'[m].ordering_vote # NoVote =>
                            ReleasedVoteRecorded(mem'[m].ordering_vote, disk'[m])
    BY Zenon, <1>1 DEF StoredVotes, ReleasedVoteRecorded
  <2>1. CASE m # n
    BY <2>1, <1>2 DEF VotesInv, StoredVotes
  <2>2. CASE m = n
    <3>1. mem[n].ordering_vote # NoVote => mem[n].ordering_vote \in Statement
      BY Zenon, <1>1 DEF StoreState
    <3>2. mem[n].ordering_vote # NoVote => ReleasedVoteRecorded(mem[n].ordering_vote, mem[n])
      BY Zenon DEF VotesInv, StoredVotes, ReleasedVoteRecorded
    <3> QED  BY <2>2, <3>1, <3>2, <1>3, <1>4, <1>5 DEF VotesInv, StoredVotes
  <2> QED  BY <2>1, <2>2
<1> QED  BY <1>6, <1>7, <1>8 DEF VotesInv

\* What record_order_vote promises: a released vote is never forgotten while
\* it is live, whichever saves fail and whenever the node restarts, and so no
\* node signs two live statements for one sequence number.
THEOREM VotesSafe == Spec => []VotesInv
<1>1. Init => VotesInv
  BY DEF Init, VotesInv, VotesDurable, VotesUnique, StoredVotes, EmptyState
<1>2. TypeOK /\ VotesInv /\ [Next]_vars => VotesInv'
  <2> SUFFICES ASSUME TypeOK, VotesInv, [Next]_vars PROVE VotesInv'
    OBVIOUS
  <2>1. ASSUME NEW n \in Honest, NEW c \in Commitments, NEW e \in 0 .. MaxTime,
               Vote(n, NextStatement(n, c, e))
        PROVE  VotesInv'
    <3>1. NextStatement(n, c, e) \in Statement
      BY OrderingAssumption DEF TypeOK, StoreState, NextStatement, Statement, Times
    <3> QED  BY <2>1, <3>1, VoteKeepsVotes
  <2>2. ASSUME NEW n \in Honest, NEW s \in SignedStatements,
               NEW votes \in SUBSET Signers(s), AcceptCertificate(n, s, votes)
        PROVE  VotesInv'
    <3>1. s \in Statement
      BY Zenon DEF TypeOK, SignedStatements
    <3> QED  BY <2>2, <3>1, AcceptKeepsVotes
  <2>3. ASSUME NEW n \in Honest, Restart(n) PROVE VotesInv'
    <3>1. /\ now' = now /\ signed' = signed /\ disk' = disk /\ mem'[n] = disk[n]
          /\ \A m \in Honest : m # n => mem'[m] = mem[m]
          /\ \A v \in signed : v[1] \in Honest
      BY Zenon, <2>3 DEF Restart, TypeOK
    <3>2. VotesDurable' /\ VotesUnique'
      BY <3>1 DEF VotesInv, VotesDurable, VotesUnique, ReleasedVoteRecorded
    <3>3. StoredVotes'
      BY <3>1 DEF VotesInv, StoredVotes, ReleasedVoteRecorded
    <3> QED  BY <3>2, <3>3 DEF VotesInv
  <2>4. CASE Tick
    <3>1. /\ now \in Nat /\ now' = now + 1
          /\ mem' = mem /\ disk' = disk /\ signed' = signed
          /\ \A v \in signed : v[1] \in Honest /\ v[2] \in Statement
          /\ \A m \in Honest : mem[m] \in StoreState
      BY Zenon, <2>4 DEF Tick, TypeOK
    <3>2. ASSUME NEW t \in Statement, NEW state, ReleasedVoteRecorded(t, state)
          PROVE  ReleasedVoteRecorded(t, state)'
      BY <3>1, <3>2 DEF ReleasedVoteRecorded, Statement, Times
    <3>3. VotesDurable'
      BY Zenon, <3>1, <3>2 DEF VotesInv, VotesDurable, ReleasedVoteRecorded, Statement, Times
    <3>4. VotesUnique'
      BY <3>1 DEF VotesInv, VotesUnique, Statement, Times
    <3>5. StoredVotes'
      BY <3>1 DEF VotesInv, StoredVotes, ReleasedVoteRecorded, StoreState, Statement, Times
    <3> QED  BY <3>3, <3>4, <3>5 DEF VotesInv
  <2>5. CASE UNCHANGED vars
    BY Zenon, <2>5 DEF vars, VotesInv, VotesDurable, VotesUnique, StoredVotes, ReleasedVoteRecorded
  <2> QED  BY <2>1, <2>2, <2>3, <2>4, <2>5 DEF Next
<1> QED  BY <1>1, <1>2, TypeCorrect, PTL DEF Spec

\* A released, unexpired vote is on the file a restart reads.
THEOREM VotesAreDurable == Spec => []VotesDurable
<1>1. VotesInv => VotesDurable
  BY DEF VotesInv
<1> QED  BY <1>1, VotesSafe, PTL

\* Two certificates for one sequence number that verify at the same time are
\* for the same statement.
THEOREM LiveCertificatesAgree == Spec => []LiveCertificateUnique
<1>1. TypeOK /\ VotesInv => LiveCertificateUnique
  <2> SUFFICES ASSUME TypeOK, VotesInv, NEW s \in SignedStatements, NEW t \in SignedStatements,
                      s.sequence = t.sequence, Certified(s), Certified(t),
                      now <= s.expires_at, now <= t.expires_at
               PROVE  s = t
    BY Zenon DEF LiveCertificateUnique
  <2>1. PICK P \in SUBSET Signers(s) : ValidVotes(s, P)
    BY Zenon DEF Certified
  <2>2. PICK Q \in SUBSET Signers(t) : ValidVotes(t, Q)
    BY Zenon DEF Certified
  <2>3. P \in SUBSET Nodes /\ Q \in SUBSET Nodes
    BY Zenon, OrderingAssumption DEF Signers, Honest
  <2>4. PICK n \in Honest : n \in P /\ n \in Q
    BY Zenon, <2>1, <2>2, <2>3, QuorumsShareHonest DEF ValidVotes
  <2>5. <<n, s>> \in signed /\ <<n, t>> \in signed
    BY Zenon, <2>4 DEF Signers, Honest
  <2> QED  BY <2>5 DEF VotesInv, VotesUnique
<1> QED  BY <1>1, VotesSafe, TypeCorrect, PTL

-----------------------------------------------------------------------------
(* Chains *)

\* What Append leaves of the sequence it extends.
LEMMA AppendKeepsPrefix ==
    ASSUME NEW S, NEW h \in Seq(S), NEW b \in S, NEW j \in 0 .. Len(h)
    PROVE  /\ SubSeq(Append(h, b), 1, j) = SubSeq(h, 1, j)
           /\ SubSeq(h, 1, Len(h)) = h
<1> DEFINE g == Append(h, b)
<1>1. /\ g \in Seq(S) /\ Len(g) = Len(h) + 1 /\ Len(h) \in Nat
      /\ \A i \in 1 .. Len(h) : g[i] = h[i]
  BY AppendProperties, LenProperties
<1> HIDE DEF g
<1>2. /\ SubSeq(g, 1, j) \in Seq(S) /\ Len(SubSeq(g, 1, j)) = j
      /\ \A i \in 1 .. j : SubSeq(g, 1, j)[i] = g[i]
  BY <1>1, SubSeqProperties
<1>3. /\ SubSeq(h, 1, j) \in Seq(S) /\ Len(SubSeq(h, 1, j)) = j
      /\ \A i \in 1 .. j : SubSeq(h, 1, j)[i] = h[i]
  BY <1>1, SubSeqProperties
<1>4. SubSeq(g, 1, j) = SubSeq(h, 1, j)
  BY <1>1, <1>2, <1>3, SeqEqual
<1>5. SubSeq(h, 1, Len(h)) = h
  BY <1>1, SubSeqProperties, SeqEqual
<1> QED  BY <1>4, <1>5 DEF g

\* A chain extended by a certificate with a quorum is a certified chain.
LEMMA AcceptExtendsChain ==
    ASSUME NEW state \in StoreState, NEW s \in Statement, NEW votes \in SUBSET Nodes,
           ChainCertified(state), Extends(state, s), ValidVotes(s, votes)
    PROVE  /\ ChainCertified(AcceptedState(state, s, votes))
           /\ Continues(AcceptedState(state, s, votes).ordering_head, state.ordering_head)
<1> DEFINE h == state.ordering_head
           b == BlockOf(s, votes)
           g == Append(h, b)
           new == AcceptedState(state, s, votes)
<1>1. /\ h \in Seq(Block) /\ b \in Block /\ s.previous = h
      /\ new.ordering_head = g /\ new.ordering_sequence = s.sequence
      /\ s.sequence = Len(h) + 1 /\ b.votes = votes
      /\ b.commitment = s.commitment /\ b.expires_at = s.expires_at
  BY Zenon DEF StoreState, Extends, ChainCertified, AcceptedState, BlockOf, Block, Statement
<1>2. /\ g \in Seq(Block) /\ Len(g) = Len(h) + 1 /\ Len(h) \in Nat
      /\ \A i \in 1 .. Len(h) : g[i] = h[i]
      /\ g[Len(h) + 1] = b
  BY <1>1, AppendProperties, LenProperties
<1>3. \A j \in 0 .. Len(h) : SubSeq(g, 1, j) = SubSeq(h, 1, j)
  BY Zenon, <1>1, AppendKeepsPrefix
<1>4. SubSeq(g, 1, Len(h)) = h
  BY <1>1, <1>2, <1>3, AppendKeepsPrefix
<1>5. \A k \in 1 .. Len(h) : ValidVotes(StatementAt(h, k), h[k].votes)
  BY Zenon DEF ChainCertified
<1> HIDE DEF h, b, g, new
<1>6. ASSUME NEW k \in 1 .. Len(g)
      PROVE  ValidVotes(StatementAt(g, k), g[k].votes)
  <2>1. CASE k \in 1 .. Len(h)
    <3>1. g[k] = h[k] /\ SubSeq(g, 1, k - 1) = SubSeq(h, 1, k - 1)
      BY <1>2, <1>3, <2>1
    <3>2. StatementAt(g, k) = StatementAt(h, k)
      BY Zenon, <3>1 DEF StatementAt
    <3> QED  BY <3>1, <3>2, <1>5, <2>1
  <2>2. CASE k = Len(h) + 1
    <3>1. SubSeq(g, 1, k - 1) = h
      BY <1>2, <1>4, <2>2
    <3>2. StatementAt(g, k) = s
      BY Zenon, <1>1, <1>2, <2>2, <3>1 DEF StatementAt, Statement
    <3> QED  BY <1>1, <1>2, <2>2, <3>2
  <2> QED  BY <2>1, <2>2, <1>2
<1>7. ChainCertified(new)
  BY Zenon, <1>1, <1>2, <1>6 DEF ChainCertified
<1>8. Continues(new.ordering_head, h)
  BY <1>1, <1>2, <1>4 DEF Continues
<1> QED  BY <1>7, <1>8 DEF new, h

\* Signatures are never taken back.
LEMMA SignaturesKept ==
    ASSUME NEW s, NEW votes, signed \subseteq signed', ValidVotes(s, votes)
    PROVE  ValidVotes(s, votes)'
BY Zenon DEF ValidVotes, Signers

ChainInv == ChainsCertified /\ DiskContinuesMem

\* The chain a node runs on, and the one it would restart from, consist of
\* certificates with a quorum of signatures, and a restart only continues.
THEOREM ChainsSafe == Spec => []ChainInv
<1>1. Init => ChainInv
  <2> SUFFICES ASSUME Init PROVE ChainInv
    OBVIOUS
  <2>1. /\ Len(EmptyState.ordering_head) = 0 /\ EmptyState.ordering_sequence = 0
        /\ SubSeq(EmptyState.ordering_head, 1, 0) = EmptyState.ordering_head
    BY DEF EmptyState
  <2>2. ChainCertified(EmptyState) /\ Continues(EmptyState.ordering_head, EmptyState.ordering_head)
    BY <2>1 DEF ChainCertified, Continues
  <2> QED  BY <2>2 DEF Init, ChainInv, ChainsCertified, DiskContinuesMem
<1>2. TypeOK /\ ChainInv /\ [Next]_vars => ChainInv'
  <2> SUFFICES ASSUME TypeOK, ChainInv, [Next]_vars PROVE ChainInv'
    OBVIOUS
  <2>1. signed \subseteq signed'
    BY Zenon DEF Next, vars, Vote, AcceptCertificate, Restart, Tick
  <2>3. \A n \in Honest :
           /\ mem[n] \in StoreState /\ disk[n] \in StoreState
           /\ ChainCertified(mem[n]) /\ ChainCertified(disk[n])
           /\ Continues(disk[n].ordering_head, mem[n].ordering_head)
           /\ Continues(mem[n].ordering_head, mem[n].ordering_head)
           /\ Continues(disk[n].ordering_head, disk[n].ordering_head)
    <3>1. \A h \in Seq(Block) : Continues(h, h)
      BY LenProperties, SubSeqProperties, SeqEqual DEF Continues
    <3> QED  BY <3>1 DEF TypeOK, StoreState, ChainInv, ChainsCertified, DiskContinuesMem
  <2>4. ASSUME NEW n \in Honest, NEW new, ChainCertified(new),
               Continues(new.ordering_head, mem[n].ordering_head),
               Continues(new.ordering_head, new.ordering_head),
               \A m \in Honest : m # n => mem'[m] = mem[m] /\ disk'[m] = disk[m],
               \/ mem'[n] = new /\ disk'[n] = new
               \/ mem'[n] = mem[n] /\ disk'[n] \in {disk[n], new}
        PROVE  ChainInv'
    <3> SUFFICES ASSUME NEW m \in Honest
                 PROVE  /\ ChainCertified(mem[m])' /\ ChainCertified(disk[m])'
                        /\ Continues(disk'[m].ordering_head, mem'[m].ordering_head)
      BY Zenon DEF ChainInv, ChainsCertified, DiskContinuesMem, Continues
    <3>1. mem'[m] \in {mem[m], new} /\ disk'[m] \in {disk[m], new}
      BY Zenon, <2>4
    <3>2. ChainCertified(mem'[m]) /\ ChainCertified(disk'[m])
      BY Zenon, <2>3, <2>4, <3>1
    <3>3. ChainCertified(mem[m])' /\ ChainCertified(disk[m])'
      BY Zenon, <3>2, <2>1, SignaturesKept DEF ChainCertified
    <3> QED  BY <2>3, <2>4, <3>3
  <2>5. ASSUME NEW n \in Honest, NEW c \in Commitments, NEW e \in 0 .. MaxTime,
               Vote(n, NextStatement(n, c, e))
        PROVE  ChainInv'
    <3> DEFINE new == VotedState(mem[n], NextStatement(n, c, e))
    <3>1. /\ new.ordering_head = mem[n].ordering_head
          /\ new.ordering_sequence = mem[n].ordering_sequence
      BY Zenon, <2>3 DEF VotedState, StoreState
    <3> HIDE DEF new
    <3>2. ChainCertified(new)
      BY Zenon, <2>3, <3>1 DEF ChainCertified
    <3>3. /\ \A m \in Honest : m # n => mem'[m] = mem[m] /\ disk'[m] = disk[m]
          /\ \/ mem'[n] = new /\ disk'[n] = new
             \/ mem'[n] = mem[n] /\ disk'[n] \in {disk[n], new}
      BY Zenon, <2>5 DEF Vote, Persisted, PersistFailed, TypeOK, new
    <3> QED  BY <2>3, <2>4, <3>1, <3>2, <3>3
  <2>6. ASSUME NEW n \in Honest, NEW s \in SignedStatements,
               NEW votes \in SUBSET Signers(s), AcceptCertificate(n, s, votes)
        PROVE  ChainInv'
    <3> DEFINE new == AcceptedState(mem[n], s, votes)
    <3>1. s \in Statement /\ votes \in SUBSET Nodes
      BY Zenon, OrderingAssumption DEF TypeOK, SignedStatements, Signers, Honest
    <3>2. /\ ChainCertified(new) /\ Continues(new.ordering_head, mem[n].ordering_head)
      BY Zenon, <2>3, <2>6, <3>1, AcceptExtendsChain DEF AcceptCertificate
    <3>3. new \in StoreState
      BY Zenon, <2>3, <3>1, StateTypes
    <3> HIDE DEF new
    <3>4. Continues(new.ordering_head, new.ordering_head)
      BY <3>3, LenProperties, SubSeqProperties, SeqEqual DEF Continues, StoreState
    <3>5. /\ \A m \in Honest : m # n => mem'[m] = mem[m] /\ disk'[m] = disk[m]
          /\ \/ mem'[n] = new /\ disk'[n] = new
             \/ mem'[n] = mem[n] /\ disk'[n] \in {disk[n], new}
      BY Zenon, <2>6 DEF AcceptCertificate, Persisted, PersistFailed, TypeOK, new
    <3> QED  BY <2>4, <3>2, <3>4, <3>5
  <2>7. ASSUME NEW n \in Honest, Restart(n) PROVE ChainInv'
    <3>1. /\ disk' = disk /\ mem'[n] = disk[n]
          /\ \A m \in Honest : m # n => mem'[m] = mem[m]
          /\ signed' = signed
      BY Zenon, <2>7 DEF Restart, TypeOK
    <3> SUFFICES ASSUME NEW m \in Honest
                 PROVE  /\ ChainCertified(mem[m])' /\ ChainCertified(disk[m])'
                        /\ Continues(disk'[m].ordering_head, mem'[m].ordering_head)
      BY Zenon DEF ChainInv, ChainsCertified, DiskContinuesMem, Continues
    <3>2. mem'[m] \in {mem[m], disk[m]} /\ disk'[m] = disk[m]
      BY Zenon, <3>1
    <3>3. ChainCertified(mem'[m]) /\ ChainCertified(disk'[m])
      BY Zenon, <2>3, <3>2
    <3>4. ChainCertified(mem[m])' /\ ChainCertified(disk[m])'
      BY Zenon, <3>3, <2>1, SignaturesKept DEF ChainCertified
    <3> QED  BY <2>3, <3>2, <3>4
  <2>8. CASE Tick \/ UNCHANGED vars
    BY Zenon, <2>8 DEF Tick, vars, ChainInv, ChainsCertified, DiskContinuesMem, ChainCertified,
                ValidVotes, Signers, Continues
  <2> QED  BY <2>5, <2>6, <2>7, <2>8 DEF Next
<1> QED  BY <1>1, <1>2, TypeCorrect, PTL DEF Spec

-----------------------------------------------------------------------------
(* The chain and its bookkeeping *)

\* The commitments a chain of certificates orders.
OrderedBy(chain) == {chain[k].commitment : k \in DOMAIN chain}

\* What ChainWellFormed says of one stored state.
WellFormed(state) ==
    /\ state.ordering_sequence = Len(state.ordering_head)
    /\ state.ordered_commitments = OrderedBy(state.ordering_head)
    /\ IsFiniteSet(state.ordered_commitments)
    /\ Cardinality(state.ordered_commitments) = Len(state.ordering_head)

\* accept_order_certificate adds one commitment and one certificate.
LEMMA AcceptKeepsWellFormed ==
    ASSUME NEW state \in StoreState, NEW s \in Statement, NEW votes \in SUBSET Nodes,
           WellFormed(state), Extends(state, s)
    PROVE  WellFormed(AcceptedState(state, s, votes))
<1> DEFINE h == state.ordering_head
           b == BlockOf(s, votes)
           g == Append(h, b)
           old == state.ordered_commitments
           new == AcceptedState(state, s, votes)
<1>1. /\ h \in Seq(Block) /\ b \in Block /\ s.sequence = Len(h) + 1
      /\ b.commitment = s.commitment /\ s.commitment \notin old
  BY Zenon DEF StoreState, Extends, WellFormed, BlockOf, Block, Statement
<1>2. /\ new.ordering_sequence = s.sequence /\ new.ordering_head = g
      /\ new.ordered_commitments = old \cup {s.commitment}
  BY Zenon DEF AcceptedState, Extends, StoreState
<1>3. old = OrderedBy(h) /\ IsFiniteSet(old) /\ Cardinality(old) = Len(h)
  BY Zenon DEF WellFormed
<1> HIDE DEF h, b, old, new
<1>4. /\ Len(g) = Len(h) + 1 /\ Len(h) \in Nat
      /\ \A i \in 1 .. Len(h) : g[i] = h[i]
      /\ g[Len(h) + 1] = b
      /\ DOMAIN h = 1 .. Len(h) /\ DOMAIN g = 1 .. Len(g)
  BY <1>1, AppendProperties, LenProperties
<1> HIDE DEF g
<1>5. OrderedBy(g) = OrderedBy(h) \cup {s.commitment}
  <2>1. OrderedBy(g) \subseteq OrderedBy(h) \cup {s.commitment}
    BY <1>1, <1>4 DEF OrderedBy
  <2>2. OrderedBy(h) \subseteq OrderedBy(g)
    BY <1>4 DEF OrderedBy
  <2>3. s.commitment \in OrderedBy(g)
    BY <1>1, <1>4 DEF OrderedBy
  <2> QED  BY <2>1, <2>2, <2>3
<1>6. IsFiniteSet(old \cup {s.commitment})
      /\ Cardinality(old \cup {s.commitment}) = Len(h) + 1
  BY <1>1, <1>3, FS_AddElement
<1>7. WellFormed(new)
  BY Zenon, <1>1, <1>2, <1>3, <1>4, <1>5, <1>6 DEF WellFormed
<1> QED  BY <1>7 DEF new

\* No crash, failed save or restart separates a node's chain from its sequence
\* number and its set of ordered commitments, and no order is ordered twice.
THEOREM ChainsWellFormed == Spec => []ChainWellFormed
<1> DEFINE Inv == \A n \in Honest : WellFormed(mem[n]) /\ WellFormed(disk[n])
<1>1. Init => Inv
  <2> SUFFICES ASSUME Init PROVE Inv
    OBVIOUS
  <2>1. WellFormed(EmptyState)
    BY FS_EmptySet DEF WellFormed, EmptyState, OrderedBy
  <2> QED  BY <2>1 DEF Init
<1>2. TypeOK /\ Inv /\ [Next]_vars => Inv'
  <2> SUFFICES ASSUME TypeOK, Inv, [Next]_vars PROVE Inv'
    OBVIOUS
  <2>1. \A n \in Honest : mem[n] \in StoreState /\ disk[n] \in StoreState
    BY Zenon DEF TypeOK
  <2>2. ASSUME NEW n \in Honest, NEW new, WellFormed(new),
               \A m \in Honest : mem'[m] \in {mem[m], new} /\ disk'[m] \in {disk[m], new}
        PROVE  Inv'
    BY Zenon, <2>2
  <2>3. ASSUME NEW n \in Honest, NEW c \in Commitments, NEW e \in 0 .. MaxTime,
               Vote(n, NextStatement(n, c, e))
        PROVE  Inv'
    <3> DEFINE new == VotedState(mem[n], NextStatement(n, c, e))
    <3>1. WellFormed(new)
      BY Zenon, <2>1 DEF WellFormed, VotedState, StoreState
    <3>2. \A m \in Honest : mem'[m] \in {mem[m], new} /\ disk'[m] \in {disk[m], new}
      BY Zenon, <2>3 DEF Vote, Persisted, PersistFailed, TypeOK
    <3> HIDE DEF new
    <3> QED  BY <2>2, <3>1, <3>2
  <2>4. ASSUME NEW n \in Honest, NEW s \in SignedStatements,
               NEW votes \in SUBSET Signers(s), AcceptCertificate(n, s, votes)
        PROVE  Inv'
    <3> DEFINE new == AcceptedState(mem[n], s, votes)
    <3>1. s \in Statement /\ votes \in SUBSET Nodes
      BY Zenon, OrderingAssumption DEF TypeOK, SignedStatements, Signers, Honest
    <3>2. WellFormed(new)
      BY Zenon, <2>1, <2>4, <3>1, AcceptKeepsWellFormed DEF AcceptCertificate
    <3>3. \A m \in Honest : mem'[m] \in {mem[m], new} /\ disk'[m] \in {disk[m], new}
      BY Zenon, <2>4 DEF AcceptCertificate, Persisted, PersistFailed, TypeOK
    <3> HIDE DEF new
    <3> QED  BY <2>2, <3>2, <3>3
  <2>5. ASSUME NEW n \in Honest, Restart(n) PROVE Inv'
    BY Zenon, <2>5 DEF Restart, TypeOK
  <2>6. CASE Tick \/ UNCHANGED vars
    BY Zenon, <2>6 DEF Tick, vars
  <2> QED  BY <2>3, <2>4, <2>5, <2>6 DEF Next
<1>3. Inv => ChainWellFormed
  BY DEF ChainWellFormed, WellFormed, OrderedBy
<1> QED  BY <1>1, <1>2, <1>3, TypeCorrect, PTL DEF Spec

-----------------------------------------------------------------------------
(* Agreement *)

\* Two nodes hold different orders at one sequence number only after the
\* certificate of one of them has expired: agreement holds as long as
\* certificates live, and record_order_vote gives no more than that.
THEOREM ForksOnlyAfterExpiry == Spec => []ForkOnlyAfterExpiry
<1>1. TypeOK /\ ChainInv /\ LiveCertificateUnique => ForkOnlyAfterExpiry
  <2> SUFFICES ASSUME TypeOK, ChainInv, LiveCertificateUnique,
                      NEW m \in Honest, NEW n \in Honest,
                      NEW k \in DOMAIN mem[m].ordering_head \cap DOMAIN mem[n].ordering_head,
                      ~(mem[m].ordering_head[k].expires_at < now),
                      ~(mem[n].ordering_head[k].expires_at < now)
               PROVE  mem[m].ordering_head[k].commitment = mem[n].ordering_head[k].commitment
    BY Zenon DEF ForkOnlyAfterExpiry
  <2> DEFINE s(i) == StatementAt(mem[i].ordering_head, k)
  <2>1. ASSUME NEW i \in {m, n}
        PROVE  /\ s(i) \in SignedStatements /\ Certified(s(i)) /\ now <= s(i).expires_at
               /\ s(i).sequence = k
    <3>1. /\ mem[i].ordering_head \in Seq(Block) /\ k \in 1 .. Len(mem[i].ordering_head)
          /\ ChainCertified(mem[i])
      BY Zenon, LenProperties DEF TypeOK, StoreState, ChainInv, ChainsCertified
    <3>2. mem[i].ordering_head[k] \in Block
      BY Zenon, <3>1, ElementOfSeq
    <3> DEFINE votes == mem[i].ordering_head[k].votes
    <3>3. ValidVotes(s(i), votes)
      BY Zenon, <3>1 DEF ChainCertified
    <3>4. votes \in SUBSET Nodes /\ Cardinality(votes) >= OrderingQuorum /\ votes \subseteq Signers(s(i))
      BY Zenon, <3>2, <3>3 DEF Block, ValidVotes
    <3>5. PICK h \in Honest : h \in votes
      BY Zenon, <3>4, QuorumHasHonest
    <3>6. <<h, s(i)>> \in signed
      BY Zenon, <3>4, <3>5 DEF Signers, Honest
    <3>7. s(i) \in SignedStatements
      <4> HIDE DEF s
      <4> QED  BY <3>6 DEF SignedStatements
    <3>8. now <= s(i).expires_at /\ s(i).sequence = k
      BY <3>2 DEF StatementAt, TypeOK, Block, Times
    <3> QED  BY <3>3, <3>4, <3>7, <3>8 DEF Certified
  <2>2. s(m) = s(n)
    <3> HIDE DEF s
    <3> QED  BY <2>1 DEF LiveCertificateUnique
  <2> QED  BY <2>2 DEF StatementAt
<1> QED  BY <1>1, TypeCorrect, ChainsSafe, LiveCertificatesAgree, PTL

\* No step, a restart and a failed save included, shortens or rewrites the
\* chain of a running node.
THEOREM ChainsOnlyExtend == Spec => ChainOnlyExtends
<1>1. TypeOK /\ ChainInv /\ [Next]_vars =>
        [\A n \in Honest : Continues(mem'[n].ordering_head, mem[n].ordering_head)]_vars
  <2> SUFFICES ASSUME TypeOK, ChainInv, Next, NEW m \in Honest
               PROVE  Continues(mem'[m].ordering_head, mem[m].ordering_head)
    OBVIOUS
  <2>1. /\ mem[m] \in StoreState
        /\ Continues(disk[m].ordering_head, mem[m].ordering_head)
        /\ Continues(mem[m].ordering_head, mem[m].ordering_head)
    <3>1. \A h \in Seq(Block) : Continues(h, h)
      BY LenProperties, SubSeqProperties, SeqEqual DEF Continues
    <3> QED  BY <3>1 DEF TypeOK, StoreState, ChainInv, DiskContinuesMem
  <2>2. ASSUME NEW n \in Honest, NEW c \in Commitments, NEW e \in 0 .. MaxTime,
               Vote(n, NextStatement(n, c, e))
        PROVE  Continues(mem'[m].ordering_head, mem[m].ordering_head)
    <3>1. mem'[m] \in {mem[m], VotedState(mem[m], NextStatement(n, c, e))}
      BY Zenon, <2>2 DEF Vote, Persisted, PersistFailed, TypeOK
    <3>2. VotedState(mem[m], NextStatement(n, c, e)).ordering_head = mem[m].ordering_head
      BY Zenon, <2>1 DEF VotedState, StoreState
    <3> QED  BY <2>1, <3>1, <3>2
  <2>3. ASSUME NEW n \in Honest, NEW s \in SignedStatements,
               NEW votes \in SUBSET Signers(s), AcceptCertificate(n, s, votes)
        PROVE  Continues(mem'[m].ordering_head, mem[m].ordering_head)
    <3>1. CASE m = n
      <4>1. s \in Statement /\ votes \in SUBSET Nodes
        BY Zenon, OrderingAssumption DEF TypeOK, SignedStatements, Signers, Honest
      <4>2. Continues(AcceptedState(mem[n], s, votes).ordering_head, mem[n].ordering_head)
        BY Zenon, <2>1, <2>3, <3>1, <4>1, AcceptExtendsChain DEF AcceptCertificate, ChainInv, ChainsCertified
      <4>3. mem'[n] \in {mem[n], AcceptedState(mem[n], s, votes)}
        BY Zenon, <2>3 DEF AcceptCertificate, Persisted, PersistFailed, TypeOK
      <4> QED  BY <2>1, <3>1, <4>2, <4>3
    <3>2. CASE m # n
      BY Zenon, <2>1, <2>3, <3>2 DEF AcceptCertificate, Persisted, PersistFailed, TypeOK
    <3> QED  BY <3>1, <3>2
  <2>4. ASSUME NEW n \in Honest, Restart(n)
        PROVE  Continues(mem'[m].ordering_head, mem[m].ordering_head)
    BY Zenon, <2>1, <2>4 DEF Restart, TypeOK
  <2>5. CASE Tick
    BY Zenon, <2>1, <2>5 DEF Tick
  <2> QED  BY <2>2, <2>3, <2>4, <2>5 DEF Next
<1>2. [\A n \in Honest : Continues(mem'[n].ordering_head, mem[n].ordering_head)]_vars =>
        [\A n \in Honest :
          /\ Len(mem'[n].ordering_head) >= Len(mem[n].ordering_head)
          /\ SubSeq(mem'[n].ordering_head, 1, Len(mem[n].ordering_head))
                = mem[n].ordering_head]_vars
  BY DEF Continues
<1> QED  BY <1>1, <1>2, TypeCorrect, ChainsSafe, PTL DEF Spec, ChainOnlyExtends
=============================================================================
