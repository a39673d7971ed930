---------------------------- MODULE NodeOrdering ----------------------------
(***************************************************************************)
(* The order-certificate chain of the OCLOB committee: every node votes    *)
(* for the next sequence number (NodeStore::record_order_vote), a          *)
(* coordinator collects the votes into an OrderCertificate, and every node *)
(* that is shown a valid certificate extends its own chain with it         *)
(* (NodeStore::accept_order_certificate).  A node keeps its state in       *)
(* memory and in one file; a vote leaves the node only after the file was  *)
(* replaced, and a failed save restores the old memory.                    *)
(*                                                                         *)
(* Abstractions.  A digest is the thing it commits to: the head of a chain *)
(* is the sequence of its certificates.  A certificate carries the set of  *)
(* its voters because OrderCertificate::digest hashes the votes, so two    *)
(* certificates for one statement by different voters are different heads. *)
(* A corrupt node's signature on any statement always exists.  A           *)
(* coordinator is untrusted and stateless here: any vote may be requested  *)
(* of any node at any time, in any order, again or never, and any valid    *)
(* certificate may be shown to any node.  One market.  All nodes read one  *)
(* clock.  The lifecycle barrier, by which a node refuses requests while a *)
(* fill or a release awaits finality, is left to NodeStore: here a request *)
(* may go unanswered at any time.                                          *)
(***************************************************************************)
EXTENDS Integers, FiniteSets, Sequences

CONSTANTS
    Nodes,           \* the committee
    Byzantine,       \* the nodes that sign whatever they like
    OrderingQuorum,  \* CommitteePolicy::ordering_quorum
    Commitments,     \* admitted orders and registered lifecycle commands
    Deadline,        \* Deadline[c]: last second of c's admission
    MaxTime          \* bound: the clock stops here

ASSUME OrderingAssumption ==
    /\ IsFiniteSet(Nodes)
    /\ Byzantine \subseteq Nodes
    /\ OrderingQuorum \in Nat
    /\ 2 * OrderingQuorum > Cardinality(Nodes) + Cardinality(Byzantine)
    /\ Deadline \in [Commitments -> Nat]
    /\ MaxTime \in Nat

VARIABLES
    now,     \* the clock, in seconds
    mem,     \* mem[n]: StoreState of the running node n
    disk,    \* disk[n]: the StoreState in the file of node n
    signed   \* every <<n, s>> where honest node n released a vote for s

vars == <<now, mem, disk, signed>>

Honest == Nodes \ Byzantine

Times == Nat

\* What a certificate adds to the chain.
Block == [commitment : Commitments, expires_at : Times, votes : SUBSET Nodes]

\* vote_digest: the statement a vote signs.
Statement ==
    [sequence : Nat, commitment : Commitments, previous : Seq(Block),
     expires_at : Times]

\* There is no stored vote for the next sequence number.
NoVote == [sequence |-> 0]

\* The ordering part of StoreState. ordering_votes only ever has the key
\* ordering_sequence + 1: record_order_vote inserts no other and
\* accept_order_certificate removes it.
StoreState ==
    [ordering_sequence : Nat,
     ordering_head : Seq(Block),
     ordered_commitments : SUBSET Commitments,
     ordering_vote : Statement \cup {NoVote}]

EmptyState ==
    [ordering_sequence |-> 0, ordering_head |-> <<>>,
     ordered_commitments |-> {}, ordering_vote |-> NoVote]

Init ==
    /\ now = 0
    /\ mem = [n \in Honest |-> EmptyState]
    /\ disk = [n \in Honest |-> EmptyState]
    /\ signed = {}

-----------------------------------------------------------------------------
(* Saving the state *)

\* Mutant: the node answers before the file is replaced.
PersistedInMemoryOnly(n, state) ==
    /\ mem' = [mem EXCEPT ![n] = state]
    /\ disk' = disk

\* persist writes a temporary file, renames it over the state file and syncs
\* the directory. It can fail before the rename (the file is the old one) or
\* after it (the file is the new one); either failure makes the caller restore
\* the old memory and return an error.
Persisted(n, state) ==
    /\ mem' = [mem EXCEPT ![n] = state]
    /\ disk' = [disk EXCEPT ![n] = state]

PersistFailed(n, state) ==
    /\ mem' = mem
    /\ \/ disk' = disk
       \/ disk' = [disk EXCEPT ![n] = state]

-----------------------------------------------------------------------------
(* Votes *)

\* Mutant: the head under which a certificate was voted is not compared.
ExtendsAnyHead(state, s) ==
    /\ s.sequence = state.ordering_sequence + 1
    /\ now <= s.expires_at
    /\ s.expires_at <= Deadline[s.commitment]
    /\ s.commitment \notin state.ordered_commitments

\* A voted statement is for the next sequence number, extends the node's own
\* head, has not expired, lives no longer than the admission of its order and
\* names an order the node has not ordered before.
Extends(state, s) ==
    /\ s.sequence = state.ordering_sequence + 1
    /\ s.previous = state.ordering_head
    /\ now <= s.expires_at
    /\ s.expires_at <= Deadline[s.commitment]
    /\ s.commitment \notin state.ordered_commitments

\* Mutant: a later request always replaces the vote.
VoteAlwaysFree(state, s) == TRUE

\* A different statement for the sequence number holds the vote only while it
\* is live.
VoteFree(state, s) ==
    state.ordering_vote \notin {NoVote, s} => now > state.ordering_vote.expires_at

VotedState(state, s) == [state EXCEPT !.ordering_vote = s]

\* record_order_vote, then the signature of dispatch_checked's Vote arm. The
\* same statement again is signed again without a save.
Vote(n, s) ==
    /\ Extends(mem[n], s)
    /\ VoteFree(mem[n], s)
    /\ \/ /\ IF mem[n].ordering_vote = s
             THEN UNCHANGED <<mem, disk>>
             ELSE Persisted(n, VotedState(mem[n], s))
          /\ signed' = signed \cup {<<n, s>>}
       \/ /\ mem[n].ordering_vote # s
          /\ PersistFailed(n, VotedState(mem[n], s))
          /\ UNCHANGED signed
    /\ UNCHANGED now

-----------------------------------------------------------------------------
(* Certificates *)

Signers(s) == Byzantine \cup {n \in Honest : <<n, s>> \in signed}

\* Mutant: one vote fewer is enough.
ValidVotesShort(s, votes) ==
    /\ votes \subseteq Signers(s)
    /\ Cardinality(votes) >= OrderingQuorum - 1

\* OrderCertificate::verify apart from its clock: enough distinct voters, each
\* with a valid signature on this very statement.
ValidVotes(s, votes) ==
    /\ votes \subseteq Signers(s)
    /\ Cardinality(votes) >= OrderingQuorum

BlockOf(s, votes) ==
    [commitment |-> s.commitment, expires_at |-> s.expires_at, votes |-> votes]

AcceptedState(state, s, votes) ==
    [ordering_sequence |-> s.sequence,
     ordering_head |-> Append(s.previous, BlockOf(s, votes)),
     ordered_commitments |-> state.ordered_commitments \cup {s.commitment},
     ordering_vote |-> NoVote]

\* accept_order_certificate: a certificate for the accepted head is answered
\* without a change (a stuttering step, left out); any other must extend the
\* chain and must not contradict a live vote of this node.
AcceptCertificate(n, s, votes) ==
    /\ ValidVotes(s, votes)
    /\ Extends(mem[n], s)
    /\ VoteFree(mem[n], s)
    /\ \/ Persisted(n, AcceptedState(mem[n], s, votes))
       \/ PersistFailed(n, AcceptedState(mem[n], s, votes))
    /\ UNCHANGED <<now, signed>>

\* NodeStore::open: a restarted node continues from its file.
Restart(n) ==
    /\ mem' = [mem EXCEPT ![n] = disk[n]]
    /\ UNCHANGED <<now, disk, signed>>

Tick ==
    /\ now < MaxTime
    /\ now' = now + 1
    /\ UNCHANGED <<mem, disk, signed>>

\* The only statement about c that node n can be asked to sign with success.
NextStatement(n, c, e) ==
    [sequence |-> mem[n].ordering_sequence + 1, commitment |-> c,
     previous |-> mem[n].ordering_head, expires_at |-> e]

\* A quorum outnumbers the corrupt nodes, so a certified statement has an
\* honest signer.
SignedStatements == {v[2] : v \in signed}

Next ==
    \/ \E n \in Honest, c \in Commitments, e \in 0 .. MaxTime :
          Vote(n, NextStatement(n, c, e))
    \/ \E n \in Honest : \E s \in SignedStatements : \E votes \in SUBSET Signers(s) :
          AcceptCertificate(n, s, votes)
    \/ \E n \in Honest : Restart(n)
    \/ Tick

Spec == Init /\ [][Next]_vars

-----------------------------------------------------------------------------
(* Properties *)

\* The fields of StoreState in memory and on disk; votes come from honest nodes.
TypeOK ==
    /\ now \in Nat
    /\ mem \in [Honest -> StoreState]
    /\ disk \in [Honest -> StoreState]
    /\ signed \subseteq Honest \X Statement

Certified(s) == \E votes \in SUBSET Signers(s) : ValidVotes(s, votes)

\* At every moment at most one statement per sequence number has, or can be
\* given, a certificate that verifies: whatever an untrusted coordinator does
\* with the votes it was given, crashes and failed saves included, two
\* OrderCertificates that both pass OrderCertificate::verify at the same time
\* order the same commitment under the same head.
LiveCertificateUnique ==
    \A s, t \in SignedStatements :
        /\ s.sequence = t.sequence
        /\ Certified(s) /\ Certified(t)
        /\ now <= s.expires_at /\ now <= t.expires_at
        => s = t

ReleasedVoteRecorded(s, state) ==
    \/ s.sequence <= state.ordering_sequence
    \/ s.sequence = state.ordering_sequence + 1 /\ state.ordering_vote = s
    \/ s.sequence = state.ordering_sequence + 1 /\ s.expires_at < now

\* A signature that record_order_vote released and that has not expired is
\* still known to its node, in memory and in the file a restart reads, until
\* the node has accepted a certificate for that sequence number.
VotesDurable ==
    \A v \in signed :
        /\ ReleasedVoteRecorded(v[2], mem[v[1]])
        /\ ReleasedVoteRecorded(v[2], disk[v[1]])

\* The state a node runs on and the state it would restart from describe one
\* chain: its length is the sequence number and no commitment is in it twice
\* (accept_order_certificate).
ChainWellFormed ==
    \A n \in Honest : \A state \in {mem[n], disk[n]} :
        /\ state.ordering_sequence = Len(state.ordering_head)
        /\ state.ordered_commitments =
              {state.ordering_head[k].commitment : k \in DOMAIN state.ordering_head}
        /\ Cardinality(state.ordered_commitments) = Len(state.ordering_head)

\* Two nodes can only have put different orders at the same sequence number
\* if the certificate of one of the two has expired.
ForkOnlyAfterExpiry ==
    \A m, n \in Honest : \A k \in DOMAIN mem[m].ordering_head \cap DOMAIN mem[n].ordering_head :
        LET a == mem[m].ordering_head[k]
            b == mem[n].ordering_head[k]
        IN  a.commitment # b.commitment => a.expires_at < now \/ b.expires_at < now

\* docs/ARCHITECTURE.md, section on the order certificate: because two sets of
\* five nodes share a correct node, one sequence number cannot be fixed to two
\* different orders.
SequenceAgreement ==
    \A m, n \in Honest : \A k \in DOMAIN mem[m].ordering_head \cap DOMAIN mem[n].ordering_head :
        mem[m].ordering_head[k].commitment = mem[n].ordering_head[k].commitment

\* A running node never forgets or rewrites an accepted certificate, a
\* restart and a failed save included.
ChainOnlyExtends ==
    [][\A n \in Honest :
          /\ Len(mem'[n].ordering_head) >= Len(mem[n].ordering_head)
          /\ SubSeq(mem'[n].ordering_head, 1, Len(mem[n].ordering_head))
                = mem[n].ordering_head]_vars
=============================================================================
