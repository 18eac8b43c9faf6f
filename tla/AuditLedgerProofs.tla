-------------------------- MODULE AuditLedgerProofs --------------------------
(***************************************************************************)
(* The chains of AuditLedger link for every number of hulls, requests and  *)
(* actors, over both stores.  The argument: the transaction that holds a   *)
(* hull's lock is the only one that may add to that hull, so what it read  *)
(* of the chain's end stays true until it commits.                         *)
(***************************************************************************)
EXTENDS LedgerVerify, FiniteSetTheorems, WellFoundedInduction, TLAPS

(* What a transaction between its lock and its commit knows: the digest it *)
(* read is still that of the hull's last entry, and the number it drew is  *)
(* above every number on the hull.                                         *)
TxKnows(r) ==
  /\ Holds(r) => backend = "postgres"
  /\ tx[r].pc \in {"insert", "commit"} => tx[r].prev = LastHash(EntriesOf(tx[r].hull))
  /\ tx[r].pc = "commit" => \A e \in EntriesOf(tx[r].hull) : e.seq < tx[r].seq

IInv == TypeOK /\ ChainLinks /\ \A r \in Requests : TxKnows(r)

-----------------------------------------------------------------------------
(* A set of linked entries stays linked when an entry is added that names  *)
(* the last digest of its hull and is numbered above the hull's entries.   *)
LEMMA LinkedGrows ==
  ASSUME NEW S, NEW e,
         \A f \in S : f.seq \in Nat, e.seq \in Nat,
         Linked(S),
         e.prev = LastHash({f \in S : f.hull = e.hull}),
         e.hash = expected_hash(e.prev, e),
         \A f \in S : f.hull = e.hull => f.seq < e.seq
  PROVE  Linked(S \cup {e})
<1> DEFINE T == S \cup {e}
<1>1. ASSUME NEW d \in S
      PROVE  Before(T, d) = Before(S, d)
  <2>1. ~(e.hull = d.hull /\ e.seq < d.seq)
    OBVIOUS
  <2> QED
    BY <2>1 DEF Before
<1>2. Before(T, e) = {f \in S : f.hull = e.hull}
  BY DEF Before
<1>3. ASSUME NEW d \in T
      PROVE  /\ d.prev = LastHash(Before(T, d))
             /\ d.hash = expected_hash(d.prev, d)
  <2>1. CASE d \in S
    BY <1>1, <2>1 DEF Linked
  <2>2. CASE d = e
    BY <1>2, <2>2
  <2> QED
    BY <2>1, <2>2
<1>4. ASSUME NEW d \in T, NEW f \in T, f.hull = d.hull, f.seq = d.seq
      PROVE  f = d
  BY <1>4 DEF Linked
<1> QED
  BY <1>3, <1>4 DEF Linked

(* The entry append_audit builds carries the digest expected of it.        *)
LEMMA NewEntryHashes ==
  ASSUME NEW t, t.actor \in Actors, NEW seq, NEW prev
  PROVE  LET e == NewEntry(t, seq, prev)
         IN  /\ e.hull = t.hull /\ e.seq = seq /\ e.actor = t.actor /\ e.prev = prev
             /\ e.version = CHAIN_VERSION
             /\ e.hash = expected_hash(e.prev, e)
             /\ t.hull \in Hulls /\ seq \in Nat => EntryOK(e)
BY NobodyAssumption DEF NewEntry, expected_hash, EntryOK, CHAIN_VERSION

-----------------------------------------------------------------------------
LEMMA InitIInv == Init => IInv
<1> SUFFICES ASSUME Init PROVE IInv
  OBVIOUS
<1>1. PICK start \in Starts : table = start.table /\ nextSeq = start.nextSeq
  BY DEF Init
<1>2. \A r \in Requests : tx[r] = Idle
  BY DEF Init
<1>3. TypeOK
  BY <1>1, <1>2, StartsAssumption, NoneAssumption DEF Init, TypeOK, Holds, Idle
<1>4. ChainLinks
  BY <1>1, StartsAssumption DEF ChainLinks
<1>5. \A r \in Requests : TxKnows(r)
  BY <1>2 DEF TxKnows, Holds, Idle
<1> QED
  BY <1>3, <1>4, <1>5 DEF IInv

(* Adding one entry to a hull whose lock no other transaction holds.       *)
LEMMA AppendKeeps ==
  ASSUME IInv, NEW r \in Requests, NEW seq \in Nat, NEW prev,
         LET t == tx[r] IN
           /\ t.hull \in Hulls /\ t.actor \in Actors
           /\ seq < nextSeq' /\ nextSeq' \in Nat /\ nextSeq <= nextSeq'
           /\ prev = LastHash(EntriesOf(t.hull))
           /\ \A e \in EntriesOf(t.hull) : e.seq < seq
           /\ table' = table \cup {NewEntry(t, seq, prev)}
  PROVE  /\ ChainLinks'
         /\ \A e \in table' : EntryOK(e) /\ e.seq < nextSeq'
         /\ \A h \in Hulls : h # tx[r].hull =>
              {e \in table' : e.hull = h} = EntriesOf(h)
         /\ \A e \in table' \ table : \A f \in table :
              f.hull = e.hull => f.seq < e.seq
<1> DEFINE t == tx[r]
           e == NewEntry(t, seq, prev)
<1>1. /\ e.hull = t.hull /\ e.seq = seq /\ e.actor = t.actor /\ e.prev = prev
      /\ e.version = CHAIN_VERSION /\ e.hash = expected_hash(e.prev, e)
      /\ EntryOK(e)
  BY NewEntryHashes
<1>2. \A f \in table : f.seq \in Nat /\ f.seq < nextSeq
  BY DEF IInv, TypeOK, EntryOK
<1>3. {f \in table : f.hull = e.hull} = EntriesOf(t.hull)
  BY <1>1 DEF EntriesOf
<1> HIDE DEF e
<1>4. \A f \in table : f.hull = e.hull => f.seq < e.seq
  BY <1>1, <1>3 DEF EntriesOf
<1>5. Linked(table \cup {e})
  BY <1>1, <1>2, <1>3, <1>4, LinkedGrows DEF IInv, ChainLinks
<1>6. table' = table \cup {e}
  BY DEF e
<1>7. ChainLinks'
  <2>1. Linked(table')
    BY <1>5, <1>6
  <2> QED
    BY <2>1 DEF ChainLinks, Linked, Before, LastHash, expected_hash
<1>8. \A f \in table' : EntryOK(f) /\ f.seq < nextSeq'
  BY <1>1, <1>2, <1>6 DEF IInv, TypeOK
<1>9. \A h \in Hulls : h # t.hull => {f \in table' : f.hull = h} = EntriesOf(h)
  BY <1>1, <1>6 DEF EntriesOf
<1>10. \A d \in table' \ table : \A f \in table : f.hull = d.hull => f.seq < d.seq
  BY <1>4, <1>6
<1> QED
  BY <1>7, <1>8, <1>9, <1>10

(* A step of r that writes no entry takes nothing from what others know.   *)
LEMMA OthersKnow ==
  ASSUME NEW q \in Requests, TxKnows(q), UNCHANGED <<backend, table>>, tx'[q] = tx[q]
  PROVE  TxKnows(q)'
<1>1. EntriesOf(tx[q].hull)' = EntriesOf(tx[q].hull)
  BY DEF EntriesOf
<1>2. LastHash(EntriesOf(tx[q].hull))' = LastHash(EntriesOf(tx[q].hull))
  BY <1>1 DEF LastHash
<1> QED
  BY <1>1, <1>2 DEF TxKnows, Holds

LEMMA StepIInv == IInv /\ [Next]_vars => IInv'
<1> SUFFICES ASSUME IInv, [Next]_vars PROVE IInv'
  OBVIOUS
<1>1. ASSUME NEW r \in Requests, Ask(r) PROVE IInv'
  BY <1>1 DEF IInv, Ask, TypeOK, ChainLinks, TxKnows, Holds, EntriesOf, Idle
<1>2. ASSUME NEW r \in Requests, AppendInMemory(r) PROVE IInv'
  <2> DEFINE t == tx[r]
  <2>1. /\ t.hull \in Hulls /\ t.actor \in Actors
        /\ nextSeq \in Nat /\ nextSeq' = nextSeq + 1
        /\ \A e \in EntriesOf(t.hull) : e.seq < nextSeq
    BY <1>2 DEF AppendInMemory, IInv, TypeOK, EntriesOf
  <2>2. table' = table \cup {NewEntry(t, nextSeq, LastHash(EntriesOf(t.hull)))}
    BY <1>2 DEF AppendInMemory
  <2>3. /\ ChainLinks'
        /\ \A e \in table' : EntryOK(e) /\ e.seq < nextSeq'
    BY <2>1, <2>2, AppendKeeps
  <2>4. \A q \in Requests : ~Holds(q)
    BY <1>2, LedgerBackendAssumption DEF AppendInMemory, IInv, TxKnows
  <2>5. TypeOK'
    <3>1. IsFiniteSet(table')
      BY <2>2, FS_AddElement DEF IInv, TypeOK
    <3> QED
      BY <1>2, <2>1, <2>3, <2>4, <3>1 DEF AppendInMemory, IInv, TypeOK, Holds
  <2>6. \A q \in Requests : TxKnows(q)'
    BY <1>2, <2>4 DEF AppendInMemory, IInv, TypeOK, TxKnows, Holds, Idle
  <2> QED
    BY <2>3, <2>5, <2>6 DEF IInv
<1>3. ASSUME NEW r \in Requests, Lock(r) PROVE IInv'
  <2>1. TypeOK'
    BY <1>3, NoneAssumption DEF Lock, IInv, TypeOK, Holds, TxKnows, Idle
  <2>2. ASSUME NEW q \in Requests PROVE TxKnows(q)'
    <3>1. CASE q # r
      BY <1>3, <3>1, OthersKnow DEF Lock, IInv, TypeOK
    <3>2. CASE q = r
      BY <1>3, <3>2 DEF Lock, IInv, TypeOK, TxKnows, Holds, Idle
    <3> QED
      BY <3>1, <3>2
  <2> QED
    BY <1>3, <2>1, <2>2 DEF Lock, IInv, ChainLinks
<1>4. ASSUME NEW r \in Requests, ReadLast(r) PROVE IInv'
  <2>1. TypeOK'
    BY <1>4 DEF ReadLast, IInv, TypeOK, Holds, Idle
  <2>2. ASSUME NEW q \in Requests PROVE TxKnows(q)'
    <3>1. CASE q # r
      BY <1>4, <3>1, OthersKnow DEF ReadLast, IInv, TypeOK
    <3>2. CASE q = r
      <4>1. /\ backend' = "postgres" /\ table' = table
            /\ tx'[r].pc = "insert" /\ tx'[r].hull = tx[r].hull
            /\ tx'[r].prev = LastHash(EntriesOf(tx[r].hull))
        BY <1>4 DEF ReadLast, IInv, TypeOK, TxKnows, Holds, Idle
      <4>2. EntriesOf(tx[r].hull)' = EntriesOf(tx[r].hull)
        BY <4>1 DEF EntriesOf
      <4> QED
        BY <3>2, <4>1, <4>2 DEF TxKnows, Holds, LastHash
    <3> QED
      BY <3>1, <3>2
  <2> QED
    BY <1>4, <2>1, <2>2 DEF ReadLast, IInv, ChainLinks
<1>5. ASSUME NEW r \in Requests, Insert(r) PROVE IInv'
  <2>1. TypeOK'
    BY <1>5 DEF Insert, IInv, TypeOK, Holds, EntryOK, Idle
  <2>2. ASSUME NEW q \in Requests PROVE TxKnows(q)'
    <3>1. CASE q # r
      BY <1>5, <3>1, OthersKnow DEF Insert, IInv, TypeOK
    <3>2. CASE q = r
      <4>1. /\ backend' = "postgres" /\ table' = table
            /\ tx'[r].pc = "commit" /\ tx'[r].hull = tx[r].hull
            /\ tx'[r].prev = tx[r].prev /\ tx'[r].seq = nextSeq
            /\ tx[r].prev = LastHash(EntriesOf(tx[r].hull))
        BY <1>5 DEF Insert, IInv, TypeOK, TxKnows, Holds, Idle
      <4>2. EntriesOf(tx[r].hull)' = EntriesOf(tx[r].hull)
        BY <4>1 DEF EntriesOf
      <4>3. \A e \in EntriesOf(tx[r].hull) : e.seq < nextSeq
        BY DEF EntriesOf, IInv, TypeOK
      <4> QED
        BY <3>2, <4>1, <4>2, <4>3 DEF TxKnows, Holds, LastHash
    <3> QED
      BY <3>1, <3>2
  <2> QED
    BY <1>5, <2>1, <2>2 DEF Insert, IInv, ChainLinks
<1>6. ASSUME NEW r \in Requests, Commit(r) PROVE IInv'
  <2> DEFINE t == tx[r]
  <2>1. /\ t.hull \in Hulls /\ t.actor \in Actors /\ t.seq \in Nat
        /\ t.seq < nextSeq /\ nextSeq \in Nat /\ nextSeq' = nextSeq
        /\ Holds(r) /\ lock[t.hull] = r
    BY <1>6 DEF Commit, IInv, TypeOK, TxKnows, Holds
  <2>2. /\ t.prev = LastHash(EntriesOf(t.hull))
        /\ \A e \in EntriesOf(t.hull) : e.seq < t.seq
    BY <1>6 DEF Commit, IInv, TxKnows
  <2>3. table' = table \cup {NewEntry(t, t.seq, t.prev)}
    BY <1>6 DEF Commit
  <2>4. /\ ChainLinks'
        /\ \A e \in table' : EntryOK(e) /\ e.seq < nextSeq'
        /\ \A h \in Hulls : h # t.hull => {e \in table' : e.hull = h} = EntriesOf(h)
    BY <2>1, <2>2, <2>3, AppendKeeps
  <2>5. /\ lock' = [lock EXCEPT ![t.hull] = None] /\ backend' = backend
        /\ tx' = [tx EXCEPT ![r].pc = "answered"]
    BY <1>6 DEF Commit
  <2>6. TypeOK'
    <3>1. /\ lock' \in [Hulls -> Requests \cup {None}] /\ DOMAIN tx' = Requests
          /\ backend' \in Backends
      BY <2>5 DEF IInv, TypeOK
    <3>2. ASSUME NEW q \in Requests, NEW h \in Hulls
          PROVE  (lock[h] = q <=> Holds(q) /\ tx[q].hull = h)'
      <4>1. lock[h] = q <=> Holds(q) /\ tx[q].hull = h
        BY DEF IInv, TypeOK
      <4>2. CASE q = r
        BY <2>1, <2>5, <4>1, <4>2, NoneAssumption DEF IInv, TypeOK, Holds, Idle
      <4>3. CASE q # r
        BY <2>1, <2>5, <4>1, <4>3, NoneAssumption DEF IInv, TypeOK, Holds
      <4> QED
        BY <4>2, <4>3
    <3>3. ASSUME NEW q \in Requests
          PROVE  /\ DOMAIN tx'[q] = DOMAIN Idle
                 /\ tx'[q].pc \in {"idle", "lock", "read", "insert", "commit",
                                   "answered", "failed"}
                 /\ tx'[q].pc # "idle" => tx'[q].hull \in Hulls /\ tx'[q].actor \in Actors
                 /\ tx'[q].seq \in Nat
                 /\ tx'[q].pc = "commit" => tx'[q].seq < nextSeq'
      BY <2>1, <2>5 DEF IInv, TypeOK, Idle
    <3>4. IsFiniteSet(table')
      BY <2>3, FS_AddElement DEF IInv, TypeOK
    <3> QED
      BY <2>1, <2>4, <3>1, <3>2, <3>3, <3>4 DEF IInv, TypeOK, Holds
  <2>7. ASSUME NEW q \in Requests PROVE TxKnows(q)'
    <3>1. CASE q = r
      BY <2>5, <3>1 DEF IInv, TypeOK, TxKnows, Holds, Idle
    <3>2. CASE q # r /\ ~Holds(q)
      BY <2>5, <3>2 DEF TxKnows, Holds
    <3>3. CASE q # r /\ Holds(q)
      <4>1. tx'[q] = tx[q]
        BY <2>5, <3>3 DEF IInv, TypeOK
      <4>2. tx[q].hull \in Hulls /\ tx[q].hull # t.hull
        BY <2>1, <3>3 DEF IInv, TypeOK, Holds
      <4>3. EntriesOf(tx[q].hull)' = EntriesOf(tx[q].hull)
        BY <2>4, <4>1, <4>2 DEF EntriesOf
      <4> QED
        BY <2>5, <3>3, <4>1, <4>3 DEF IInv, TxKnows, Holds, LastHash
    <3> QED
      BY <3>1, <3>2, <3>3
  <2> QED
    BY <2>4, <2>6, <2>7 DEF IInv
<1>7. ASSUME NEW r \in Requests, Rollback(r) PROVE IInv'
  <2>1. TypeOK'
    BY <1>7, NoneAssumption DEF Rollback, IInv, TypeOK, Holds, TxKnows, Idle
  <2>2. ASSUME NEW q \in Requests PROVE TxKnows(q)'
    <3>1. CASE q # r
      BY <1>7, <3>1, OthersKnow DEF Rollback, IInv, TypeOK
    <3>2. CASE q = r
      BY <1>7, <3>2 DEF Rollback, IInv, TypeOK, TxKnows, Holds, Idle
    <3> QED
      BY <3>1, <3>2
  <2> QED
    BY <1>7, <2>1, <2>2 DEF Rollback, IInv, ChainLinks
<1>8. CASE UNCHANGED vars
  <2>1. TypeOK' /\ ChainLinks'
    BY <1>8 DEF vars, IInv, TypeOK, ChainLinks, Holds
  <2>2. \A q \in Requests : TxKnows(q)'
    BY <1>8, OthersKnow DEF vars, IInv
  <2> QED
    BY <2>1, <2>2 DEF IInv
<1> QED
  BY <1>1, <1>2, <1>3, <1>4, <1>5, <1>6, <1>7, <1>8 DEF Next, Work

(* The committed entries of every hull form one chain, in every reachable  *)
(* state: append_audit never forks a chain and never skips a link.         *)
THEOREM ChainsLink == Spec => []ChainLinks
<1>1. IInv => ChainLinks
  BY DEF IInv
<1> QED
  BY InitIInv, StepIInv, <1>1, PTL DEF Spec

(* On each hull, entries become visible in the order of their numbers:     *)
(* append_audit holds the hull's lock from before it draws a number until  *)
(* the entry is committed.                                                 *)
THEOREM CommitsInOrder == Spec => CommitInOrder
<1>1. IInv /\ [Next]_vars =>
        [\A e \in table' \ table : \A f \in table :
           f.hull = e.hull => f.seq < e.seq]_vars
  <2> SUFFICES ASSUME IInv, Next
               PROVE  \A e \in table' \ table : \A f \in table :
                        f.hull = e.hull => f.seq < e.seq
    OBVIOUS
  <2>1. CASE table' = table
    BY <2>1
  <2>2. ASSUME NEW r \in Requests, AppendInMemory(r)
        PROVE  \A e \in table' \ table : \A f \in table :
                 f.hull = e.hull => f.seq < e.seq
    <3>1. /\ tx[r].hull \in Hulls /\ tx[r].actor \in Actors
          /\ nextSeq \in Nat /\ nextSeq' = nextSeq + 1
          /\ \A e \in EntriesOf(tx[r].hull) : e.seq < nextSeq
          /\ table' = table \cup
               {NewEntry(tx[r], nextSeq, LastHash(EntriesOf(tx[r].hull)))}
      BY <2>2 DEF AppendInMemory, IInv, TypeOK, EntriesOf
    <3> QED
      BY <3>1, AppendKeeps
  <2>3. ASSUME NEW r \in Requests, Commit(r)
        PROVE  \A e \in table' \ table : \A f \in table :
                 f.hull = e.hull => f.seq < e.seq
    <3>1. /\ tx[r].hull \in Hulls /\ tx[r].actor \in Actors /\ tx[r].seq \in Nat
          /\ tx[r].seq < nextSeq /\ nextSeq \in Nat /\ nextSeq' = nextSeq
      BY <2>3 DEF Commit, IInv, TypeOK
    <3>2. /\ tx[r].prev = LastHash(EntriesOf(tx[r].hull))
          /\ \A e \in EntriesOf(tx[r].hull) : e.seq < tx[r].seq
      BY <2>3 DEF Commit, IInv, TxKnows
    <3>3. table' = table \cup
            {NewEntry(tx[r], tx[r].seq, tx[r].prev)}
      BY <2>3 DEF Commit
    <3> QED
      BY <3>1, <3>2, <3>3, AppendKeeps
  <2> QED
    BY <2>1, <2>2, <2>3 DEF Next, Work, Ask, Lock, ReadLast, Insert, Rollback
<1> QED
  BY InitIInv, StepIInv, <1>1, PTL DEF Spec, CommitInOrder

(* Entries, transactions and locks hold values of their kinds.             *)
THEOREM LedgerTypes == Spec => []TypeOK
<1>1. IInv => TypeOK
  BY DEF IInv
<1> QED
  BY InitIInv, StepIInv, <1>1, PTL DEF Spec

-----------------------------------------------------------------------------
(* What verify_chain makes of a chain.                                     *)
Previous(s, i) == IF i = 1 THEN NoDigest ELSE s[i - 1].hash

Unbroken(s) ==
  \A i \in DOMAIN s :
    s[i].prev = Previous(s, i) /\ expected_hash(Previous(s, i), s[i]) = s[i].hash

LEMMA Least ==
  ASSUME NEW Bad, Bad \subseteq Nat, Bad # {}
  PROVE  \E n \in Bad : \A m \in Bad : n <= m
<1> DEFINE R == {p \in Nat \X Nat : p[1] < p[2]}
<1>1. IsWellFoundedOn(R, Nat)
  <2>1. R = OpToRel(<, Nat)
    BY DEF OpToRel
  <2> QED
    BY <2>1, NatLessThanWellFounded
<1>2. \A y, x \in Nat : <<y, x>> \notin R => x <= y
  OBVIOUS
<1> HIDE DEF R
<1>3. PICK n \in Bad : \A m \in Bad : <<m, n>> \notin R
  BY <1>1, WFMin
<1> QED
  BY <1>2, <1>3, Zenon

(* verify_chain finds a chain intact exactly when every entry names the    *)
(* digest before it and carries its own.                                   *)
LEMMA VerifyMeans ==
  ASSUME NEW n \in Nat, NEW s, DOMAIN s = 1 .. n
  PROVE  verify_chain(s) = Intact <=> Unbroken(s)
<1> DEFINE Break(i) ==
             IF s[i].prev # Previous(s, i) THEN "ChainBroken"
             ELSE IF expected_hash(Previous(s, i), s[i]) # s[i].hash
                  THEN "HashMismatch" ELSE "none"
           broken == {i \in DOMAIN s : Break(i) # "none"}
           first  == CHOOSE i \in broken : \A j \in broken : i <= j
<1>1. verify_chain(s) = IF broken = {} THEN Intact ELSE [index |-> first, reason |-> Break(first)]
  BY DEF verify_chain, Previous
<1>2. broken = {} <=> Unbroken(s)
  BY DEF Unbroken
<1>3. ASSUME broken # {}
      PROVE  [index |-> first, reason |-> Break(first)] # Intact
  <2>1. broken \subseteq 1 .. n /\ broken \subseteq Nat
    OBVIOUS
  <2> HIDE DEF broken
  <2>2. first \in broken
    BY <1>3, <2>1, Least
  <2> HIDE DEF first
  <2>3. first # 0
    BY <2>1, <2>2
  <2>4. PICK r : r = [index |-> first, reason |-> Break(first)]
    OBVIOUS
  <2> HIDE DEF Break
  <2>5. r.index # Intact.index
    BY <2>3, <2>4 DEF Intact
  <2> QED
    BY <2>4, <2>5
<1> HIDE DEF broken, first, Break
<1> QED
  BY <1>1, <1>2, <1>3

-----------------------------------------------------------------------------
(* The digest of an entry in order tells what was hashed.                  *)
LEMMA DigestTells ==
  ASSUME NEW e, EntryOK(e), NEW p
  PROVE  /\ e.version = 1 => expected_hash(p, e) = <<p, "v1", e.content>>
         /\ e.version # 1 => /\ e.version = 2 /\ e.actor # Nobody
                             /\ expected_hash(p, e) = <<p, "v2", e.content, e.actor>>
<1>1. e.version = 1 \/ (e.version = 2 /\ e.actor # Nobody)
  BY NobodyAssumption DEF EntryOK, CHAIN_VERSION
<1> QED
  BY <1>1 DEF expected_hash, compute_hash, compute_hash_v2

LEMMA SameDigest ==
  ASSUME NEW e, EntryOK(e), NEW p, NEW f, NEW q, expected_hash(q, f) = expected_hash(p, e)
  PROVE  /\ q = p /\ f.version = e.version /\ f.content = e.content
         /\ e.version = 2 => f.actor = e.actor
         /\ expected_hash(p, e) # NoDigest
<1> DEFINE d == expected_hash(p, e)
<1>1. CASE e.version = 1
  <2>1. d = <<p, "v1", e.content>>
    BY <1>1, DigestTells
  <2>2. CASE f.version = 1
    BY <1>1, <2>1, <2>2 DEF expected_hash, compute_hash, NoDigest
  <2>3. CASE f.version = 2 /\ f.actor # Nobody
    <3>1. <<q, "v2", f.content, f.actor>> = <<p, "v1", e.content>>
      BY <2>1, <2>3 DEF expected_hash, compute_hash_v2
    <3> QED
      BY <3>1
  <2>4. CASE f.version # 1 /\ ~(f.version = 2 /\ f.actor # Nobody)
    <3>1. <<>> = <<p, "v1", e.content>>
      BY <2>1, <2>4 DEF expected_hash, NoDigest
    <3> QED
      BY <3>1
  <2> QED
    BY <2>2, <2>3, <2>4
<1>2. CASE e.version # 1
  <2>1. e.version = 2 /\ d = <<p, "v2", e.content, e.actor>>
    BY <1>2, DigestTells
  <2>2. CASE f.version = 1
    <3>1. <<q, "v1", f.content>> = <<p, "v2", e.content, e.actor>>
      BY <2>1, <2>2 DEF expected_hash, compute_hash
    <3> QED
      BY <3>1
  <2>3. CASE f.version = 2 /\ f.actor # Nobody
    <3>1. <<q, "v2", f.content, f.actor>> = <<p, "v2", e.content, e.actor>>
      BY <2>1, <2>3 DEF expected_hash, compute_hash_v2
    <3> QED
      BY <2>1, <2>3, <3>1 DEF NoDigest
  <2>4. CASE f.version # 1 /\ ~(f.version = 2 /\ f.actor # Nobody)
    <3>1. <<>> = <<p, "v2", e.content, e.actor>>
      BY <2>1, <2>4 DEF expected_hash, NoDigest
    <3> QED
      BY <3>1
  <2> QED
    BY <2>2, <2>3, <2>4
<1> QED
  BY <1>1, <1>2

-----------------------------------------------------------------------------
(* Entries of one hull have places of their own, in the order of their     *)
(* numbers, and every place up to their count is taken.                    *)
OneHull(S) ==
  /\ IsFiniteSet(S)
  /\ \A e \in S : e.seq \in Nat
  /\ \A e, f \in S : e.hull = f.hull /\ (e.seq = f.seq => e = f)

LEMMA PlacesInOrder ==
  ASSUME NEW S, OneHull(S), NEW e \in S
  PROVE  /\ PlaceOf(S, e) \in 1 .. Cardinality(S)
         /\ \A f \in S : e.seq < f.seq => PlaceOf(S, e) < PlaceOf(S, f)
<1>1. \A f \in S : /\ IsFiniteSet(Before(S, f)) /\ Cardinality(Before(S, f)) \in Nat
                   /\ f \notin Before(S, f) /\ Before(S, f) \in SUBSET S
  <2> TAKE f \in S
  <2>1. Before(S, f) \in SUBSET S /\ f \notin Before(S, f)
    BY DEF Before, OneHull
  <2> QED
    BY <2>1, FS_Subset, FS_CardinalityType DEF OneHull
<1>2. PlaceOf(S, e) \in 1 .. Cardinality(S)
  <2>1. Cardinality(S) \in Nat
    BY FS_CardinalityType DEF OneHull
  <2>2. /\ Cardinality(Before(S, e)) <= Cardinality(S)
        /\ Cardinality(S) # Cardinality(Before(S, e))
    BY <1>1, FS_Subset DEF OneHull
  <2> QED
    BY <1>1, <2>1, <2>2 DEF PlaceOf
<1>3. ASSUME NEW f \in S, e.seq < f.seq
      PROVE  PlaceOf(S, e) < PlaceOf(S, f)
  <2>1. Before(S, e) \in SUBSET Before(S, f) /\ e \in Before(S, f)
    BY <1>3 DEF Before, OneHull
  <2>2. /\ Cardinality(Before(S, e)) <= Cardinality(Before(S, f))
        /\ Cardinality(Before(S, f)) # Cardinality(Before(S, e))
    BY <1>1, <2>1, FS_Subset
  <2> QED
    BY <1>1, <2>2 DEF PlaceOf
<1> QED
  BY <1>2, <1>3

LEMMA OnePlaceEach ==
  ASSUME NEW S, OneHull(S), NEW e \in S, NEW f \in S, PlaceOf(S, e) = PlaceOf(S, f)
  PROVE  e = f
<1>1. e.seq \in Nat /\ f.seq \in Nat
  BY DEF OneHull
<1>2. ~(e.seq < f.seq) /\ ~(f.seq < e.seq)
  <2>1. PlaceOf(S, e) \in Int /\ PlaceOf(S, f) \in Int
    BY PlacesInOrder
  <2>2. e.seq < f.seq => PlaceOf(S, e) < PlaceOf(S, f)
    BY PlacesInOrder
  <2>3. f.seq < e.seq => PlaceOf(S, f) < PlaceOf(S, e)
    BY PlacesInOrder
  <2> QED
    BY <2>1, <2>2, <2>3
<1> QED
  BY <1>1, <1>2 DEF OneHull

LEMMA EveryPlaceTaken ==
  ASSUME NEW S, OneHull(S), NEW i \in 1 .. Cardinality(S)
  PROVE  \E e \in S : PlaceOf(S, e) = i
<1> DEFINE n == Cardinality(S)
<1> PICK F : F = [e \in S |-> PlaceOf(S, e)]
  OBVIOUS
<1>1. n \in Nat /\ IsFiniteSet(1 .. n) /\ Cardinality(1 .. n) = n
  <2>1. n \in Nat
    BY FS_CardinalityType DEF OneHull
  <2> HIDE DEF n
  <2> QED
    BY <2>1, FS_Interval
<1>2. F \in Injection(S, 1 .. n)
  <2>1. F \in [S -> 1 .. n]
    BY PlacesInOrder
  <2>2. \A e, f \in S : F[e] = F[f] => e = f
    BY OnePlaceEach
  <2> QED
    BY <2>1, <2>2 DEF Injection, IsInjective
<1>3. F \in Surjection(S, 1 .. n)
  BY <1>1, <1>2, FS_Injection
<1>4. \E e \in S : F[e] = i
  BY <1>3 DEF Surjection
<1> QED
  BY <1>4

(* So a hull's chain is its entries, each once, by their numbers.          *)
LEMMA ChainInOrder ==
  ASSUME NEW h, OneHull(EntriesOf(h))
  PROVE  LET c == ChainOf(h)
         IN  /\ Len(c) \in Nat /\ DOMAIN c = 1 .. Len(c) /\ c \in Seq(EntriesOf(h))
             /\ \A i, j \in DOMAIN c : i < j => c[i].seq < c[j].seq
             /\ \A e \in EntriesOf(h) : \E i \in DOMAIN c : c[i] = e
<1> DEFINE S == EntriesOf(h)
           n == Cardinality(S)
<1> PICK c : c = [i \in 1 .. n |-> CHOOSE e \in S : PlaceOf(S, e) = i]
  OBVIOUS
<1>1. c = ChainOf(h)
  BY DEF ChainOf
<1>2. n \in Nat
  BY FS_CardinalityType DEF OneHull
<1>3. \A i \in 1 .. n : c[i] \in S /\ PlaceOf(S, c[i]) = i
  <2> TAKE i \in 1 .. n
  <2>1. \E e \in S : PlaceOf(S, e) = i
    BY EveryPlaceTaken
  <2> HIDE DEF S
  <2>2. c[i] = CHOOSE e \in S : PlaceOf(S, e) = i
    OBVIOUS
  <2> QED
    BY <2>1, <2>2
<1>4. DOMAIN c = 1 .. n
  OBVIOUS
<1> HIDE DEF S, n
<1>5. c \in [1 .. n -> S]
  BY <1>3
<1>6. c \in Seq(S) /\ Len(c) = n
  BY <1>2, <1>5
<1>7. ASSUME NEW i \in 1 .. n, NEW j \in 1 .. n, i < j
      PROVE  c[i].seq < c[j].seq
  <2>1. c[i] \in S /\ c[j] \in S /\ PlaceOf(S, c[i]) = i /\ PlaceOf(S, c[j]) = j
    BY <1>3
  <2>2. OneHull(S) /\ c[i].seq \in Nat /\ c[j].seq \in Nat
    BY <2>1 DEF S, OneHull
  <2>3. c[j].seq # c[i].seq
    <3>1. c[j].seq = c[i].seq => c[j] = c[i]
      BY <2>1, <2>2 DEF OneHull
    <3> QED
      BY <1>7, <2>1, <3>1
  <2>4. ~(c[j].seq < c[i].seq)
    <3>1. c[j].seq < c[i].seq => PlaceOf(S, c[j]) < PlaceOf(S, c[i])
      BY <2>1, <2>2, PlacesInOrder
    <3> QED
      BY <1>7, <2>1, <3>1
  <2> QED
    BY <2>2, <2>3, <2>4
<1>8. ASSUME NEW e \in S
      PROVE  \E i \in 1 .. n : c[i] = e
  <2>1. OneHull(S)
    BY DEF S
  <2>2. PlaceOf(S, e) \in 1 .. n
    BY <2>1, PlacesInOrder DEF n
  <2>3. c[PlaceOf(S, e)] = e
    BY <1>3, <2>1, <2>2, OnePlaceEach
  <2> QED
    BY <2>2, <2>3
<1> QED
  BY <1>1, <1>2, <1>4, <1>6, <1>7, <1>8 DEF S

(* A chain of entries in order, unbroken.                                  *)
Written(c) ==
  /\ Len(c) \in Nat /\ DOMAIN c = 1 .. Len(c)
  /\ c = [i \in DOMAIN c |-> c[i]]
  /\ \A i \in DOMAIN c : EntryOK(c[i])
  /\ Unbroken(c)

(* The chain of every hull of a linked ledger is unbroken.                 *)
LEMMA ChainsAreWritten ==
  ASSUME IInv, NEW h
  PROVE  Written(ChainOf(h)) /\ ChainOf(h) \in Seq(EntriesOf(h))
<1> DEFINE S == EntriesOf(h)
<1>1. OneHull(S)
  <2>1. S \in SUBSET table
    BY DEF EntriesOf
  <2>2. IsFiniteSet(S)
    BY <2>1, FS_Subset DEF IInv, TypeOK
  <2>3. \A e \in S : e.seq \in Nat
    BY <2>1 DEF IInv, TypeOK, EntryOK
  <2>4. \A e, f \in S : e.hull = f.hull /\ (e.seq = f.seq => e = f)
    BY DEF IInv, ChainLinks, Linked, EntriesOf
  <2> QED
    BY <2>2, <2>3, <2>4 DEF OneHull
<1> PICK c : c = ChainOf(h)
  OBVIOUS
<1>2. /\ Len(c) \in Nat /\ DOMAIN c = 1 .. Len(c) /\ c \in Seq(S)
      /\ \A i, j \in DOMAIN c : i < j => c[i].seq < c[j].seq
      /\ \A e \in S : \E i \in DOMAIN c : c[i] = e
  BY <1>1, ChainInOrder
<1>3. \A i \in DOMAIN c : c[i] \in S /\ c[i] \in table /\ c[i].hull = h /\ c[i].seq \in Nat
  BY <1>1, <1>2 DEF OneHull, EntriesOf
<1>4. \A i \in DOMAIN c : EntryOK(c[i])
  BY <1>3 DEF IInv, TypeOK
<1>5. ASSUME NEW i \in DOMAIN c
      PROVE  LastHash(Before(table, c[i])) = Previous(c, i)
  <2> DEFINE B == Before(table, c[i])
  <2>1. \A e \in B : \E k \in DOMAIN c : c[k] = e /\ k < i
    <3> TAKE e \in B
    <3>1. e \in S /\ e.seq < c[i].seq
      BY <1>3 DEF Before, EntriesOf
    <3>2. PICK k \in DOMAIN c : c[k] = e
      BY <1>2, <3>1
    <3>3. k # i /\ ~(i < k)
      BY <1>2, <1>3, <3>1, <3>2
    <3> QED
      BY <1>2, <3>2, <3>3
  <2>2. \A k \in DOMAIN c : k < i => c[k] \in B
    BY <1>2, <1>3 DEF Before
  <2> HIDE DEF B
  <2>3. CASE i = 1
    <3>1. B = {}
      BY <1>2, <2>1, <2>3
    <3> QED
      BY <2>3, <3>1 DEF LastHash, Previous, B
  <2>4. CASE i # 1
    <3>1. i - 1 \in DOMAIN c /\ i - 1 < i
      BY <1>2, <2>4
    <3>2. c[i - 1] \in B
      BY <2>2, <3>1
    <3>3. \A f \in B : f.seq <= c[i - 1].seq
      <4> TAKE f \in B
      <4>1. PICK k \in DOMAIN c : c[k] = f /\ k < i
        BY <2>1
      <4>2. k = i - 1 \/ k < i - 1
        BY <1>2, <4>1
      <4> QED
        BY <1>2, <1>3, <3>1, <4>1, <4>2
    <3>4. \A e \in B : (\A f \in B : f.seq <= e.seq) => e = c[i - 1]
      <4> TAKE e \in B
      <4> HAVE \A f \in B : f.seq <= e.seq
      <4>1. PICK k \in DOMAIN c : c[k] = e /\ k < i
        BY <2>1
      <4>2. c[i - 1].seq <= c[k].seq
        BY <3>2, <4>1
      <4>3. ~(k < i - 1)
        BY <1>2, <1>3, <3>1, <4>1, <4>2
      <4> QED
        BY <1>2, <4>1, <4>3
    <3>5. LastHash(B) = c[i - 1].hash
      BY <3>2, <3>3, <3>4 DEF LastHash
    <3> QED
      BY <2>4, <3>5 DEF Previous, B
  <2> QED
    BY <2>3, <2>4
<1>6. Unbroken(c)
  BY <1>3, <1>5 DEF Unbroken, IInv, ChainLinks, Linked
<1>7. c = [i \in DOMAIN c |-> c[i]]
  BY <1>2
<1> QED
  BY <1>2, <1>4, <1>6, <1>7 DEF Written

(* No two entries of a chain carry the same digest, and none that of no    *)
(* entry: were two the same, so were those before them, down to the first. *)
LEMMA DigestsDiffer ==
  ASSUME NEW c, Written(c), NEW i \in DOMAIN c, NEW j \in DOMAIN c, i < j
  PROVE  c[i].hash # c[j].hash /\ c[i].hash # NoDigest
<1> DEFINE Bad == {m \in DOMAIN c : \E k \in DOMAIN c : m < k /\ c[m].hash = c[k].hash}
<1>1. \A m \in DOMAIN c : /\ c[m].hash # NoDigest
                          /\ c[m].hash = expected_hash(Previous(c, m), c[m])
  <2> TAKE m \in DOMAIN c
  <2>1. EntryOK(c[m]) /\ expected_hash(Previous(c, m), c[m]) = c[m].hash
    BY DEF Written, Unbroken
  <2> QED
    BY <2>1, SameDigest
<1>2. Bad = {}
  <2> SUFFICES ASSUME Bad # {} PROVE FALSE
    OBVIOUS
  <2>1. PICK m \in Bad : \A k \in Bad : m <= k
    <3>1. Bad \subseteq Nat
      BY DEF Written
    <3> HIDE DEF Bad
    <3> QED
      BY <3>1, Least
  <2>2. PICK k \in DOMAIN c : m < k /\ c[m].hash = c[k].hash
    BY <2>1
  <2>3. m \in DOMAIN c /\ m \in 1 .. Len(c) /\ k \in 1 .. Len(c) /\ Len(c) \in Nat
    BY <2>1, <2>2 DEF Written
  <2>4. Previous(c, m) = Previous(c, k)
    <3>1. EntryOK(c[m]) /\ EntryOK(c[k])
      BY <2>3 DEF Written
    <3>2. expected_hash(Previous(c, m), c[m]) = expected_hash(Previous(c, k), c[k])
      BY <1>1, <2>2, <2>3
    <3> QED
      BY <3>1, <3>2, SameDigest
  <2>5. k - 1 \in DOMAIN c /\ Previous(c, k) = c[k - 1].hash
    BY <2>2, <2>3 DEF Previous, Written
  <2>6. CASE m = 1
    BY <1>1, <2>4, <2>5, <2>6 DEF Previous
  <2>7. CASE m # 1
    <3>1. m - 1 \in DOMAIN c /\ m - 1 < k - 1 /\ c[m - 1].hash = c[k - 1].hash
      BY <2>2, <2>3, <2>4, <2>5, <2>7 DEF Previous, Written
    <3>2. m - 1 \in Bad /\ ~(m <= m - 1)
      BY <2>3, <2>5, <3>1
    <3> QED
      BY <2>1, <3>2
  <2> QED
    BY <2>6, <2>7
<1> QED
  BY <1>1, <1>2

-----------------------------------------------------------------------------
(* An entry edited where it stands keeps its digest, which was made of its *)
(* version, its content and, in format 2, its actor.                       *)
LEMMA EditedInPlace ==
  ASSUME NEW c, Written(c), NEW i \in DOMAIN c, NEW s, DOMAIN s = DOMAIN c,
         NEW f, s[i] = f, f.hash = c[i].hash, verify_chain(s) = Intact
  PROVE  /\ f.version = c[i].version /\ f.content = c[i].content
         /\ c[i].version = 2 => f.actor = c[i].actor
<1>1. DOMAIN s = 1 .. Len(c) /\ Len(c) \in Nat /\ i \in DOMAIN s
  BY DEF Written
<1>2. Unbroken(s)
  BY <1>1, VerifyMeans
<1>3. expected_hash(Previous(s, i), f) = f.hash
  BY <1>1, <1>2 DEF Unbroken
<1>4. EntryOK(c[i]) /\ expected_hash(Previous(c, i), c[i]) = c[i].hash
  BY DEF Written, Unbroken
<1> QED
  BY <1>3, <1>4, SameDigest

(* What was hashed of an entry edited where it stands is as it was.        *)
LEMMA KeptInPlace ==
  ASSUME NEW c, Written(c), NEW i \in DOMAIN c, NEW f, NEW s, DOMAIN s = DOMAIN c,
         s[i] = f, \A k \in DOMAIN c : k # i => s[k] = c[k],
         f.hash = c[i].hash, f.prev = c[i].prev, verify_chain(s) = Intact
  PROVE  Record(s) = Record(c)
<1>2. /\ f.version = c[i].version /\ f.content = c[i].content
      /\ c[i].version = 2 => f.actor = c[i].actor
  BY EditedInPlace
<1>3. c[i].version = 1 \/ c[i].version = 2
  BY DEF Written, EntryOK, CHAIN_VERSION
<1>4. Hashed(f) = Hashed(c[i])
  BY <1>2, <1>3 DEF Hashed
<1>5. \A k \in DOMAIN c : Hashed(s[k]) = Hashed(c[k])
  BY <1>4
<1> QED
  BY <1>5 DEF Record

(* An entry with one field written over, be it its content, its actor, its *)
(* format, its number or its subject.                                      *)
LEMMA InPlaceShows ==
  ASSUME NEW c, Written(c), NEW s, verify_chain(s) = Intact,
         \/ s \in Altered(c) \cup Renamed(c) \cup Versioned(c)
         \/ s \in Resubjected(c) \cup Renumbered(c)
  PROVE  Record(s) = Record(c)
<1>1. ASSUME NEW i \in DOMAIN c, NEW f, s = [c EXCEPT ![i] = f],
             f.hash = c[i].hash, f.prev = c[i].prev
      PROVE  Record(s) = Record(c)
  <2>1. DOMAIN s = DOMAIN c /\ s[i] = f /\ \A k \in DOMAIN c : k # i => s[k] = c[k]
    BY <1>1
  <2>2. f.hash = c[i].hash /\ f.prev = c[i].prev
    BY <1>1
  <2> PICK t : t = s
    OBVIOUS
  <2>3. Record(t) = Record(c)
    <3>1. /\ DOMAIN t = DOMAIN c /\ t[i] = f /\ \A k \in DOMAIN c : k # i => t[k] = c[k]
          /\ verify_chain(t) = Intact
      BY <2>1
    <3> QED
      BY <2>2, <3>1, KeptInPlace
  <2> QED
    BY <2>3
<1>2. \A i \in DOMAIN c : EntryOK(c[i])
  BY DEF Written
<1>3. CASE s \in Altered(c)
  <2>1. PICK i \in DOMAIN c : s = [c EXCEPT ![i].content = Forged]
    BY <1>3 DEF Altered
  <2>2. PICK f : f = [c[i] EXCEPT !.content = Forged]
    OBVIOUS
  <2>3. s = [c EXCEPT ![i] = f] /\ f.hash = c[i].hash /\ f.prev = c[i].prev
    BY <1>2, <2>1, <2>2 DEF EntryOK
  <2> QED
    BY <1>1, <2>3
<1>4. CASE s \in Renamed(c)
  <2>1. PICK i \in DOMAIN c, a \in Actors \cup {Nobody} : s = [c EXCEPT ![i].actor = a]
    BY <1>4 DEF Renamed
  <2>2. PICK f : f = [c[i] EXCEPT !.actor = a]
    OBVIOUS
  <2>3. s = [c EXCEPT ![i] = f] /\ f.hash = c[i].hash /\ f.prev = c[i].prev
    BY <1>2, <2>1, <2>2 DEF EntryOK
  <2> QED
    BY <1>1, <2>3
<1>5. CASE s \in Versioned(c)
  <2>1. PICK i \in DOMAIN c, v \in {1, 2, 3} : s = [c EXCEPT ![i].version = v]
    BY <1>5 DEF Versioned
  <2>2. PICK f : f = [c[i] EXCEPT !.version = v]
    OBVIOUS
  <2>3. s = [c EXCEPT ![i] = f] /\ f.hash = c[i].hash /\ f.prev = c[i].prev
    BY <1>2, <2>1, <2>2 DEF EntryOK
  <2> QED
    BY <1>1, <2>3
<1>6. CASE s \in Resubjected(c)
  <2>1. PICK i \in DOMAIN c, x \in Subjects \cup {None} : s = [c EXCEPT ![i].subject = x]
    BY <1>6 DEF Resubjected
  <2>2. PICK f : f = [c[i] EXCEPT !.subject = x]
    OBVIOUS
  <2>3. s = [c EXCEPT ![i] = f] /\ f.hash = c[i].hash /\ f.prev = c[i].prev
    BY <1>2, <2>1, <2>2 DEF EntryOK
  <2> QED
    BY <1>1, <2>3
<1>7. CASE s \in Renumbered(c)
  <2>1. PICK i \in DOMAIN c : s = [c EXCEPT ![i].seq = 0]
    BY <1>7 DEF Renumbered
  <2>2. PICK f : f = [c[i] EXCEPT !.seq = 0]
    OBVIOUS
  <2>3. s = [c EXCEPT ![i] = f] /\ f.hash = c[i].hash /\ f.prev = c[i].prev
    BY <1>2, <2>1, <2>2 DEF EntryOK
  <2> QED
    BY <1>1, <2>3
<1> QED
  BY <1>3, <1>4, <1>5, <1>6, <1>7

(* An entry out of its place names a digest that is not the one before it. *)
LEMMA OutOfPlace ==
  ASSUME NEW c, Written(c), NEW n \in Nat, NEW s, DOMAIN s = 1 .. n,
         verify_chain(s) = Intact,
         NEW i \in DOMAIN c, NEW j \in DOMAIN c, i \in 1 .. n,
         s[i] = c[j], i # 1 => s[i - 1] = c[i - 1]
  PROVE  i = j
<1>1. i \in 1 .. Len(c) /\ j \in 1 .. Len(c) /\ Len(c) \in Nat /\ DOMAIN c = 1 .. Len(c)
  BY DEF Written
<1>2. c[j].prev = Previous(s, i) /\ c[j].prev = Previous(c, j)
  BY VerifyMeans DEF Unbroken, Written
<1>3. Previous(s, i) = Previous(c, i)
  BY DEF Previous
<1>4. i # 1 => i - 1 \in DOMAIN c /\ Previous(c, i) = c[i - 1].hash
  BY <1>1 DEF Previous
<1>5. j # 1 => j - 1 \in DOMAIN c /\ Previous(c, j) = c[j - 1].hash
  BY <1>1 DEF Previous
<1>6. \A k \in DOMAIN c : c[k].hash # NoDigest
  <2> TAKE k \in DOMAIN c
  <2>1. EntryOK(c[k]) /\ expected_hash(Previous(c, k), c[k]) = c[k].hash
    BY DEF Written, Unbroken
  <2> QED
    BY <2>1, SameDigest
<1>7. CASE i = 1
  BY <1>2, <1>3, <1>5, <1>6, <1>7 DEF Previous
<1>8. CASE j = 1
  BY <1>2, <1>3, <1>4, <1>6, <1>8 DEF Previous
<1>9. CASE i # 1 /\ j # 1
  <2>1. c[i - 1].hash = c[j - 1].hash
    BY <1>2, <1>3, <1>4, <1>5, <1>9
  <2>2. ~(i - 1 < j - 1)
    BY <1>4, <1>5, <1>9, <2>1, DigestsDiffer
  <2>3. ~(j - 1 < i - 1)
    BY <1>4, <1>5, <1>9, <2>1, DigestsDiffer
  <2> QED
    BY <1>1, <2>2, <2>3
<1> QED
  BY <1>7, <1>8, <1>9

LEMMA ReorderedShows ==
  ASSUME NEW c, Written(c), NEW s \in Reordered(c), verify_chain(s) = Intact
  PROVE  s = c
<1>1. PICK i \in DOMAIN c, j \in DOMAIN c : s = [c EXCEPT ![i] = c[j], ![j] = c[i]]
  BY DEF Reordered
<1>2. /\ DOMAIN c = 1 .. Len(c) /\ Len(c) \in Nat /\ DOMAIN s = 1 .. Len(c)
      /\ i \in 1 .. Len(c) /\ j \in 1 .. Len(c)
  BY <1>1 DEF Written
<1>3. ASSUME i < j PROVE FALSE
  <2>1. s[i] = c[j] /\ (i # 1 => s[i - 1] = c[i - 1])
    BY <1>1, <1>2, <1>3
  <2> QED
    BY <1>2, <1>3, <2>1, OutOfPlace
<1>4. ASSUME j < i PROVE FALSE
  <2>1. s[j] = c[i] /\ (j # 1 => s[j - 1] = c[j - 1])
    BY <1>1, <1>2, <1>4
  <2> QED
    BY <1>2, <1>4, <2>1, OutOfPlace
<1>5. i = j
  BY <1>2, <1>3, <1>4
<1>6. s = [k \in DOMAIN c |-> c[k]]
  BY <1>1, <1>5
<1> QED
  BY <1>6 DEF Written

LEMMA Joined ==
  ASSUME NEW E, NEW a \in Seq(E), NEW b \in Seq(E)
  PROVE  /\ a \o b \in Seq(E) /\ Len(a \o b) = Len(a) + Len(b)
         /\ DOMAIN (a \o b) = 1 .. Len(a) + Len(b)
         /\ \A k \in 1 .. Len(a) : (a \o b)[k] = a[k]
         /\ \A k \in 1 .. Len(b) : (a \o b)[Len(a) + k] = b[k]
OBVIOUS

(* A chain that has lost an entry verifies only as a prefix: the loss is   *)
(* of the newest.                                                          *)
LEMMA RemovedShows ==
  ASSUME NEW E, NEW c \in Seq(E), Written(c), NEW s \in Removed(c), verify_chain(s) = Intact
  PROVE  IsPrefix(s, c)
<1>1. PICK i \in DOMAIN c : s = RemoveAt(c, i)
  BY DEF Removed
<1> DEFINE n == Len(c)
           front == SubSeq(c, 1, i - 1)
           back == SubSeq(c, i + 1, n)
<1>2. n \in Nat /\ i \in 1 .. n
  BY DEF Written
<1>3. /\ front \in Seq(E) /\ Len(front) = i - 1
      /\ \A k \in 1 .. i - 1 : front[k] = c[k]
  BY <1>2
<1>4. /\ back \in Seq(E) /\ Len(back) = n - i
      /\ \A k \in 1 .. n - i : back[k] = c[i + k]
  BY <1>2
<1>5. s = front \o back
  BY <1>1 DEF RemoveAt
<1> HIDE DEF front, back
<1>6. /\ s \in Seq(E) /\ Len(s) = n - 1 /\ DOMAIN s = 1 .. n - 1
      /\ \A k \in 1 .. n - 1 : s[k] = IF k < i THEN c[k] ELSE c[k + 1]
  <2>1. /\ s \in Seq(E) /\ Len(s) = Len(front) + Len(back) /\ DOMAIN s = 1 .. Len(front) + Len(back)
        /\ \A k \in 1 .. Len(front) : s[k] = front[k]
        /\ \A k \in 1 .. Len(back) : s[Len(front) + k] = back[k]
    <3>1. front \in Seq(E) /\ back \in Seq(E)
      BY <1>3, <1>4
    <3>2. PICK t : t = front \o back
      OBVIOUS
    <3>3. /\ t \in Seq(E) /\ Len(t) = Len(front) + Len(back)
          /\ DOMAIN t = 1 .. Len(front) + Len(back)
          /\ \A k \in 1 .. Len(front) : t[k] = front[k]
          /\ \A k \in 1 .. Len(back) : t[Len(front) + k] = back[k]
      BY <3>1, <3>2, Joined
    <3>4. s = t
      BY <1>5, <3>2
    <3> QED
      BY <3>3, <3>4
  <2> HIDE DEF n
  <2>2. Len(s) = n - 1 /\ DOMAIN s = 1 .. n - 1
    BY <1>2, <1>3, <1>4, <2>1
  <2>3. ASSUME NEW k \in 1 .. n - 1
        PROVE  s[k] = IF k < i THEN c[k] ELSE c[k + 1]
    <3>1. CASE k < i
      BY <1>2, <1>3, <2>1, <3>1
    <3>2. CASE ~(k < i)
      <4>1. PICK j \in 1 .. n - i : j = k - (i - 1)
        BY <1>2, <3>2
      <4>2. s[Len(front) + j] = back[j] /\ back[j] = c[i + j]
        BY <1>4, <2>1
      <4>3. Len(front) + j = k /\ i + j = k + 1
        BY <1>2, <1>3, <4>1
      <4> QED
        BY <3>2, <4>2, <4>3
    <3> QED
      BY <3>1, <3>2
  <2> QED
    BY <2>1, <2>2, <2>3
<1> HIDE DEF n
<1>7. CASE i = n
  <2>1. \A k \in 1 .. n - 1 : s[k] = c[k]
    BY <1>2, <1>6, <1>7
  <2>2. SubSeq(s, 1, Len(s)) = SubSeq(c, 1, Len(s))
    BY <1>2, <1>6, <2>1 DEF n
  <2> QED
    BY <1>2, <1>6, <2>2 DEF IsPrefix, n
<1>8. CASE i # n
  <2> PICK j : j = i + 1
    OBVIOUS
  <2> PICK m : m = n - 1
    OBVIOUS
  <2>1. /\ i \in 1 .. m /\ j \in 1 .. n /\ m \in Nat /\ i # j
        /\ i # 1 => i - 1 \in 1 .. m /\ i - 1 < i
    BY <1>2, <1>8
  <2>2. s[i] = c[j] /\ (i # 1 => s[i - 1] = c[i - 1])
    BY <1>2, <1>6, <2>1
  <2>3. j \in DOMAIN c /\ DOMAIN s = 1 .. m
    BY <1>6, <2>1 DEF Written, n
  <2> QED
    BY <2>1, <2>2, <2>3, OutOfPlace
<1> QED
  BY <1>7, <1>8

LEMMA RepeatedShows ==
  ASSUME NEW E, NEW c \in Seq(E), Written(c), NEW s \in Repeated(c), verify_chain(s) = Intact
  PROVE  FALSE
<1>1. PICK i \in DOMAIN c : s = InsertAt(c, i, c[i])
  BY DEF Repeated
<1> DEFINE n == Len(c)
           front == SubSeq(c, 1, i - 1)
           back == SubSeq(c, i, n)
<1>2. n \in Nat /\ i \in 1 .. n /\ DOMAIN c = 1 .. n /\ c[i] \in E
  BY DEF Written
<1>3. front \in Seq(E) /\ Len(front) = i - 1
  BY <1>2
<1>4. back \in Seq(E) /\ Len(back) = n - i + 1 /\ back[1] = c[i]
  BY <1>2
<1>5. s = front \o <<c[i]>> \o back
  BY <1>1 DEF InsertAt
<1> HIDE DEF n, front, back
<1>6. DOMAIN s = 1 .. n + 1 /\ s[i] = c[i] /\ s[i + 1] = c[i]
  <2> DEFINE most == front \o <<c[i]>>
  <2>1. most \in Seq(E) /\ Len(most) = i /\ most[i] = c[i]
    BY <1>2, <1>3
  <2>2. s = most \o back
    BY <1>5
  <2> HIDE DEF most
  <2>3. /\ DOMAIN s = 1 .. Len(most) + Len(back)
        /\ \A k \in 1 .. Len(most) : s[k] = most[k]
        /\ \A k \in 1 .. Len(back) : s[Len(most) + k] = back[k]
    BY <1>4, <2>1, <2>2, Joined
  <2>4. i \in 1 .. Len(most) /\ 1 \in 1 .. Len(back) /\ Len(most) + Len(back) = n + 1
    BY <1>2, <1>4, <2>1
  <2> QED
    BY <1>4, <2>1, <2>3, <2>4
<1>7. c[i].prev = c[i].hash
  <2>1. Unbroken(s)
    BY <1>2, <1>6, VerifyMeans
  <2>2. i + 1 \in DOMAIN s /\ i + 1 # 1 /\ (i + 1) - 1 = i
    BY <1>2, <1>6
  <2>3. s[i + 1].prev = s[i].hash
    BY <2>1, <2>2 DEF Unbroken, Previous
  <2> QED
    BY <1>6, <2>3
<1>8. c[i].prev = Previous(c, i) /\ expected_hash(Previous(c, i), c[i]) = c[i].hash /\ EntryOK(c[i])
  BY DEF Written, Unbroken
<1>9. CASE i = 1
  BY <1>7, <1>8, <1>9, SameDigest DEF Previous
<1>10. CASE i # 1
  <2>1. i - 1 \in DOMAIN c /\ i - 1 < i
    BY <1>2, <1>10
  <2> QED
    BY <1>7, <1>8, <1>10, <2>1, DigestsDiffer DEF Previous
<1> QED
  BY <1>9, <1>10

LEMMA Recorded ==
  ASSUME NEW E, NEW s \in Seq(E)
  PROVE  LET R == {Hashed(e) : e \in E}
         IN  /\ Record(s) \in Seq(R) /\ Len(Record(s)) = Len(s)
             /\ \A i \in DOMAIN s : Record(s)[i] = Hashed(s[i])
<1> DEFINE R == {Hashed(e) : e \in E}
<1>1. DOMAIN s = 1 .. Len(s) /\ Len(s) \in Nat /\ \A i \in DOMAIN s : s[i] \in E
  OBVIOUS
<1>2. Record(s) = [i \in 1 .. Len(s) |-> Hashed(s[i])]
  BY <1>1 DEF Record
<1>3. \A i \in 1 .. Len(s) : Hashed(s[i]) \in R
  BY <1>1
<1> HIDE DEF R
<1>4. Record(s) \in [1 .. Len(s) -> R]
  BY <1>2, <1>3
<1>5. Record(s) \in Seq(R) /\ Len(Record(s)) = Len(s)
  BY <1>1, <1>4
<1> QED
  BY <1>1, <1>2, <1>5 DEF R

(* A prefix, element by element.                                           *)
LEMMA PrefixMeans ==
  ASSUME NEW E, NEW a \in Seq(E), NEW b \in Seq(E)
  PROVE  IsPrefix(a, b) <=> Len(a) <= Len(b) /\ \A i \in 1 .. Len(a) : a[i] = b[i]
<1>1. Len(a) \in Nat /\ Len(b) \in Nat /\ SubSeq(a, 1, Len(a)) = a
  OBVIOUS
<1>2. ASSUME Len(a) <= Len(b)
      PROVE  /\ SubSeq(b, 1, Len(a)) \in Seq(E) /\ Len(SubSeq(b, 1, Len(a))) = Len(a)
             /\ \A i \in 1 .. Len(a) : SubSeq(b, 1, Len(a))[i] = b[i]
  BY <1>1, <1>2
<1>3. ASSUME Len(a) <= Len(b), \A i \in 1 .. Len(a) : a[i] = b[i]
      PROVE  SubSeq(b, 1, Len(a)) = a
  BY <1>1, <1>2, <1>3
<1>4. ASSUME Len(a) <= Len(b), SubSeq(b, 1, Len(a)) = a
      PROVE  \A i \in 1 .. Len(a) : a[i] = b[i]
  BY <1>2, <1>4
<1>5. IsPrefix(a, b) <=> Len(a) <= Len(b) /\ SubSeq(a, 1, Len(a)) = SubSeq(b, 1, Len(a))
  BY DEF IsPrefix
<1> QED
  BY <1>1, <1>3, <1>4, <1>5

(* What reads as a prefix of a chain verifies: nothing outside the record  *)
(* is looked at.                                                           *)
LEMMA RecordVerifies ==
  ASSUME NEW E, NEW c \in Seq(E), Written(c), NEW s \in Seq(E),
         IsPrefix(Record(s), Record(c))
  PROVE  verify_chain(s) = Intact
<1>1. /\ Len(s) \in Nat /\ DOMAIN s = 1 .. Len(s)
      /\ Len(c) \in Nat /\ DOMAIN c = 1 .. Len(c)
  OBVIOUS
<1>2. Len(s) <= Len(c) /\ \A i \in 1 .. Len(s) : Hashed(s[i]) = Hashed(c[i])
  <2>1. /\ Record(s) \in Seq({Hashed(e) : e \in E}) /\ Len(Record(s)) = Len(s)
        /\ Record(c) \in Seq({Hashed(e) : e \in E}) /\ Len(Record(c)) = Len(c)
        /\ \A i \in DOMAIN s : Record(s)[i] = Hashed(s[i])
        /\ \A i \in DOMAIN c : Record(c)[i] = Hashed(c[i])
    BY Recorded
  <2>2. Len(s) <= Len(c) /\ \A i \in 1 .. Len(s) : Record(s)[i] = Record(c)[i]
    BY <2>1, PrefixMeans
  <2> QED
    BY <1>1, <2>1, <2>2
<1>3. ASSUME NEW i \in 1 .. Len(s)
      PROVE  /\ s[i].prev = c[i].prev /\ s[i].hash = c[i].hash
             /\ s[i].version = c[i].version /\ s[i].content = c[i].content
             /\ s[i].version # 1 => s[i].actor = c[i].actor
  <2>1. Hashed(s[i]) = Hashed(c[i])
    BY <1>2
  <2>2. /\ Hashed(s[i]).prev = s[i].prev /\ Hashed(s[i]).hash = s[i].hash
        /\ Hashed(s[i]).version = s[i].version /\ Hashed(s[i]).content = s[i].content
        /\ s[i].version # 1 => Hashed(s[i]).actor = s[i].actor
    BY DEF Hashed
  <2>3. /\ Hashed(c[i]).prev = c[i].prev /\ Hashed(c[i]).hash = c[i].hash
        /\ Hashed(c[i]).version = c[i].version /\ Hashed(c[i]).content = c[i].content
        /\ c[i].version # 1 => Hashed(c[i]).actor = c[i].actor
    BY DEF Hashed
  <2> QED
    BY <2>1, <2>2, <2>3
<1>4. Unbroken(s)
  <2> SUFFICES ASSUME NEW i \in 1 .. Len(s)
               PROVE  /\ s[i].prev = Previous(s, i)
                      /\ expected_hash(Previous(s, i), s[i]) = s[i].hash
    BY <1>1 DEF Unbroken
  <2>1. i \in DOMAIN c /\ (i # 1 => i - 1 \in 1 .. Len(s))
    BY <1>1, <1>2
  <2>2. Previous(s, i) = Previous(c, i)
    BY <1>3, <2>1 DEF Previous
  <2>3. c[i].prev = Previous(c, i) /\ expected_hash(Previous(c, i), c[i]) = c[i].hash
    BY <2>1 DEF Written, Unbroken
  <2>4. expected_hash(Previous(c, i), s[i]) = expected_hash(Previous(c, i), c[i])
    BY <1>3 DEF expected_hash
  <2> QED
    BY <1>3, <2>2, <2>3, <2>4
<1> QED
  BY <1>1, <1>4, VerifyMeans

LEMMA PrefixOfRecord ==
  ASSUME NEW E, NEW c \in Seq(E), NEW s \in Seq(E), IsPrefix(s, c)
  PROVE  IsPrefix(Record(s), Record(c))
<1>1. Len(s) <= Len(c) /\ \A i \in 1 .. Len(s) : s[i] = c[i]
  BY PrefixMeans
<1>2. /\ Record(s) \in Seq({Hashed(e) : e \in E}) /\ Len(Record(s)) = Len(s)
      /\ Record(c) \in Seq({Hashed(e) : e \in E}) /\ Len(Record(c)) = Len(c)
      /\ \A i \in DOMAIN s : Record(s)[i] = Hashed(s[i])
      /\ \A i \in DOMAIN c : Record(c)[i] = Hashed(c[i])
  BY Recorded
<1>3. \A i \in 1 .. Len(s) : i \in DOMAIN s /\ i \in DOMAIN c
  BY <1>1
<1> QED
  BY <1>1, <1>2, <1>3, PrefixMeans

(* An edit of a chain is a sequence, of entries there or edited.           *)
LEMMA EditsAreSequences ==
  ASSUME NEW E, NEW c \in Seq(E), Written(c), NEW s \in Edits(c)
  PROVE  \E F : s \in Seq(F) /\ c \in Seq(F)
<1>1. ASSUME DOMAIN s = DOMAIN c, s = [k \in DOMAIN s |-> s[k]]
      PROVE  \E F : s \in Seq(F) /\ c \in Seq(F)
  <2> PICK F : F = E \cup {s[k] : k \in DOMAIN s}
    OBVIOUS
  <2>1. DOMAIN c = 1 .. Len(c) /\ Len(c) \in Nat
    OBVIOUS
  <2>2. s \in [1 .. Len(c) -> F]
    BY <1>1, <2>1
  <2>3. c \in [1 .. Len(c) -> F]
    BY <2>1
  <2>4. s \in Seq(F) /\ c \in Seq(F)
    BY <2>1, <2>2, <2>3
  <2> QED
    BY <2>4
<1>2. CASE \E i \in DOMAIN c : \E f : s = [c EXCEPT ![i] = f]
  BY <1>1, <1>2
<1>3. CASE s \in Altered(c) \cup Renamed(c)
  <2>1. \E i \in DOMAIN c : \E f : s = [c EXCEPT ![i] = f]
    BY <1>3 DEF Altered, Renamed
  <2> QED
    BY <1>2, <2>1
<1>4. CASE s \in Versioned(c) \cup Resubjected(c) \cup Renumbered(c)
  <2>1. \E i \in DOMAIN c : \E f : s = [c EXCEPT ![i] = f]
    BY <1>4 DEF Versioned, Resubjected, Renumbered
  <2> QED
    BY <1>2, <2>1
<1>5. CASE s \in Reordered(c)
  BY <1>1, <1>5 DEF Reordered
<1>6. CASE s \in Removed(c)
  <2>1. PICK i \in DOMAIN c : s = RemoveAt(c, i)
    BY <1>6 DEF Removed
  <2>2. SubSeq(c, 1, i - 1) \in Seq(E) /\ SubSeq(c, i + 1, Len(c)) \in Seq(E)
    OBVIOUS
  <2>3. s \in Seq(E)
    BY <2>1, <2>2 DEF RemoveAt
  <2> QED
    BY <2>3
<1>7. CASE s \in Repeated(c)
  <2>1. PICK i \in DOMAIN c : s = InsertAt(c, i, c[i])
    BY <1>7 DEF Repeated
  <2>2. SubSeq(c, 1, i - 1) \in Seq(E) /\ SubSeq(c, i, Len(c)) \in Seq(E)
    OBVIOUS
  <2>3. c[i] \in E
    OBVIOUS
  <2>4. s \in Seq(E)
    BY <2>1, <2>2, <2>3 DEF InsertAt
  <2> QED
    BY <2>4
<1> QED
  BY <1>3, <1>4, <1>5, <1>6, <1>7 DEF Edits

(* verify_chain vouches for what was hashed and for nothing else, whatever *)
(* was appended over either store: every hull's chain verifies, in both    *)
(* formats, and an edit of one entry goes unreported exactly when what was *)
(* hashed still reads as written or as a prefix of it.                     *)
THEOREM ExactVerification == Spec => []VerificationIsExact
<1>1. IInv => VerificationIsExact
  <2> SUFFICES ASSUME IInv, NEW h \in Hulls
               PROVE  /\ verify_chain(ChainOf(h)) = Intact
                      /\ \A s \in Edits(ChainOf(h)) :
                           verify_chain(s) = Intact <=> IsPrefix(Record(s), Record(ChainOf(h)))
    BY DEF VerificationIsExact
  <2> PICK c : c = ChainOf(h)
    OBVIOUS
  <2>1. Written(c) /\ c \in Seq(EntriesOf(h))
    BY ChainsAreWritten
  <2>2. verify_chain(c) = Intact
    BY <2>1, VerifyMeans DEF Written
  <2>3. ASSUME NEW s \in Edits(c) PROVE \E F : s \in Seq(F) /\ c \in Seq(F)
    BY <2>1, EditsAreSequences
  <2>4. ASSUME NEW s \in Edits(c), IsPrefix(Record(s), Record(c))
        PROVE  verify_chain(s) = Intact
    BY <2>1, <2>3, <2>4, RecordVerifies
  <2>5. ASSUME NEW s \in Edits(c), verify_chain(s) = Intact
        PROVE  IsPrefix(Record(s), Record(c))
    <3>1. PICK F : s \in Seq(F) /\ c \in Seq(F)
      BY <2>3
    <3>2. IsPrefix(c, c)
      BY <2>1, PrefixMeans
    <3>3. CASE \/ s \in Altered(c) \cup Renamed(c) \cup Versioned(c)
               \/ s \in Resubjected(c) \cup Renumbered(c)
      <4>1. Record(s) = Record(c)
        BY <2>1, <2>5, <3>3, InPlaceShows
      <4>2. IsPrefix(Record(c), Record(c))
        BY <2>1, <3>2, PrefixOfRecord
      <4> QED
        BY <4>1, <4>2
    <3>4. CASE s \in Reordered(c)
      <4>1. s = c
        BY <2>1, <2>5, <3>4, ReorderedShows
      <4> QED
        BY <2>1, <3>2, <4>1, PrefixOfRecord
    <3>5. CASE s \in Removed(c)
      <4>1. IsPrefix(s, c)
        BY <2>1, <2>5, <3>5, RemovedShows
      <4> QED
        BY <3>1, <4>1, PrefixOfRecord
    <3>6. CASE s \in Repeated(c)
      BY <2>1, <2>5, <3>6, RepeatedShows
    <3> QED
      BY <3>3, <3>4, <3>5, <3>6 DEF Edits
  <2> QED
    BY <2>2, <2>4, <2>5
<1> QED
  BY InitIInv, StepIInv, <1>1, PTL DEF Spec
=============================================================================
