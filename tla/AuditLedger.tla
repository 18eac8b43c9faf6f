----------------------------- MODULE AuditLedger -----------------------------
(***************************************************************************)
(* The append-only audit ledger: one hash chain per hull in one table that *)
(* all hulls share.  append_audit looks up the hull's last entry and       *)
(* inserts one that names it.                                              *)
(*                                                                         *)
(* Over PostgreSQL an append is a transaction of four statements: take the *)
(* hull's advisory lock, read the last entry, insert, commit.  Each        *)
(* statement sees what is committed when it starts, an insert draws its    *)
(* entry_id from a sequence that no rollback gives back, and the lock is   *)
(* held to the end of the transaction.  In memory the whole append runs    *)
(* under one mutex and numbers entries by the length of the log.           *)
(*                                                                         *)
(* SHA-256 is taken to be collision free: a digest is the tuple of what    *)
(* was hashed, which the separators between the fields allow as long as no *)
(* text holds one.  An entry's action, detail and instant are one content; *)
(* its subject, the key by which the issue board looks entries up, is      *)
(* stored beside them and is in no digest.                                 *)
(***************************************************************************)
EXTENDS Integers, FiniteSets

CONSTANTS
  Backends,   \* the stores the server may be started on
  Hulls,
  Contents,   \* what an entry says: its action, detail and instant
  Subjects,   \* what entries are looked up by, None among them for no subject
  Actors,     \* the people and services a scope may act as
  Requests,   \* the appends ever made
  Starts,     \* the ledgers a store may start with: written before format 2
  Nobody,     \* no actor: entries from before format 2 name none
  None        \* no request, hull or content

VARIABLES
  backend,   \* the implementation of Repositories the server runs on
  table,     \* the committed entries of every hull
  nextSeq,   \* the next entry_id the sequence hands out
  lock,      \* per hull, the transaction that holds its advisory lock
  tx         \* per request, where its append is and what it has read

vars == <<backend, table, nextSeq, lock, tx>>

CHAIN_VERSION == 2

EntriesOf(h) == {e \in table : e.hull = h}
-----------------------------------------------------------------------------
(* The two formats; the tag keeps their inputs apart.                      *)

\* No digest: what comes before a hull's first entry.
NoDigest == <<>>

compute_hash(prev, content) == <<prev, "v1", content>>

compute_hash_v2(prev, content, actor) == <<prev, "v2", content, actor>>

\* The digest an entry should carry, none when it cannot be computed.
expected_hash(prev, e) ==
  CASE e.version = 1 -> compute_hash(prev, e.content)
    [] e.version = 2 /\ e.actor # Nobody
                     -> compute_hash_v2(prev, e.content, e.actor)
    [] OTHER         -> NoDigest

\* The digest of the last entry among S, none when there is no entry.
LastHash(S) ==
  IF S = {} THEN NoDigest
            ELSE (CHOOSE e \in S : \A f \in S : f.seq <= e.seq).hash

\* The entry transaction t inserts under number seq, after digest prev.
NewEntry(t, seq, prev) ==
  [hull |-> t.hull, seq |-> seq, content |-> t.content, subject |-> t.subject,
   actor |-> t.actor, version |-> CHAIN_VERSION, prev |-> prev,
   hash |-> compute_hash_v2(prev, t.content, t.actor)]

\* The entries of e's hull that come before it in S.
Before(S, e) == {f \in S : f.hull = e.hull /\ f.seq < e.seq}

\* Every entry names the digest of the one before it on its hull and carries
\* its own; no two entries of a hull share a place.
Linked(S) ==
  \A e \in S :
    /\ e.prev = LastHash(Before(S, e))
    /\ e.hash = expected_hash(e.prev, e)
    /\ \A f \in S : f.hull = e.hull /\ f.seq = e.seq => f = e

EntryOK(e) == /\ e = [hull |-> e.hull, seq |-> e.seq, content |-> e.content,
                     subject |-> e.subject, actor |-> e.actor,
                     version |-> e.version, prev |-> e.prev, hash |-> e.hash]
              /\ e.hull \in Hulls
              /\ e.seq \in Nat
              /\ e.version \in 1..CHAIN_VERSION
              /\ e.version = CHAIN_VERSION => e.actor \in Actors

ASSUME LedgerBackendAssumption == Backends \subseteq {"memory", "postgres"}
ASSUME NobodyAssumption == Nobody \notin Actors
ASSUME NoneAssumption == None \notin Requests
ASSUME StartsAssumption ==
  \A start \in Starts :
    /\ IsFiniteSet(start.table)
    /\ Linked(start.table)
    /\ start.nextSeq \in Nat
    /\ \A e \in start.table : EntryOK(e) /\ e.seq < start.nextSeq
-----------------------------------------------------------------------------
Idle == [pc |-> "idle", hull |-> None, content |-> None, subject |-> None,
         actor |-> Nobody, prev |-> NoDigest, seq |-> 0]

Init ==
  /\ backend \in Backends
  /\ \E start \in Starts : table = start.table /\ nextSeq = start.nextSeq
  /\ backend = "memory" => table = {}    \* an in-memory ledger starts empty
  /\ lock = [h \in Hulls |-> None]
  /\ tx = [r \in Requests |-> Idle]

\* A handler calls append_audit on a hull of its scope.
Ask(r) ==
  /\ tx[r].pc = "idle"
  /\ \E h \in Hulls, c \in Contents, s \in Subjects, a \in Actors :
       tx' = [tx EXCEPT ![r] = [Idle EXCEPT !.pc = "lock", !.hull = h, !.content = c,
                                            !.subject = s, !.actor = a]]
  /\ UNCHANGED <<backend, table, nextSeq, lock>>

\* The in-memory store: look up and push in one mutex section.
AppendInMemory(r) ==
  /\ backend = "memory"
  /\ tx[r].pc = "lock"
  /\ table' = table \cup {NewEntry(tx[r], nextSeq, LastHash(EntriesOf(tx[r].hull)))}
  /\ nextSeq' = nextSeq + 1
  /\ tx' = [tx EXCEPT ![r].pc = "answered"]
  /\ UNCHANGED <<backend, lock>>

Lock(r) ==
  /\ backend = "postgres"
  /\ tx[r].pc = "lock"
  /\ lock[tx[r].hull] = None
  /\ lock' = [lock EXCEPT ![tx[r].hull] = r]
  /\ tx' = [tx EXCEPT ![r].pc = "read"]
  /\ UNCHANGED <<backend, table, nextSeq>>

\* Mutant: the last entry is looked up across all hulls.
ReadLastOfAll(r) ==
  /\ tx[r].pc = "read"
  /\ tx' = [tx EXCEPT ![r].pc = "insert", ![r].prev = LastHash(table)]
  /\ UNCHANGED <<backend, table, nextSeq, lock>>

ReadLast(r) ==
  /\ tx[r].pc = "read"
  /\ tx' = [tx EXCEPT ![r].pc = "insert",
                      ![r].prev = LastHash(EntriesOf(tx[r].hull))]
  /\ UNCHANGED <<backend, table, nextSeq, lock>>

\* Mutant: the lock is given up with the insert, before the commit.
InsertAndUnlock(r) ==
  /\ tx[r].pc = "insert"
  /\ tx' = [tx EXCEPT ![r].pc = "commit", ![r].seq = nextSeq]
  /\ nextSeq' = nextSeq + 1
  /\ lock' = [lock EXCEPT ![tx[r].hull] = None]
  /\ UNCHANGED <<backend, table>>

Insert(r) ==
  /\ tx[r].pc = "insert"
  /\ tx' = [tx EXCEPT ![r].pc = "commit", ![r].seq = nextSeq]
  /\ nextSeq' = nextSeq + 1
  /\ UNCHANGED <<backend, table, lock>>

Commit(r) ==
  /\ tx[r].pc = "commit"
  /\ table' = table \cup {NewEntry(tx[r], tx[r].seq, tx[r].prev)}
  /\ lock' = [lock EXCEPT ![tx[r].hull] = None]
  /\ tx' = [tx EXCEPT ![r].pc = "answered"]
  /\ UNCHANGED <<backend, nextSeq>>

Holds(r) == tx[r].pc \in {"read", "insert", "commit"}

\* Mutant: a failed append leaves its lock behind.
RollbackKeepingLock(r) ==
  /\ backend = "postgres"
  /\ Holds(r) \/ tx[r].pc = "lock"
  /\ tx' = [tx EXCEPT ![r].pc = "failed"]
  /\ UNCHANGED <<backend, table, nextSeq, lock>>

\* A statement fails or the handler is dropped: the transaction rolls back
\* and its lock goes with it.
Rollback(r) ==
  /\ backend = "postgres"
  /\ Holds(r) \/ tx[r].pc = "lock"
  /\ lock' = IF Holds(r) THEN [lock EXCEPT ![tx[r].hull] = None] ELSE lock
  /\ tx' = [tx EXCEPT ![r].pc = "failed"]
  /\ UNCHANGED <<backend, table, nextSeq>>

Work(r) == AppendInMemory(r) \/ Lock(r) \/ ReadLast(r) \/ Insert(r) \/ Commit(r)

Next == \E r \in Requests : Ask(r) \/ Work(r) \/ Rollback(r)

Spec == Init /\ [][Next]_vars

FairSpec == Spec /\ \A r \in Requests : WF_vars(Work(r))
-----------------------------------------------------------------------------
(* Entries and transactions hold values of their kinds, sequence numbers   *)
(* are drawn from the sequence, and a lock is held by the transaction that *)
(* took it.                                                                *)
TypeOK ==
  /\ backend \in Backends
  /\ nextSeq \in Nat
  /\ IsFiniteSet(table)
  /\ \A e \in table : EntryOK(e) /\ e.seq < nextSeq
  /\ lock \in [Hulls -> Requests \cup {None}]
  /\ DOMAIN tx = Requests
  /\ \A r \in Requests :
       /\ DOMAIN tx[r] = DOMAIN Idle
       /\ tx[r].pc \in {"idle", "lock", "read", "insert", "commit", "answered",
                        "failed"}
       /\ tx[r].pc # "idle" => tx[r].hull \in Hulls /\ tx[r].actor \in Actors
       /\ tx[r].seq \in Nat
       /\ tx[r].pc = "commit" => tx[r].seq < nextSeq
       /\ \A h \in Hulls : lock[h] = r <=> Holds(r) /\ tx[r].hull = h

(* At every instant the committed entries of every hull form one chain, in *)
(* the order of their numbers: no append names a predecessor that another  *)
(* append has already named, whatever interleaves or rolls back.           *)
ChainLinks == Linked(table)

(* Entries become visible in the order of their numbers on each hull: a    *)
(* reader that has seen entry n never finds an entry below n later.        *)
CommitInOrder ==
  [][\A e \in table' \ table : \A f \in table :
       f.hull = e.hull => f.seq < e.seq]_vars

(* Every append that is asked for commits or fails: no append waits for a  *)
(* lock nobody gives back.                                                 *)
EveryAppendEnds ==
  \A r \in Requests : tx[r].pc = "lock" ~> tx[r].pc \in {"answered", "failed"}
=============================================================================
