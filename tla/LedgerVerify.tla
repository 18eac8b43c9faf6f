---------------------------- MODULE LedgerVerify ----------------------------
(***************************************************************************)
(* verify_chain, the detection half of the audit ledger, over the chains   *)
(* AuditLedger writes: a hull's chain as the ledger route and the          *)
(* verify-ledger command read it, the edits verify_chain reports, and      *)
(* those of the fields outside the digest, which it lets through.          *)
(***************************************************************************)
EXTENDS AuditLedger, SequencesExt

CONSTANTS Forged   \* content no handler ever wrote

\* An entry's place among some entries, by its number.
PlaceOf(S, e) == Cardinality(Before(S, e)) + 1

\* A hull's entries oldest first.
ChainOf(h) ==
  [i \in 1 .. Cardinality(EntriesOf(h)) |->
     CHOOSE e \in EntriesOf(h) : PlaceOf(EntriesOf(h), e) = i]

Intact == [index |-> 0, reason |-> "none"]

\* The first index at which the chain breaks, and why; Intact if none.
verify_chain(chain) ==
  LET previous(i) == IF i = 1 THEN NoDigest ELSE chain[i - 1].hash
      Break(i) ==
        IF chain[i].prev # previous(i) THEN "ChainBroken"
        ELSE IF expected_hash(previous(i), chain[i]) # chain[i].hash
             THEN "HashMismatch" ELSE "none"
      broken == {i \in DOMAIN chain : Break(i) # "none"}
      first  == CHOOSE i \in broken : \A j \in broken : i <= j
  IN  IF broken = {} THEN Intact
                     ELSE [index |-> first, reason |-> Break(first)]

\* The chain build_chain makes of n events on a hull: format 1, no actor.
build_chain(h, n) ==
  LET digest[i \in 0..n] == IF i = 0 THEN NoDigest
                            ELSE compute_hash(digest[i - 1], i)
  IN  {[hull |-> h, seq |-> i, content |-> i, subject |-> None, actor |-> Nobody,
        version |-> 1, prev |-> digest[i - 1], hash |-> digest[i]] : i \in 1..n}
-----------------------------------------------------------------------------
(* What of an entry the chain vouches for: its links, its format and what  *)
(* its digest is of.  Its number and its subject are in no digest, nor is  *)
(* the actor of an entry of format 1.                                      *)
Hashed(e) == [prev |-> e.prev, hash |-> e.hash, version |-> e.version,
              content |-> e.content,
              actor |-> IF e.version = 1 THEN Nobody ELSE e.actor]

Record(s) == [i \in DOMAIN s |-> Hashed(s[i])]

(* Edits of a chain s, each of one entry.                                  *)
Altered(s)  == {[s EXCEPT ![i].content = Forged] : i \in DOMAIN s}
Renamed(s)  == {[s EXCEPT ![i].actor = a] : i \in DOMAIN s, a \in Actors \cup {Nobody}}
Versioned(s) == {[s EXCEPT ![i].version = v] : i \in DOMAIN s, v \in {1, 2, 3}}
Resubjected(s) == {[s EXCEPT ![i].subject = x] : i \in DOMAIN s, x \in Subjects \cup {None}}
Renumbered(s) == {[s EXCEPT ![i].seq = 0] : i \in DOMAIN s}
Removed(s)  == {RemoveAt(s, i) : i \in DOMAIN s}
Reordered(s) == {[s EXCEPT ![i] = s[j], ![j] = s[i]] : i, j \in DOMAIN s}
Repeated(s) == {InsertAt(s, i, s[i]) : i \in DOMAIN s}
Edits(s) == UNION {Altered(s), Renamed(s), Versioned(s), Resubjected(s), Renumbered(s),
                   Removed(s), Reordered(s), Repeated(s)}

(* Whatever was appended, and by whichever interleaving, the ledger route   *)
(* vouches for what was hashed and for nothing else: a hull's chain          *)
(* verifies from end to end, across the change of format too, and a chain    *)
(* with one entry edited verifies exactly when what was hashed still reads   *)
(* as written, or as a prefix of it.  So the loss of the newest entries is   *)
(* not reported, nor is a new number, a new subject to look the entry up     *)
(* by, or another name under an entry of format 1.                           *)
VerificationIsExact ==
  \A h \in Hulls :
    /\ verify_chain(ChainOf(h)) = Intact
    /\ \A s \in Edits(ChainOf(h)) :
         verify_chain(s) = Intact <=> IsPrefix(Record(s), Record(ChainOf(h)))
=============================================================================
