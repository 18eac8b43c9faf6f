----------------------------- MODULE HazardFacts -----------------------------
(***************************************************************************)
(* What a hull's hazard register promises its readers: a list of recorded  *)
(* facts.  A fact stays open until a clearance of its key ends it; the     *)
(* clearance ends every open fact of the key at one instant and touches no *)
(* other; an ended fact keeps its end.  Facts are never removed.           *)
(***************************************************************************)
EXTENDS Integers, Sequences

CONSTANTS Keys, Never, MaxNow

VARIABLE facts   \* in the order recorded: [key, ended]

OpenFacts(k) == {i \in DOMAIN facts : facts[i].key = k /\ facts[i].ended = Never}

Init == facts \in Seq([key : Keys, ended : {Never}])

Record(k) == facts' = Append(facts, [key |-> k, ended |-> Never])

End(k, t) ==
  /\ OpenFacts(k) # {}
  /\ facts' = [i \in DOMAIN facts |->
                 IF i \in OpenFacts(k) THEN [facts[i] EXCEPT !.ended = t]
                                       ELSE facts[i]]

Next == \E k \in Keys : Record(k) \/ \E t \in 0..MaxNow : End(k, t)

Spec == Init /\ [][Next]_facts
=============================================================================
