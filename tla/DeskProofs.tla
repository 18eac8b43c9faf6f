----------------------------- MODULE DeskProofs -----------------------------
(***************************************************************************)
(* What holds at the planner's desk for every hull, ledger, number of      *)
(* requests and history of imports, hazards and entries: every record says *)
(* what its request's reads showed, a proposal whose activity keeps its    *)
(* days stands open, and the last word entered before a reading began is   *)
(* what it shows.                                                          *)
(*                                                                         *)
(* The engine, the assessment and the board are left unexpanded: nothing   *)
(* here depends on what they answer, only on what they are asked.  What a  *)
(* request holds is stated of the versions p of the hull and the entries l *)
(* of the ledger: both only grow, so what was so of them stays so.         *)
(***************************************************************************)
EXTENDS Desk, WellFoundedInduction, TLAPS

Extends(s, t) == IsSeq(s) /\ IsSeq(t) /\ Len(s) <= Len(t) /\ \A n \in 1 .. Len(s) : t[n] = s[n]

At(p, v) == Merged(p[v], Fixed)

ReadAs(p, v, u, y) == [At(p, v) EXCEPT !.activities = p[u].activities, !.edges = p[y].edges]

ProposedIn(l) == {n \in DOMAIN l : l[n].action = "SCHEDULE_CHANGE_PROPOSED"}

TakenBack(l, known, seq) ==
  \E n \in 1 .. known : l[n].action = "SCHEDULE_CHANGE_WITHDRAWN" /\ l[n].what = seq

-----------------------------------------------------------------------------
(* What a request holds at each point of its handler.                      *)
Offering(q, p) ==
  \E v \in q.asked .. Len(p) : \E u \in v .. Len(p) :
    q.offered \in Offered(ReadAs(p, v, u, u), q.at, q.subject)

Standing(q, p) ==
  \E v \in q.asked .. Len(p) : \E u \in v .. Len(p) : \E x \in u .. Len(p) : \E y \in x .. Len(p) :
    q.key \in Keys(Board(ReadAs(p, v, u, y), q.at, p[x].activities))

Judging(q, p) ==
  /\ q.hazards \in q.rows .. Len(p)
  /\ \E a \in Row(p[q.rows].activities, q.code) :
       /\ q.from = a.window
       /\ q.to # None => q.verdict = Verdict(At(p, q.hazards), q.at, a, q.to)

Measured(q, p) ==
  \E u \in q.asked .. Len(p) : \E a \in Row(p[u].activities, q.code) :
    /\ q.proposal.from = a.window
    /\ \E v \in u .. Len(p) : \E y \in v .. Len(p) :
         /\ q.proposal.to # None => q.proposal.verdict = Verdict(At(p, v), q.at, a, q.proposal.to)
         /\ q.proposal.pushes = Pushes(p[y].edges, p[u].activities, q.code, q.proposal.to)

(* A row of the proposals: judged by a schedule read while the request     *)
(* ran, and as withdrawn if it was by the time the request came, and only  *)
(* if it is.                                                               *)
Judged(row, q, p, l) ==
  /\ row.seq \in ProposedIn(l)
  /\ \E u \in q.asked .. q.ended, gone \in BOOLEAN :
       /\ row.status = proposal_status(l[row.seq].what,
                                       Row(p[u].activities, l[row.seq].subject[1]), gone)
       /\ gone => TakenBack(l, Len(l), row.seq)
       /\ TakenBack(l, q.known, row.seq) => gone

(* A row of the issues: no entry of before the request came is later than  *)
(* the one shown.                                                          *)
Said(l, known, actions, subject) ==
  {n \in DOMAIN l : l[n].action \in actions /\ l[n].subject = subject /\ n <= known}

Shows(word, l, known, actions, subject) ==
  \A n \in Said(l, known, actions, subject) : word # None /\ word >= n

Current(row, q, l) ==
  /\ Shows(row.acknowledged, l, q.known, {"ISSUE_ACKNOWLEDGED"}, row.key)
  /\ row.space # None => Shows(row.decision, l, q.known, Decisions, <<row.space>>)

Answered(q, p, l) ==
  /\ q.ended \in q.asked .. Len(p)
  /\ q.op = "issues" => \A row \in q.answer : Current(row, q, l)
  /\ q.op \in {"propose", "proposals"} => \A row \in q.answer : Judged(row, q, p, l)

Running(q, p, l) == {"asked", "known"} \subseteq DOMAIN q /\ q.asked \in 1 .. Len(p) /\ q.known \in 0 .. Len(l)

Named(q, pcs, ops, fields) == q.pc \in pcs => q.op \in ops /\ fields \subseteq DOMAIN q

(* The fields a request has, where it is.                                  *)
Formed(q) ==
  /\ {"pc", "op"} \subseteq DOMAIN q
  /\ Named(q, {"hazards", "bookings"}, {"decide", "acknowledge", "issues"}, {"at"})
  /\ q.pc \in {"hazards", "bookings"} /\ q.op = "decide" => {"subject", "option", "disposition"} \subseteq DOMAIN q
  /\ q.pc \in {"hazards", "bookings", "rows", "edges"} /\ q.op = "acknowledge" => "key" \in DOMAIN q
  /\ Named(q, {"bookings"}, {"decide", "acknowledge", "issues"}, {"hazards"})
  /\ Named(q, {"enter_decision"}, {"decide"}, {"at", "subject", "option", "disposition", "offered"})
  /\ Named(q, {"rows", "edges"}, {"acknowledge", "issues"}, {"at", "hazards", "bookings"})
  /\ Named(q, {"edges"}, {"acknowledge", "issues"}, {"rows"})
  /\ Named(q, {"enter_ack"}, {"acknowledge"}, {"at", "key"})
  /\ Named(q, {"join"}, {"issues"}, {"board"})
  /\ Named(q, {"activities", "list"}, {"propose", "proposals"}, {})
  /\ q.pc = "activities" /\ q.op = "propose" => {"at", "code", "to"} \subseteq DOMAIN q
  /\ Named(q, {"verdict", "pushes", "enter_proposal"}, {"propose"}, {"at", "code", "to", "rows"})
  /\ Named(q, {"pushes"}, {"propose"}, {"from", "hazards", "verdict"})
  /\ Named(q, {"enter_proposal"}, {"propose"}, {"proposal"})
  /\ Named(q, {"list"}, {"propose", "proposals"}, {"rows"})
  /\ Named(q, {"find", "enter_withdrawal"}, {"withdraw"}, {"of", "at"})

Sound(q, p, l) ==
  /\ Formed(q)
  /\ q.pc # "idle" => Running(q, p, l)
  /\ q.pc = "enter_decision" => Offering(q, p)
  /\ q.pc \in {"bookings", "rows", "edges"} => q.hazards \in q.asked .. Len(p)
  /\ q.pc \in {"rows", "edges"} => q.bookings \in q.hazards .. Len(p)
  /\ q.pc = "edges" => q.rows \in q.bookings .. Len(p)
  /\ q.pc = "enter_ack" => Standing(q, p)
  /\ q.pc \in {"verdict", "pushes", "enter_proposal"} => q.rows \in q.asked .. Len(p)
  /\ q.pc = "verdict" => Row(p[q.rows].activities, q.code) # {}
  /\ q.pc = "pushes" => Judging(q, p)
  /\ q.pc = "enter_proposal" => Measured(q, p)
  /\ q.pc = "list" => q.rows \in q.asked .. Len(p)
  /\ q.pc = "enter_withdrawal" => q.of \in ProposedIn(l)
  /\ q.pc = "answered" => Answered(q, p, l)

IInv ==
  /\ IsSeq(past) /\ Len(past) > 0 /\ IsSeq(ledger)
  /\ DOMAIN req = Requests
  /\ \A r \in Requests : Sound(req[r], past, ledger)

-----------------------------------------------------------------------------
(* An entry more, a version more.                                          *)
LEMMA Appending ==
  ASSUME NEW s, IsSeq(s), NEW e
  PROVE  /\ IsSeq(Append(s, e)) /\ Len(Append(s, e)) = Len(s) + 1
         /\ Append(s, e)[Len(s) + 1] = e
         /\ Extends(s, Append(s, e))
<1> DEFINE S == {s[n] : n \in DOMAIN s}
           t == Append(s, e)
<1>1. s \in Seq(S \cup {e}) /\ DOMAIN s = 1 .. Len(s) /\ Len(s) \in Nat
  BY DEF IsSeq, ToSet
<1>2. /\ t \in Seq(S \cup {e}) /\ Len(t) = Len(s) + 1 /\ DOMAIN t = 1 .. Len(s) + 1
      /\ t[Len(s) + 1] = e /\ \A n \in 1 .. Len(s) : t[n] = s[n]
  BY <1>1
<1>3. t \in Seq({t[n] : n \in DOMAIN t})
  BY <1>1, <1>2
<1> QED
  BY <1>1, <1>2, <1>3 DEF IsSeq, ToSet, Extends

LEMMA Same ==
  ASSUME NEW s, IsSeq(s)
  PROVE  Extends(s, s)
BY DEF Extends, IsSeq, ToSet

LEMMA Places ==
  ASSUME NEW s, IsSeq(s)
  PROVE  DOMAIN s = 1 .. Len(s) /\ Len(s) \in Nat
BY DEF IsSeq, ToSet

LEMMA Later ==
  ASSUME NEW m \in Nat, NEW n \in Nat, m <= n, NEW a \in 1 .. m, NEW b \in a .. m
  PROVE  b \in 1 .. m /\ a \in 1 .. n /\ b \in a .. n
OBVIOUS

(* What a version of the hull was it stays.                                *)
LEMMA Kept ==
  ASSUME NEW p, NEW p2, Extends(p, p2), NEW v \in 1 .. Len(p)
  PROVE  At(p2, v) = At(p, v) /\ p2[v] = p[v]
BY DEF Extends, At

LEMMA EntriesKept ==
  ASSUME NEW l, NEW l2, Extends(l, l2)
  PROVE  /\ DOMAIN l = 1 .. Len(l) /\ DOMAIN l2 = 1 .. Len(l2) /\ Len(l) \in Nat /\ Len(l2) \in Nat
         /\ Len(l) <= Len(l2) /\ DOMAIN l \subseteq DOMAIN l2
         /\ \A n \in DOMAIN l : l2[n] = l[n]
         /\ ProposedIn(l) \subseteq ProposedIn(l2)
<1>1. DOMAIN l = 1 .. Len(l) /\ DOMAIN l2 = 1 .. Len(l2) /\ Len(l) \in Nat /\ Len(l2) \in Nat
  BY DEF Extends, IsSeq, ToSet
<1> QED
  BY <1>1 DEF Extends, ProposedIn

(* Entries that come later say nothing of what had been said before.       *)
LEMMA SaidKept ==
  ASSUME NEW l, NEW l2, Extends(l, l2), NEW known \in 0 .. Len(l), NEW actions, NEW subject
  PROVE  Said(l2, known, actions, subject) = Said(l, known, actions, subject)
<1>1. \A n \in DOMAIN l2 : n <= known => n \in DOMAIN l
  BY EntriesKept
<1> QED
  BY <1>1, EntriesKept DEF Said

LEMMA TakenBackKept ==
  ASSUME NEW l, NEW l2, Extends(l, l2), NEW known \in 0 .. Len(l), NEW seq
  PROVE  /\ TakenBack(l2, known, seq) <=> TakenBack(l, known, seq)
         /\ TakenBack(l, Len(l), seq) => TakenBack(l2, Len(l2), seq)
<1>1. 1 .. known \subseteq 1 .. Len(l) /\ 1 .. Len(l) \subseteq 1 .. Len(l2) /\ DOMAIN l = 1 .. Len(l)
  BY EntriesKept
<1> QED
  BY <1>1, EntriesKept DEF TakenBack

(* What a request holds is not disturbed by what is entered or imported.   *)
LEMMA SoundKept ==
  ASSUME NEW q, NEW p, NEW p2, NEW l, NEW l2, Extends(p, p2), Extends(l, l2), Sound(q, p, l)
  PROVE  Sound(q, p2, l2)
<1>1. Len(p) \in Nat /\ Len(p2) \in Nat /\ Len(l) \in Nat /\ Len(l2) \in Nat /\ Len(p) <= Len(p2) /\ Len(l) <= Len(l2)
  BY EntriesKept DEF Extends, IsSeq, ToSet
<1>2. Formed(q)
  BY DEF Sound
<1>3. q.pc # "idle" => Running(q, p, l) /\ Running(q, p2, l2)
  BY <1>1 DEF Sound, Running
<1>4. q.pc = "enter_decision" => Offering(q, p2)
  <2>1. SUFFICES ASSUME q.pc = "enter_decision" PROVE Offering(q, p2)
    OBVIOUS
  <2>2. q.asked \in 1 .. Len(p)
    BY <2>1, <1>3 DEF Running
  <2>3. PICK v \in q.asked .. Len(p) : \E u \in v .. Len(p) :
          q.offered \in Offered(ReadAs(p, v, u, u), q.at, q.subject)
    BY <2>1 DEF Sound, Offering
  <2>4. PICK u \in v .. Len(p) : q.offered \in Offered(ReadAs(p, v, u, u), q.at, q.subject)
    BY <2>3
  <2>5. v \in 1 .. Len(p) /\ v \in q.asked .. Len(p2)
    BY <1>1, <2>2, Later
  <2>6. u \in 1 .. Len(p) /\ u \in v .. Len(p2)
    BY <1>1, <2>5, Later
  <2>7. At(p2, v) = At(p, v) /\ p2[u] = p[u]
    BY <2>5, <2>6, Kept
  <2>8. ReadAs(p2, v, u, u) = ReadAs(p, v, u, u)
    BY <2>7 DEF ReadAs
  <2> QED
    BY <2>5, <2>8, <2>4, <2>6 DEF Offering
<1>5. /\ q.pc \in {"bookings", "rows", "edges"} => q.hazards \in q.asked .. Len(p2)
      /\ q.pc \in {"rows", "edges"} => q.bookings \in q.hazards .. Len(p2)
      /\ q.pc = "edges" => q.rows \in q.bookings .. Len(p2)
      /\ q.pc \in {"verdict", "pushes", "enter_proposal"} => q.rows \in q.asked .. Len(p2)
  BY <1>1, <1>3 DEF Sound, Running
<1>6. q.pc = "enter_ack" => Standing(q, p2)
  <2>1. SUFFICES ASSUME q.pc = "enter_ack" PROVE Standing(q, p2)
    OBVIOUS
  <2>2. q.asked \in 1 .. Len(p)
    BY <2>1, <1>3 DEF Running
  <2>3. PICK v, u, x, y :
          /\ v \in q.asked .. Len(p) /\ u \in v .. Len(p) /\ x \in u .. Len(p) /\ y \in x .. Len(p)
          /\ q.key \in Keys(Board(ReadAs(p, v, u, y), q.at, p[x].activities))
    BY <2>1 DEF Sound, Standing
  <2>4. v \in 1 .. Len(p) /\ v \in q.asked .. Len(p2)
    BY <1>1, <2>2, <2>3, Later
  <2>5. u \in 1 .. Len(p) /\ u \in v .. Len(p2)
    BY <1>1, <2>3, <2>4, Later
  <2>6. x \in 1 .. Len(p) /\ x \in u .. Len(p2)
    BY <1>1, <2>3, <2>5, Later
  <2>7. y \in 1 .. Len(p) /\ y \in x .. Len(p2)
    BY <1>1, <2>3, <2>6, Later
  <2>8. At(p2, v) = At(p, v) /\ p2[u] = p[u] /\ p2[x] = p[x] /\ p2[y] = p[y]
    BY <2>4, <2>5, <2>6, <2>7, Kept
  <2>9. ReadAs(p2, v, u, y) = ReadAs(p, v, u, y)
    BY <2>8 DEF ReadAs
  <2> QED
    BY <2>3, <2>4, <2>5, <2>6, <2>7, <2>8, <2>9 DEF Standing
<1>7. /\ q.pc = "verdict" => Row(p2[q.rows].activities, q.code) # {}
      /\ q.pc = "pushes" => Judging(q, p2)
  <2>1. SUFFICES ASSUME q.pc \in {"verdict", "pushes"}
                 PROVE  /\ q.pc = "verdict" => Row(p2[q.rows].activities, q.code) # {}
                        /\ q.pc = "pushes" => Judging(q, p2)
    OBVIOUS
  <2>2. q.asked \in 1 .. Len(p) /\ q.rows \in q.asked .. Len(p)
    BY <2>1, <1>3 DEF Sound, Running
  <2>3. q.rows \in 1 .. Len(p)
    BY <2>2, <1>1
  <2>4. p2[q.rows] = p[q.rows]
    BY <2>3, Kept
  <2>5. ASSUME q.pc = "pushes" PROVE Judging(q, p2)
    <3>1. Judging(q, p)
      BY <2>5 DEF Sound
    <3>2. q.hazards \in 1 .. Len(p) /\ q.hazards \in q.rows .. Len(p2)
      BY <1>1, <2>2, <3>1 DEF Judging
    <3> QED
      BY <2>4, <3>1, <3>2, Kept DEF Judging
  <2> QED
    BY <2>1, <2>4, <2>5 DEF Sound
<1>8. q.pc = "enter_proposal" => Measured(q, p2)
  <2>1. SUFFICES ASSUME q.pc = "enter_proposal" PROVE Measured(q, p2)
    OBVIOUS
  <2>2. q.asked \in 1 .. Len(p)
    BY <2>1, <1>3 DEF Running
  <2>3. PICK u \in q.asked .. Len(p) : \E a \in Row(p[u].activities, q.code) :
          /\ q.proposal.from = a.window
          /\ \E v \in u .. Len(p) : \E y \in v .. Len(p) :
               /\ q.proposal.to # None => q.proposal.verdict = Verdict(At(p, v), q.at, a, q.proposal.to)
               /\ q.proposal.pushes = Pushes(p[y].edges, p[u].activities, q.code, q.proposal.to)
    BY <2>1 DEF Sound, Measured
  <2>4. PICK a \in Row(p[u].activities, q.code) :
          /\ q.proposal.from = a.window
          /\ \E v \in u .. Len(p) : \E y \in v .. Len(p) :
               /\ q.proposal.to # None => q.proposal.verdict = Verdict(At(p, v), q.at, a, q.proposal.to)
               /\ q.proposal.pushes = Pushes(p[y].edges, p[u].activities, q.code, q.proposal.to)
    BY <2>3
  <2>5. PICK v, y :
          /\ v \in u .. Len(p) /\ y \in v .. Len(p)
          /\ q.proposal.to # None => q.proposal.verdict = Verdict(At(p, v), q.at, a, q.proposal.to)
          /\ q.proposal.pushes = Pushes(p[y].edges, p[u].activities, q.code, q.proposal.to)
    BY <2>4
  <2>6. u \in 1 .. Len(p) /\ u \in q.asked .. Len(p2)
    BY <1>1, <2>2, <2>3, Later
  <2>7. v \in 1 .. Len(p) /\ v \in u .. Len(p2)
    BY <1>1, <2>5, <2>6, Later
  <2>8. y \in 1 .. Len(p) /\ y \in v .. Len(p2)
    BY <1>1, <2>5, <2>7, Later
  <2>9. p2[u] = p[u] /\ At(p2, v) = At(p, v) /\ p2[y] = p[y]
    BY <2>6, <2>7, <2>8, Kept
  <2> QED
    BY <2>5, <2>6, <2>9, <2>4, <2>7, <2>8 DEF Measured
<1>9. q.pc = "list" => q.rows \in q.asked .. Len(p2)
  BY <1>1, <1>3 DEF Sound, Running
<1>10. q.pc = "enter_withdrawal" => q.of \in ProposedIn(l2)
  BY EntriesKept DEF Sound
<1>11. q.pc = "answered" => Answered(q, p2, l2)
  <2>1. SUFFICES ASSUME q.pc = "answered" PROVE Answered(q, p2, l2)
    OBVIOUS
  <2>2. Answered(q, p, l) /\ q.asked \in 1 .. Len(p) /\ q.known \in 0 .. Len(l)
    BY <2>1, <1>3 DEF Sound, Running
  <2>3. q.ended \in q.asked .. Len(p2) /\ \A u \in q.asked .. q.ended : u \in 1 .. Len(p)
    BY <2>2, <1>1 DEF Answered
  <2>4. ASSUME NEW row, Current(row, q, l) PROVE Current(row, q, l2)
    BY <2>2, <2>4, SaidKept DEF Current, Shows
  <2>5. ASSUME NEW row, Judged(row, q, p, l) PROVE Judged(row, q, p2, l2)
    <3>1. PICK u \in q.asked .. q.ended, gone \in BOOLEAN :
            /\ row.status = proposal_status(l[row.seq].what, Row(p[u].activities, l[row.seq].subject[1]), gone)
            /\ gone => TakenBack(l, Len(l), row.seq)
            /\ TakenBack(l, q.known, row.seq) => gone
      BY <2>5 DEF Judged
    <3>2. row.seq \in ProposedIn(l2) /\ l2[row.seq] = l[row.seq] /\ p2[u] = p[u]
      BY <2>3, <2>5, EntriesKept, Kept DEF Judged, ProposedIn
    <3>3. /\ gone => TakenBack(l2, Len(l2), row.seq)
          /\ TakenBack(l2, q.known, row.seq) => gone
      BY <2>2, <3>1, TakenBackKept
    <3> QED
      BY <3>1, <3>2, <3>3 DEF Judged
  <2> QED
    BY <2>2, <2>3, <2>4, <2>5 DEF Answered
<1> QED
  BY <1>2, <1>3, <1>4, <1>5, <1>6, <1>7, <1>8, <1>9, <1>10, <1>11 DEF Sound

-----------------------------------------------------------------------------
(* A request that goes on keeps what it held and gains fields; one that    *)
(* ends keeps only what its answer is read by.                             *)
Going(q, pc, fields) == Merged([pc |-> pc], Merged(fields, q))

Over(q, pc, answer, version) ==
  [op |-> q.op, pc |-> pc, asked |-> q.asked, known |-> q.known, answer |-> answer, ended |-> version]

LEMMA GoingOn ==
  ASSUME NEW q, NEW pc, NEW fields, "pc" \notin DOMAIN fields
  PROVE  /\ Going(q, pc, fields).pc = pc
         /\ DOMAIN Going(q, pc, fields) = {"pc"} \cup DOMAIN fields \cup DOMAIN q
         /\ \A x \in DOMAIN fields : Going(q, pc, fields)[x] = fields[x]
         /\ \A x \in DOMAIN q \ DOMAIN fields : x # "pc" => Going(q, pc, fields)[x] = q[x]
BY DEF Going, Merged

LEMMA GoesOn ==
  ASSUME IInv, NEW r \in Requests, NEW k,
         Extends(past, past'), Extends(ledger, ledger'),
         req' = [req EXCEPT ![r] = k], Sound(k, past', ledger')
  PROVE  IInv'
<1>1. DOMAIN req' = Requests /\ \A o \in Requests : req'[o] = IF o = r THEN k ELSE req[o]
  BY DEF IInv
<1>2. ASSUME NEW o \in Requests PROVE Sound(req'[o], past', ledger')
  BY <1>1, SoundKept DEF IInv
<1>3. IsSeq(past') /\ Len(past') > 0 /\ IsSeq(ledger')
  BY DEF IInv, Extends, IsSeq, ToSet
<1> QED
  BY <1>1, <1>2, <1>3 DEF IInv

LEMMA Refusal ==
  ASSUME NEW q, NEW p, NEW l, NEW n, Sound(q, p, l), q.pc # "idle"
  PROVE  Sound(Over(q, "refused", {}, n), p, l)
BY DEF Sound, Over, Formed, Named, Running

LEMMA Nothing ==
  ASSUME NEW q, NEW p, NEW l, Sound(q, p, l), q.pc # "idle", IsSeq(p),
         q.op \notin {"issues", "propose", "proposals"}
  PROVE  Sound(Over(q, "answered", {}, Len(p)), p, l)
<1>1. Len(p) \in Nat /\ q.asked \in 1 .. Len(p) /\ q.known \in 0 .. Len(l)
  BY DEF Sound, Running, IsSeq, ToSet
<1>2. Answered(Over(q, "answered", {}, Len(p)), p, l)
  BY <1>1 DEF Answered, Over
<1> QED
  BY <1>1, <1>2 DEF Sound, Over, Formed, Named, Running

LEMMA EndedOrGone ==
  ASSUME NEW r \in Requests, NEW pc, NEW answer, Ends(r, pc, answer)
  PROVE  /\ req' = [req EXCEPT ![r] = Over(req[r], pc, answer, Len(past))]
         /\ past' = past
BY DEF Ends, Over

(* A step that reads gives the request a new place and the fields it read. *)
LEMMA Reading ==
  ASSUME IInv, NEW r \in Requests, NEW pc, NEW fields, Goes(r, pc, fields), UNCHANGED ledger,
         "pc" \notin DOMAIN fields,
         Sound(Going(req[r], pc, fields), past, ledger)
  PROVE  IInv'
<1>1. past' = past /\ ledger' = ledger /\ req' = [req EXCEPT ![r] = Going(req[r], pc, fields)]
  BY DEF Goes, Going
<1>2. Extends(past, past') /\ Extends(ledger, ledger')
  BY <1>1, Same DEF IInv
<1> QED
  BY <1>1, <1>2, GoesOn

LEMMA ReadHazardsSound ==
  ASSUME IInv, NEW r \in Requests, ReadHazards(r)
  PROVE  IInv'
<1>1. /\ Sound(req[r], past, ledger) /\ Len(past) \in Nat /\ Len(ledger) \in Nat
      /\ req[r].pc = "hazards" /\ Formed(req[r]) /\ Running(req[r], past, ledger)
  BY Places DEF IInv, ReadHazards, Sound
<1>2. PICK k : k = Going(req[r], "bookings", [hazards |-> Len(past)])
  OBVIOUS
<1>3. /\ k.pc = "bookings" /\ k.hazards = Len(past) /\ DOMAIN k = {"pc", "hazards"} \cup DOMAIN req[r]
      /\ \A x \in DOMAIN req[r] \ {"pc", "hazards"} : k[x] = req[r][x]
  BY <1>2 DEF Going, Merged
<1>4. k.op = req[r].op /\ k.asked = req[r].asked /\ k.known = req[r].known
  BY <1>1, <1>3 DEF Formed, Running
<1>5. Formed(k)
  BY <1>1, <1>3, <1>4 DEF Formed, Named
<1>6. Running(k, past, ledger) /\ k.hazards \in k.asked .. Len(past)
  BY <1>1, <1>3, <1>4 DEF Running
<1>7. Sound(k, past, ledger)
  BY <1>3, <1>5, <1>6 DEF Sound
<1> QED
  BY <1>2, <1>7, Reading DEF ReadHazards

LEMMA VerifyOptionSound ==
  ASSUME IInv, NEW r \in Requests, VerifyOption(r)
  PROVE  IInv'
<1>1. /\ Sound(req[r], past, ledger) /\ req[r].pc = "bookings" /\ req[r].op = "decide"
      /\ Len(past) \in Nat /\ Formed(req[r]) /\ Running(req[r], past, ledger)
      /\ req[r].hazards \in req[r].asked .. Len(past) /\ ledger' = ledger
  BY Places DEF IInv, VerifyOption, Sound
<1>2. ASSUME NEW o \in Matching(req[r], Len(past)),
             Goes(r, "enter_decision", [bookings |-> Len(past), offered |-> o])
      PROVE  IInv'
  <2>1. PICK k : k = Going(req[r], "enter_decision", [bookings |-> Len(past), offered |-> o])
    OBVIOUS
  <2>2. /\ k.pc = "enter_decision" /\ k.offered = o /\ DOMAIN k = {"pc", "bookings", "offered"} \cup DOMAIN req[r]
        /\ \A x \in DOMAIN req[r] \ {"pc", "bookings", "offered"} : k[x] = req[r][x]
    BY <2>1 DEF Going, Merged
  <2>3. /\ k.op = "decide" /\ k.asked = req[r].asked /\ k.known = req[r].known /\ k.at = req[r].at
        /\ k.subject = req[r].subject
    BY <1>1, <2>2 DEF Formed, Named, Running
  <2>4. Formed(k)
    BY <1>1, <2>2, <2>3 DEF Formed, Named
  <2>5. Running(k, past, ledger)
    BY <1>1, <2>2, <2>3 DEF Running
  <2>6. o \in Offered(ReadAs(past, req[r].hazards, Len(past), Len(past)), req[r].at, req[r].subject)
    BY <1>2 DEF Matching, AsRead, ReadAs, HullOf, At
  <2>7. req[r].hazards \in k.asked .. Len(past) /\ Len(past) \in req[r].hazards .. Len(past)
    BY <1>1, <2>3 DEF Running
  <2>8. Offering(k, past)
    BY <2>2, <2>3, <2>6, <2>7 DEF Offering
  <2>9. Sound(k, past, ledger)
    BY <2>2, <2>4, <2>5, <2>8 DEF Sound
  <2> QED
    BY <1>1, <1>2, <2>1, <2>9, Reading
<1>3. CASE Ends(r, "refused", {})
  BY <1>1, <1>3, EndedOrGone, Refusal, GoesOn, Same DEF IInv
<1> QED
  BY <1>2, <1>3 DEF VerifyOption

(* The hull moves: nothing a request holds is disturbed.                   *)
LEMMA WorldSound ==
  ASSUME IInv, ReplaceSchedule \/ RaiseHazard \/ ClearHazard
  PROVE  IInv' /\ ledger' = ledger
<1>1. PICK h : past' = Append(past, h) /\ UNCHANGED <<ledger, req>>
  BY Zenon DEF ReplaceSchedule, RaiseHazard, ClearHazard, Becomes
<1>2. Extends(past, past') /\ Extends(ledger, ledger') /\ Len(past') > 0
  BY <1>1, Appending, Same, Places DEF IInv
<1>3. \A r \in Requests : Sound(req'[r], past', ledger')
  BY <1>1, <1>2, SoundKept DEF IInv
<1> QED
  BY <1>1, <1>2, <1>3 DEF IInv, Extends

-----------------------------------------------------------------------------
(* A request arrives.                                                      *)
Fresh(fields, op) == Merged(fields, [op |-> op, asked |-> Len(past), known |-> Len(ledger)])

LEMMA Arriving ==
  ASSUME IInv, NEW r \in Requests, NEW k,
         req' = [req EXCEPT ![r] = k], UNCHANGED <<past, ledger>>,
         Formed(k), {"asked", "known"} \subseteq DOMAIN k, k.asked = Len(past), k.known = Len(ledger),
         k.pc \in {"hazards", "activities", "find"}
  PROVE  IInv'
<1>1. Running(k, past, ledger)
  BY Places DEF IInv, Running
<1>2. Sound(k, past, ledger)
  BY <1>1 DEF Sound
<1> QED
  BY <1>2, GoesOn, Same DEF IInv

LEMMA AskSound ==
  ASSUME IInv, NEW r \in Requests, Ask(r)
  PROVE  IInv' /\ ledger' = ledger
<1>0. ledger' = ledger
  BY DEF Ask, AskDecision, AskAck, AskIssues, AskPropose, AskProposals, AskWithdraw, Asks
<1>1. CASE AskDecision(r)
  <2>1. PICK t \in AsOfs, space \in registered(hull), option \in Options, disposition \in Dispositions :
          Asks(r, "decide", [pc |-> "hazards", at |-> t, subject |-> space, option |-> option,
                             disposition |-> disposition])
    BY <1>1 DEF AskDecision
  <2>2. PICK k : k = Fresh([pc |-> "hazards", at |-> t, subject |-> space, option |-> option,
                            disposition |-> disposition], "decide")
    OBVIOUS
  <2>3. /\ DOMAIN k = {"pc", "at", "subject", "option", "disposition", "op", "asked", "known"}
        /\ k.pc = "hazards" /\ k.op = "decide" /\ k.asked = Len(past) /\ k.known = Len(ledger)
    BY <2>2 DEF Fresh, Merged
  <2>4. Formed(k)
    BY <2>3 DEF Formed, Named
  <2> QED
    BY <2>1, <2>2, <2>3, <2>4, Arriving DEF Asks, Fresh
<1>2. CASE AskAck(r)
  <2>1. PICK t \in AsOfs, issue \in IssueKeys : Asks(r, "acknowledge", [pc |-> "hazards", at |-> t, key |-> issue])
    BY <1>2 DEF AskAck
  <2>2. PICK k : k = Fresh([pc |-> "hazards", at |-> t, key |-> issue], "acknowledge")
    OBVIOUS
  <2>3. /\ DOMAIN k = {"pc", "at", "key", "op", "asked", "known"}
        /\ k.pc = "hazards" /\ k.op = "acknowledge" /\ k.asked = Len(past) /\ k.known = Len(ledger)
    BY <2>2 DEF Fresh, Merged
  <2>4. Formed(k)
    BY <2>3 DEF Formed, Named
  <2> QED
    BY <2>1, <2>2, <2>3, <2>4, Arriving DEF Asks, Fresh
<1>3. CASE AskIssues(r)
  <2>1. PICK t \in AsOfs : Asks(r, "issues", [pc |-> "hazards", at |-> t])
    BY <1>3 DEF AskIssues
  <2>2. PICK k : k = Fresh([pc |-> "hazards", at |-> t], "issues")
    OBVIOUS
  <2>3. /\ DOMAIN k = {"pc", "at", "op", "asked", "known"}
        /\ k.pc = "hazards" /\ k.op = "issues" /\ k.asked = Len(past) /\ k.known = Len(ledger)
    BY <2>2 DEF Fresh, Merged
  <2>4. Formed(k)
    BY <2>3 DEF Formed, Named
  <2> QED
    BY <2>1, <2>2, <2>3, <2>4, Arriving DEF Asks, Fresh
<1>4. CASE AskPropose(r)
  <2>1. PICK code \in Codes, to \in proposed_windows, t \in AsOfs :
          Asks(r, "propose", [pc |-> "activities", at |-> t, code |-> code, to |-> to])
    BY <1>4 DEF AskPropose
  <2>2. PICK k : k = Fresh([pc |-> "activities", at |-> t, code |-> code, to |-> to], "propose")
    OBVIOUS
  <2>3. /\ DOMAIN k = {"pc", "at", "code", "to", "op", "asked", "known"}
        /\ k.pc = "activities" /\ k.op = "propose" /\ k.asked = Len(past) /\ k.known = Len(ledger)
    BY <2>2 DEF Fresh, Merged
  <2>4. Formed(k)
    BY <2>3 DEF Formed, Named
  <2> QED
    BY <2>1, <2>2, <2>3, <2>4, Arriving DEF Asks, Fresh
<1>5. CASE AskProposals(r)
  <2>1. PICK k : k = Fresh([pc |-> "activities", at |-> Now], "proposals")
    OBVIOUS
  <2>2. /\ DOMAIN k = {"pc", "at", "op", "asked", "known"}
        /\ k.pc = "activities" /\ k.op = "proposals" /\ k.asked = Len(past) /\ k.known = Len(ledger)
    BY <2>1 DEF Fresh, Merged
  <2>3. Formed(k)
    BY <2>2 DEF Formed, Named
  <2> QED
    BY <1>5, <2>1, <2>2, <2>3, Arriving DEF AskProposals, Asks, Fresh
<1>6. CASE AskWithdraw(r)
  <2>1. PICK seq \in DOMAIN ledger : Asks(r, "withdraw", [pc |-> "find", at |-> Now, of |-> seq])
    BY <1>6 DEF AskWithdraw
  <2>2. PICK k : k = Fresh([pc |-> "find", at |-> Now, of |-> seq], "withdraw")
    OBVIOUS
  <2>3. /\ DOMAIN k = {"pc", "at", "of", "op", "asked", "known"}
        /\ k.pc = "find" /\ k.op = "withdraw" /\ k.asked = Len(past) /\ k.known = Len(ledger)
    BY <2>2 DEF Fresh, Merged
  <2>4. Formed(k)
    BY <2>3 DEF Formed, Named
  <2> QED
    BY <2>1, <2>2, <2>3, <2>4, Arriving DEF Asks, Fresh
<1> QED
  BY <1>0, <1>1, <1>2, <1>3, <1>4, <1>5, <1>6 DEF Ask

-----------------------------------------------------------------------------
(* A request reads.                                                        *)
LEMMA ReadBookingsSound ==
  ASSUME IInv, NEW r \in Requests, ReadBookings(r)
  PROVE  IInv'
<1>1. /\ Sound(req[r], past, ledger) /\ Len(past) \in Nat /\ Len(ledger) \in Nat
      /\ req[r].pc = "bookings" /\ req[r].op # "decide" /\ Formed(req[r]) /\ Running(req[r], past, ledger)
      /\ req[r].hazards \in req[r].asked .. Len(past)
  BY Places DEF IInv, ReadBookings, Sound
<1>2. PICK k : k = Going(req[r], "rows", [bookings |-> Len(past)])
  OBVIOUS
<1>3. /\ k.pc = "rows" /\ k.bookings = Len(past) /\ DOMAIN k = {"pc", "bookings"} \cup DOMAIN req[r]
      /\ \A x \in DOMAIN req[r] \ {"pc", "bookings"} : k[x] = req[r][x]
  BY <1>2 DEF Going, Merged
<1>4. k.op = req[r].op /\ k.asked = req[r].asked /\ k.known = req[r].known /\ k.hazards = req[r].hazards
  BY <1>1, <1>3 DEF Formed, Named, Running
<1>5. Formed(k)
  BY <1>1, <1>3, <1>4 DEF Formed, Named
<1>6. Running(k, past, ledger) /\ k.hazards \in k.asked .. Len(past) /\ k.bookings \in k.hazards .. Len(past)
  BY <1>1, <1>3, <1>4 DEF Running
<1>7. Sound(k, past, ledger)
  BY <1>3, <1>5, <1>6 DEF Sound
<1> QED
  BY <1>2, <1>7, Reading DEF ReadBookings

LEMMA ReadRowsSound ==
  ASSUME IInv, NEW r \in Requests, ReadRows(r)
  PROVE  IInv'
<1>1. /\ Sound(req[r], past, ledger) /\ Len(past) \in Nat /\ Len(ledger) \in Nat
      /\ req[r].pc = "rows" /\ Formed(req[r]) /\ Running(req[r], past, ledger)
      /\ req[r].hazards \in req[r].asked .. Len(past) /\ req[r].bookings \in req[r].hazards .. Len(past)
  BY Places DEF IInv, ReadRows, Sound
<1>2. PICK k : k = Going(req[r], "edges", [rows |-> Len(past)])
  OBVIOUS
<1>3. /\ k.pc = "edges" /\ k.rows = Len(past) /\ DOMAIN k = {"pc", "rows"} \cup DOMAIN req[r]
      /\ \A x \in DOMAIN req[r] \ {"pc", "rows"} : k[x] = req[r][x]
  BY <1>2 DEF Going, Merged
<1>4. /\ k.op = req[r].op /\ k.asked = req[r].asked /\ k.known = req[r].known
      /\ k.hazards = req[r].hazards /\ k.bookings = req[r].bookings
  BY <1>1, <1>3 DEF Formed, Named, Running
<1>5. Formed(k)
  BY <1>1, <1>3, <1>4 DEF Formed, Named
<1>6. /\ Running(k, past, ledger) /\ k.hazards \in k.asked .. Len(past)
      /\ k.bookings \in k.hazards .. Len(past) /\ k.rows \in k.bookings .. Len(past)
  BY <1>1, <1>3, <1>4 DEF Running
<1>7. Sound(k, past, ledger)
  BY <1>3, <1>5, <1>6 DEF Sound
<1> QED
  BY <1>2, <1>7, Reading DEF ReadRows

LEMMA CheckKeySound ==
  ASSUME IInv, NEW r \in Requests, CheckKey(r)
  PROVE  IInv'
<1>1. /\ Sound(req[r], past, ledger) /\ Len(past) \in Nat /\ Len(ledger) \in Nat /\ ledger' = ledger
      /\ req[r].pc = "edges" /\ req[r].op = "acknowledge" /\ Formed(req[r]) /\ Running(req[r], past, ledger)
      /\ req[r].hazards \in req[r].asked .. Len(past) /\ req[r].bookings \in req[r].hazards .. Len(past)
      /\ req[r].rows \in req[r].bookings .. Len(past)
  BY Places DEF IInv, CheckKey, Sound
<1>2. CASE req[r].key \in Keys(DerivedFor(req[r], Len(past))) /\ Goes(r, "enter_ack", [edges |-> Len(past)])
  <2>1. PICK k : k = Going(req[r], "enter_ack", [edges |-> Len(past)])
    OBVIOUS
  <2>2. /\ k.pc = "enter_ack" /\ DOMAIN k = {"pc", "edges"} \cup DOMAIN req[r]
        /\ \A x \in DOMAIN req[r] \ {"pc", "edges"} : k[x] = req[r][x]
    BY <2>1 DEF Going, Merged
  <2>3. /\ k.op = req[r].op /\ k.asked = req[r].asked /\ k.known = req[r].known
        /\ k.at = req[r].at /\ k.key = req[r].key
    BY <1>1, <2>2 DEF Formed, Named, Running
  <2>4. Formed(k)
    BY <1>1, <2>2, <2>3 DEF Formed, Named
  <2>5. Running(k, past, ledger)
    BY <1>1, <2>2, <2>3 DEF Running
  <2>6. req[r].key \in Keys(Board(ReadAs(past, req[r].hazards, req[r].bookings, Len(past)), req[r].at,
                                past[req[r].rows].activities))
    BY <1>2 DEF DerivedFor, AsRead, ReadAs, HullOf, At
  <2>7. /\ req[r].hazards \in k.asked .. Len(past) /\ req[r].bookings \in req[r].hazards .. Len(past)
        /\ req[r].rows \in req[r].bookings .. Len(past) /\ Len(past) \in req[r].rows .. Len(past)
    BY <1>1, <2>3 DEF Running
  <2>8. Standing(k, past)
    BY <2>3, <2>6, <2>7 DEF Standing
  <2>9. Sound(k, past, ledger)
    BY <2>2, <2>4, <2>5, <2>8 DEF Sound
  <2> QED
    BY <1>1, <1>2, <2>1, <2>9, Reading
<1>3. CASE Ends(r, "refused", {})
  BY <1>1, <1>3, EndedOrGone, Refusal, GoesOn, Same DEF IInv
<1> QED
  BY <1>2, <1>3 DEF CheckKey, Verified

LEMMA ReadIssuesSound ==
  ASSUME IInv, NEW r \in Requests, ReadIssues(r)
  PROVE  IInv'
<1>1. /\ Sound(req[r], past, ledger) /\ req[r].pc = "edges" /\ req[r].op = "issues"
      /\ Formed(req[r]) /\ Running(req[r], past, ledger)
  BY DEF IInv, ReadIssues, Sound
<1>2. PICK board : board = {[key |-> i.key, space |-> i.space] : i \in DerivedFor(req[r], Len(past))}
  OBVIOUS
<1>3. PICK k : k = Going(req[r], "join", [board |-> board])
  OBVIOUS
<1>4. /\ k.pc = "join" /\ DOMAIN k = {"pc", "board"} \cup DOMAIN req[r]
      /\ \A x \in DOMAIN req[r] \ {"pc", "board"} : k[x] = req[r][x]
  BY <1>3 DEF Going, Merged
<1>5. k.op = req[r].op /\ k.asked = req[r].asked /\ k.known = req[r].known
  BY <1>1, <1>4 DEF Formed, Running
<1>6. Formed(k)
  BY <1>1, <1>4, <1>5 DEF Formed, Named
<1>7. Running(k, past, ledger)
  BY <1>1, <1>4, <1>5 DEF Running
<1>8. Sound(k, past, ledger)
  BY <1>4, <1>6, <1>7 DEF Sound
<1> QED
  BY <1>2, <1>3, <1>8, Reading DEF ReadIssues

LEMMA ReadActivitiesSound ==
  ASSUME IInv, NEW r \in Requests, ReadActivities(r)
  PROVE  IInv'
<1>0. /\ Sound(req[r], past, ledger) /\ Len(past) \in Nat /\ Len(ledger) \in Nat
      /\ Extends(past, past) /\ Extends(ledger, ledger)
  BY Same, Places DEF IInv
<1>1. /\ req[r].pc = "activities" /\ past' = past /\ ledger' = ledger
      /\ Formed(req[r]) /\ Running(req[r], past, ledger)
  BY <1>0 DEF ReadActivities, Goes, Ends, Sound
<1>2. ASSUME NEW pc \in {"list", "verdict"}, Goes(r, pc, [rows |-> Len(past)]),
             pc = "verdict" => req[r].op = "propose" /\ Row(latest.activities, req[r].code) # {}
      PROVE  IInv'
  <2>1. PICK k : k = Going(req[r], pc, [rows |-> Len(past)])
    OBVIOUS
  <2>2. req' = [req EXCEPT ![r] = k]
    BY <1>2, <2>1 DEF Goes, Going
  <2>3. /\ k.pc = pc /\ k.rows = Len(past) /\ DOMAIN k = {"pc", "rows"} \cup DOMAIN req[r]
        /\ \A x \in DOMAIN req[r] \ {"pc", "rows"} : k[x] = req[r][x]
    BY <2>1 DEF Going, Merged
  <2>4. /\ k.op = req[r].op /\ k.asked = req[r].asked /\ k.known = req[r].known
        /\ k.op \in {"propose", "proposals"} /\ (k.op = "propose" => k.code = req[r].code)
    BY <1>1, <2>3 DEF Formed, Named, Running
  <2>5. Formed(k)
    BY <1>1, <1>2, <2>3, <2>4 DEF Formed, Named
  <2>6. Running(k, past, ledger) /\ k.rows \in k.asked .. Len(past)
    BY <1>0, <1>1, <2>3, <2>4 DEF Running
  <2>7. pc = "verdict" => Row(past[k.rows].activities, k.code) # {}
    BY <1>2, <2>3, <2>4 DEF latest
  <2>8. Sound(k, past, ledger)
    BY <2>3, <2>5, <2>6, <2>7 DEF Sound
  <2> QED
    BY <1>0, <1>1, <2>2, <2>8, GoesOn
<1>3. CASE Ends(r, "refused", {})
  BY <1>0, <1>1, <1>3, EndedOrGone, Refusal, GoesOn
<1> QED
  BY <1>2, <1>3 DEF ReadActivities

LEMMA AskEngineSound ==
  ASSUME IInv, NEW r \in Requests, AskEngine(r)
  PROVE  IInv'
<1>1. /\ Sound(req[r], past, ledger) /\ Len(past) \in Nat /\ Len(ledger) \in Nat
      /\ req[r].pc = "verdict" /\ Formed(req[r]) /\ Running(req[r], past, ledger)
      /\ req[r].rows \in req[r].asked .. Len(past) /\ Row(past[req[r].rows].activities, req[r].code) # {}
  BY Places DEF IInv, AskEngine, Sound
<1>2. PICK a : a = CHOOSE x \in Row(past[req[r].rows].activities, req[r].code) : TRUE
  OBVIOUS
<1>3. PICK verdict : verdict = IF req[r].to = None THEN None ELSE Verdict(hull, req[r].at, a, req[r].to)
  OBVIOUS
<1>4. PICK k : k = Going(req[r], "pushes", [from |-> a.window, hazards |-> Len(past), verdict |-> verdict])
  OBVIOUS
<1>5. /\ k.pc = "pushes" /\ k.from = a.window /\ k.hazards = Len(past) /\ k.verdict = verdict
      /\ DOMAIN k = {"pc", "from", "hazards", "verdict"} \cup DOMAIN req[r]
      /\ \A x \in DOMAIN req[r] \ {"pc", "from", "hazards", "verdict"} : k[x] = req[r][x]
  BY <1>4 DEF Going, Merged
<1>6. /\ k.op = req[r].op /\ k.asked = req[r].asked /\ k.known = req[r].known
      /\ k.at = req[r].at /\ k.code = req[r].code /\ k.to = req[r].to /\ k.rows = req[r].rows
  BY <1>1, <1>5 DEF Formed, Named, Running
<1>7. Formed(k)
  BY <1>1, <1>5, <1>6 DEF Formed, Named
<1>8. Running(k, past, ledger) /\ k.rows \in k.asked .. Len(past)
  BY <1>1, <1>5, <1>6 DEF Running
<1>9. Judging(k, past)
  <2>1. a \in Row(past[k.rows].activities, k.code)
    BY <1>1, <1>2, <1>6
  <2>2. k.to # None => k.verdict = Verdict(At(past, k.hazards), k.at, a, k.to)
    BY <1>3, <1>5, <1>6 DEF hull, latest, At
  <2>3. k.hazards \in k.rows .. Len(past)
    BY <1>1, <1>5, <1>6 DEF Running
  <2> QED
    BY <1>5, <2>1, <2>2, <2>3 DEF Judging
<1>10. Sound(k, past, ledger)
  BY <1>5, <1>7, <1>8, <1>9 DEF Sound
<1> QED
  BY <1>2, <1>3, <1>4, <1>10, Reading DEF AskEngine

LEMMA ReadPushesSound ==
  ASSUME IInv, NEW r \in Requests, ReadPushes(r)
  PROVE  IInv'
<1>1. /\ Sound(req[r], past, ledger) /\ Len(past) \in Nat /\ Len(ledger) \in Nat
      /\ req[r].pc = "pushes" /\ Formed(req[r]) /\ Running(req[r], past, ledger)
      /\ req[r].rows \in req[r].asked .. Len(past) /\ Judging(req[r], past)
  BY Places DEF IInv, ReadPushes, Sound
<1>2. PICK proposal :
        proposal = [from |-> req[r].from, to |-> req[r].to, verdict |-> req[r].verdict,
                    pushes |-> Pushes(latest.edges, past[req[r].rows].activities, req[r].code, req[r].to)]
  OBVIOUS
<1>3. PICK k : k = Going(req[r], "enter_proposal", [proposal |-> proposal])
  OBVIOUS
<1>4. /\ k.pc = "enter_proposal" /\ k.proposal = proposal /\ DOMAIN k = {"pc", "proposal"} \cup DOMAIN req[r]
      /\ \A x \in DOMAIN req[r] \ {"pc", "proposal"} : k[x] = req[r][x]
  BY <1>3 DEF Going, Merged
<1>5. /\ k.op = req[r].op /\ k.asked = req[r].asked /\ k.known = req[r].known
      /\ k.at = req[r].at /\ k.code = req[r].code /\ k.to = req[r].to /\ k.rows = req[r].rows
  BY <1>1, <1>4 DEF Formed, Named, Running
<1>6. Formed(k)
  BY <1>1, <1>4, <1>5 DEF Formed, Named
<1>7. Running(k, past, ledger) /\ k.rows \in k.asked .. Len(past)
  BY <1>1, <1>4, <1>5 DEF Running
<1>8. Measured(k, past)
  <2>1. PICK a \in Row(past[k.rows].activities, k.code) :
          /\ proposal.from = a.window
          /\ k.to # None => proposal.verdict = Verdict(At(past, req[r].hazards), k.at, a, k.to)
    BY <1>1, <1>2, <1>5 DEF Judging
  <2>2. /\ proposal.to = k.to
        /\ proposal.pushes = Pushes(past[Len(past)].edges, past[k.rows].activities, k.code, k.to)
    BY <1>2, <1>5 DEF latest
  <2>3. req[r].hazards \in k.rows .. Len(past) /\ Len(past) \in req[r].hazards .. Len(past)
    BY <1>1, <1>5 DEF Judging, Running
  <2> QED
    BY <1>4, <1>7, <2>1, <2>2, <2>3 DEF Measured
<1>9. Sound(k, past, ledger)
  BY <1>4, <1>6, <1>7, <1>8 DEF Sound
<1> QED
  BY <1>2, <1>3, <1>9, Reading DEF ReadPushes

LEMMA FindProposalSound ==
  ASSUME IInv, NEW r \in Requests, FindProposal(r)
  PROVE  IInv'
<1>0. /\ Sound(req[r], past, ledger) /\ Len(past) \in Nat /\ Len(ledger) \in Nat
      /\ Extends(past, past) /\ Extends(ledger, ledger)
  BY Same, Places DEF IInv
<1>1. /\ req[r].pc = "find" /\ past' = past /\ ledger' = ledger
      /\ Formed(req[r]) /\ Running(req[r], past, ledger)
  BY <1>0 DEF FindProposal, Verified, Goes, Ends, Sound
<1>2. CASE IsProposal(req[r].of) /\ Goes(r, "enter_withdrawal", [of |-> req[r].of])
  <2>1. PICK k : k = Going(req[r], "enter_withdrawal", [of |-> req[r].of])
    OBVIOUS
  <2>2. req' = [req EXCEPT ![r] = k]
    BY <1>2, <2>1 DEF Goes, Going
  <2>3. /\ k.pc = "enter_withdrawal" /\ k.of = req[r].of /\ DOMAIN k = {"pc", "of"} \cup DOMAIN req[r]
        /\ \A x \in DOMAIN req[r] \ {"pc", "of"} : k[x] = req[r][x]
    BY <2>1 DEF Going, Merged
  <2>4. k.op = req[r].op /\ k.asked = req[r].asked /\ k.known = req[r].known
    BY <1>1, <2>3 DEF Formed, Running
  <2>5. Formed(k)
    BY <1>1, <2>3, <2>4 DEF Formed, Named
  <2>6. Running(k, past, ledger) /\ k.of \in ProposedIn(ledger)
    BY <1>1, <1>2, <2>3, <2>4 DEF Running, IsProposal, Proposed, ProposedIn
  <2>7. Sound(k, past, ledger)
    BY <2>3, <2>5, <2>6 DEF Sound
  <2> QED
    BY <1>0, <1>1, <2>2, <2>7, GoesOn
<1>3. CASE Ends(r, "refused", {})
  BY <1>0, <1>1, <1>3, EndedOrGone, Refusal, GoesOn
<1> QED
  BY <1>2, <1>3 DEF FindProposal, Verified

-----------------------------------------------------------------------------
(* A request answers.                                                      *)

(* The last of some entries is one of them, and none is later.             *)
LEMMA LastOne ==
  ASSUME NEW m \in Nat, NEW places, places \subseteq 1 .. m, places # {}
  PROVE  LatestOf(places) \in places /\ \A n \in places : LatestOf(places) >= n
<1> DEFINE Left == {m - n : n \in places}
           R == {p \in Nat \X Nat : p[1] < p[2]}
<1>1. Left \subseteq Nat /\ Left # {}
  OBVIOUS
<1>2. IsWellFoundedOn(R, Nat)
  <2>1. R = OpToRel(<, Nat)
    BY DEF OpToRel
  <2> QED
    BY <2>1, NatLessThanWellFounded
<1>3. \A y, x \in Nat : <<y, x>> \notin R => x <= y
  OBVIOUS
<1>4. PICK x \in Left : \A y \in Left : x <= y
  <2> HIDE DEF Left, R
  <2>1. PICK x \in Left : \A y \in Left : <<y, x>> \notin R
    BY <1>1, <1>2, WFMin
  <2> QED
    BY <1>1, <1>3, <2>1, Zenon
<1>5. PICK n \in places : x = m - n
  OBVIOUS
<1>6. ASSUME NEW k \in places PROVE n >= k
  <2>1. m - k \in Left /\ k \in Nat /\ n \in Nat
    OBVIOUS
  <2>2. m - n <= m - k
    BY <1>4, <1>5, <2>1
  <2> QED
    BY <2>1, <2>2
<1>7. \E l \in places : \A k \in places : l >= k
  BY <1>6
<1> QED
  BY <1>7 DEF LatestOf, Max

LEMMA LastWord ==
  ASSUME IsSeq(ledger), NEW known, NEW actions, NEW subject
  PROVE  Shows(LatestWord(actions, subject), ledger, known, actions, subject)
<1>1. SUFFICES ASSUME NEW n \in Said(ledger, known, actions, subject)
               PROVE  LatestWord(actions, subject) # None /\ LatestWord(actions, subject) >= n
  BY DEF Shows
<1> DEFINE S == Words(actions, subject)
<1>2. n \in S /\ S \subseteq 1 .. Len(ledger) /\ Len(ledger) \in Nat
  BY Places DEF Words, Said
<1> HIDE DEF S
<1>3. LatestOf(S) \in S /\ LatestOf(S) >= n
  BY <1>2, LastOne
<1> QED
  BY <1>2, <1>3, NumberedAssumption DEF LatestWord, S

LEMMA JoinIssuesSound ==
  ASSUME IInv, NEW r \in Requests, JoinIssues(r)
  PROVE  IInv'
<1>0. /\ Sound(req[r], past, ledger) /\ Len(past) \in Nat /\ Len(ledger) \in Nat
      /\ Extends(past, past) /\ Extends(ledger, ledger)
  BY Same, Places DEF IInv
<1>1. /\ req[r].pc = "join" /\ req[r].op = "issues" /\ past' = past /\ ledger' = ledger
      /\ Formed(req[r]) /\ Running(req[r], past, ledger)
  BY <1>0 DEF JoinIssues, Ends, Sound, Formed, Named
<1>2. PICK answer : answer =
          {[key |-> i.key, space |-> i.space,
                        acknowledged |-> LatestWord({"ISSUE_ACKNOWLEDGED"}, i.key),
                        decision |-> IF i.space = None THEN None ELSE LatestWord(Decisions, <<i.space>>)] :
                         i \in req[r].board}
  OBVIOUS
<1>3. PICK k : k = Over(req[r], "answered", answer, Len(past))
  OBVIOUS
<1>4. req' = [req EXCEPT ![r] = k]
  BY <1>2, <1>3, EndedOrGone DEF JoinIssues
<1>5. /\ k.op = "issues" /\ k.pc = "answered" /\ k.asked = req[r].asked /\ k.known = req[r].known
      /\ k.answer = answer /\ k.ended = Len(past)
      /\ DOMAIN k = {"op", "pc", "asked", "known", "answer", "ended"}
  BY <1>1, <1>3 DEF Over
<1>6. ASSUME NEW row \in answer PROVE Current(row, k, ledger)
  <2>1. PICK i \in req[r].board :
          row = [key |-> i.key, space |-> i.space,
                 acknowledged |-> LatestWord({"ISSUE_ACKNOWLEDGED"}, i.key),
                 decision |-> IF i.space = None THEN None ELSE LatestWord(Decisions, <<i.space>>)]
    BY <1>2, <1>6
  <2>2. /\ row.key = i.key /\ row.space = i.space
        /\ row.acknowledged = LatestWord({"ISSUE_ACKNOWLEDGED"}, i.key)
        /\ row.space # None => row.decision = LatestWord(Decisions, <<i.space>>)
    BY <2>1
  <2> QED
    BY <2>2, LastWord DEF IInv, Current
<1>7. Running(k, past, ledger) /\ k.ended \in k.asked .. Len(past)
  BY <1>0, <1>1, <1>5 DEF Running
<1>8. Answered(k, past, ledger)
  BY <1>5, <1>6, <1>7 DEF Answered
<1>9. Formed(k)
  BY <1>5 DEF Formed, Named
<1>10. Sound(k, past, ledger)
  BY <1>5, <1>7, <1>8, <1>9 DEF Sound
<1> QED
  BY <1>0, <1>1, <1>4, <1>10, GoesOn

LEMMA proposal_rowsSound ==
  ASSUME IInv, NEW r \in Requests, proposal_rows(r)
  PROVE  IInv'
<1>0. /\ Sound(req[r], past, ledger) /\ Len(past) \in Nat /\ Len(ledger) \in Nat
      /\ Extends(past, past) /\ Extends(ledger, ledger)
  BY Same, Places DEF IInv
<1>1. /\ req[r].pc = "list" /\ req[r].op \in {"propose", "proposals"} /\ past' = past /\ ledger' = ledger
      /\ Formed(req[r]) /\ Running(req[r], past, ledger) /\ req[r].rows \in req[r].asked .. Len(past)
  BY <1>0 DEF proposal_rows, Ends, Sound, Formed, Named
<1>2. PICK answer : answer =
          {[seq |-> n,
            status |-> proposal_status(ledger[n].what,
                                     Row(past[req[r].rows].activities, ledger[n].subject[1]),
                                     n \in Withdrawn)] : n \in Proposed}
  OBVIOUS
<1>3. PICK k : k = Over(req[r], "answered", answer, Len(past))
  OBVIOUS
<1>4. req' = [req EXCEPT ![r] = k]
  BY <1>2, <1>3, EndedOrGone DEF proposal_rows
<1>5. /\ k.op = req[r].op /\ k.pc = "answered" /\ k.asked = req[r].asked /\ k.known = req[r].known
      /\ k.answer = answer /\ k.ended = Len(past)
      /\ DOMAIN k = {"op", "pc", "asked", "known", "answer", "ended"}
  BY <1>3 DEF Over
<1>6. ASSUME NEW row \in answer PROVE Judged(row, k, past, ledger)
  <2>1. PICK n \in Proposed :
          row = [seq |-> n,
                 status |-> proposal_status(ledger[n].what,
                                     Row(past[req[r].rows].activities, ledger[n].subject[1]),
                                     n \in Withdrawn)]
    BY <1>2, <1>6
  <2>2. /\ row.seq = n /\ n \in ProposedIn(ledger)
        /\ row.status = proposal_status(ledger[n].what,
                            Row(past[req[r].rows].activities, ledger[n].subject[1]), n \in Withdrawn)
    BY <2>1 DEF Proposed, ProposedIn
  <2>3. req[r].rows \in k.asked .. k.ended /\ (n \in Withdrawn) \in BOOLEAN
    BY <1>0, <1>1, <1>5 DEF Running
  <2>4. DOMAIN ledger = 1 .. Len(ledger) /\ 1 .. k.known \subseteq 1 .. Len(ledger)
    BY <1>0, <1>1, <1>5, Places DEF Running, IInv
  <2>5. /\ n \in Withdrawn => TakenBack(ledger, Len(ledger), n)
        /\ TakenBack(ledger, k.known, n) => n \in Withdrawn
    BY <2>4 DEF Withdrawn, TakenBack
  <2> QED
    BY <2>2, <2>3, <2>5 DEF Judged
<1>7. Running(k, past, ledger) /\ k.ended \in k.asked .. Len(past)
  BY <1>0, <1>1, <1>5 DEF Running
<1>8. Answered(k, past, ledger)
  BY <1>1, <1>5, <1>6, <1>7 DEF Answered
<1>9. Formed(k)
  BY <1>5 DEF Formed, Named
<1>10. Sound(k, past, ledger)
  BY <1>5, <1>7, <1>8, <1>9 DEF Sound
<1> QED
  BY <1>0, <1>1, <1>4, <1>10, GoesOn

-----------------------------------------------------------------------------
(* A request enters its record.                                            *)

(* Every entry of the step says what its request was shown.                *)
NewAreTrue == \A n \in DOMAIN ledger' \ DOMAIN ledger : WasTrue(ledger'[n])

LEMMA NothingNew ==
  ASSUME ledger' = ledger
  PROVE  NewAreTrue
BY DEF NewAreTrue

LEMMA OneNew ==
  ASSUME IInv, NEW e, ledger' = Append(ledger, e), WasTrue(e)
  PROVE  NewAreTrue
<1>1. /\ IsSeq(ledger') /\ Len(ledger') = Len(ledger) + 1 /\ ledger'[Len(ledger) + 1] = e
      /\ DOMAIN ledger = 1 .. Len(ledger) /\ Len(ledger) \in Nat
  BY Appending, Places DEF IInv
<1>2. DOMAIN ledger' = 1 .. Len(ledger) + 1
  BY <1>1, Places
<1>3. \A n \in DOMAIN ledger' \ DOMAIN ledger : n = Len(ledger) + 1
  BY <1>1, <1>2
<1> QED
  BY <1>1, <1>3 DEF NewAreTrue

LEMMA Entered ==
  ASSUME IInv, NEW r \in Requests, NEW e, ledger' = Append(ledger, e), Ends(r, "answered", {}),
         req[r].pc # "idle", req[r].op \notin {"issues", "propose", "proposals"}
  PROVE  IInv'
<1>1. Extends(ledger, ledger') /\ Extends(past, past) /\ IsSeq(past) /\ past' = past
  BY Appending, Same, EndedOrGone DEF IInv
<1>2. Sound(req[r], past, ledger')
  BY <1>1, SoundKept DEF IInv
<1>3. Sound(Over(req[r], "answered", {}, Len(past)), past, ledger')
  BY <1>1, <1>2, Nothing
<1> QED
  BY <1>1, <1>3, EndedOrGone, GoesOn

LEMMA EnterDecisionSound ==
  ASSUME IInv, NEW r \in Requests, EnterDecision(r)
  PROVE  IInv' /\ NewAreTrue
<1>1. /\ req[r].pc = "enter_decision" /\ Ends(r, "answered", {})
      /\ Sound(req[r], past, ledger) /\ Len(past) \in Nat
  BY Places DEF EnterDecision, Recorded, IInv
<1>2. PICK e : /\ ledger' = Append(ledger, e)
               /\ \E action \in Decisions : e = Entry(r, action, <<req[r].subject>>, req[r].offered)
  BY DEF EnterDecision, Recorded, Appends, Decisions
<1>3. /\ e.action \in Decisions /\ e.subject[1] = req[r].subject /\ e.what = req[r].offered
      /\ e.at = req[r].at /\ e.asked = req[r].asked /\ e.entered = Len(past)
  BY <1>2 DEF Entry
<1>4. req[r].op = "decide" /\ Running(req[r], past, ledger) /\ Offering(req[r], past)
  BY <1>1 DEF Sound, Formed, Named
<1>5. WasOffered(e)
  <2>1. \A v, u : ReadAs(past, v, u, u) = AsRead(v, u, u)
    BY DEF ReadAs, AsRead, At, HullOf
  <2> QED
    BY <1>3, <1>4, <2>1 DEF Offering, WasOffered
<1>6. WasTrue(e)
  BY <1>3, <1>5 DEF WasTrue, Decisions
<1> QED
  BY <1>1, <1>2, <1>4, <1>6, Entered, OneNew

LEMMA EnterAckSound ==
  ASSUME IInv, NEW r \in Requests, EnterAck(r)
  PROVE  IInv' /\ NewAreTrue
<1>1. /\ req[r].pc = "enter_ack" /\ Ends(r, "answered", {})
      /\ Sound(req[r], past, ledger) /\ Len(past) \in Nat
  BY Places DEF EnterAck, IInv
<1>2. PICK e : ledger' = Append(ledger, e) /\ e = Entry(r, "ISSUE_ACKNOWLEDGED", req[r].key, None)
  BY DEF EnterAck, Appends
<1>3. /\ e.action = "ISSUE_ACKNOWLEDGED" /\ e.subject = req[r].key
      /\ e.at = req[r].at /\ e.asked = req[r].asked /\ e.entered = Len(past)
  BY <1>2 DEF Entry
<1>4. req[r].op = "acknowledge" /\ Running(req[r], past, ledger) /\ Standing(req[r], past)
  BY <1>1 DEF Sound, Formed, Named
<1>5. WasOnTheBoard(e)
  <2>1. \A v, u, y : ReadAs(past, v, u, y) = AsRead(v, u, y)
    BY DEF ReadAs, AsRead, At, HullOf
  <2> QED
    BY <1>3, <1>4, <2>1 DEF Standing, WasOnTheBoard
<1>7. WasTrue(e)
  BY <1>3, <1>5 DEF WasTrue, Decisions
<1> QED
  BY <1>1, <1>2, <1>4, <1>7, Entered, OneNew

LEMMA EnterWithdrawalSound ==
  ASSUME IInv, NEW r \in Requests, EnterWithdrawal(r)
  PROVE  IInv' /\ NewAreTrue
<1>1. /\ req[r].pc = "enter_withdrawal" /\ Ends(r, "answered", {})
      /\ Sound(req[r], past, ledger)
  BY DEF EnterWithdrawal, IInv
<1>2. PICK e : /\ ledger' = Append(ledger, e)
               /\ e = Entry(r, "SCHEDULE_CHANGE_WITHDRAWN", ledger[req[r].of].subject, req[r].of)
  BY DEF EnterWithdrawal, Appends
<1>3. /\ e.action = "SCHEDULE_CHANGE_WITHDRAWN" /\ e.subject = ledger[req[r].of].subject
      /\ e.what = req[r].of
  BY <1>2 DEF Entry
<1>4. req[r].op = "withdraw" /\ req[r].of \in Proposed
  BY <1>1 DEF Sound, Formed, Named, Proposed, ProposedIn
<1>5. WasTrue(e)
  BY <1>3, <1>4 DEF WasTrue, Decisions
<1> QED
  BY <1>1, <1>2, <1>4, <1>5, Entered, OneNew

LEMMA EnterProposalSound ==
  ASSUME IInv, NEW r \in Requests, EnterProposal(r)
  PROVE  IInv' /\ NewAreTrue
<1>1. /\ req[r].pc = "enter_proposal" /\ past' = past /\ Extends(past, past)
      /\ Sound(req[r], past, ledger) /\ Len(past) \in Nat /\ Len(ledger) \in Nat
  BY Places, Same DEF EnterProposal, Goes, IInv
<1>2. PICK e : /\ ledger' = Append(ledger, e)
               /\ e = Entry(r, "SCHEDULE_CHANGE_PROPOSED", <<req[r].code>>, req[r].proposal)
  BY DEF EnterProposal, Appends
<1>3. /\ e.action = "SCHEDULE_CHANGE_PROPOSED" /\ e.subject[1] = req[r].code /\ e.what = req[r].proposal
      /\ e.at = req[r].at /\ e.asked = req[r].asked /\ e.entered = Len(past)
  BY <1>2 DEF Entry
<1>4. Formed(req[r]) /\ Running(req[r], past, ledger) /\ Measured(req[r], past)
  BY <1>1 DEF Sound
<1>5. WasTrue(e)
  <2>1. \A v : HullOf(v) = At(past, v)
    BY DEF HullOf, At
  <2>2. WasMeasured(e)
    BY <1>3, <1>4, <2>1 DEF Measured, WasMeasured
  <2> QED
    BY <1>3, <2>2 DEF WasTrue, Decisions
<1>6. PICK k : k = Going(req[r], "list", [code |-> req[r].code])
  OBVIOUS
<1>7. req' = [req EXCEPT ![r] = k]
  BY <1>6 DEF EnterProposal, Goes, Going
<1>8. /\ k.pc = "list" /\ DOMAIN k = {"pc", "code"} \cup DOMAIN req[r]
      /\ \A x \in DOMAIN req[r] \ {"pc", "code"} : k[x] = req[r][x]
  BY <1>6 DEF Going, Merged
<1>9. k.op = "propose" /\ k.asked = req[r].asked /\ k.known = req[r].known /\ k.rows = req[r].rows
  BY <1>1, <1>4, <1>8 DEF Formed, Named, Running
<1>10. Formed(k)
  BY <1>1, <1>4, <1>8, <1>9 DEF Formed, Named
<1>11. Len(ledger') = Len(ledger) + 1 /\ Extends(ledger, ledger')
  BY <1>2, Appending DEF IInv
<1>12. Running(k, past, ledger') /\ k.rows \in k.asked .. Len(past)
  BY <1>1, <1>4, <1>8, <1>9, <1>11 DEF Running, Sound
<1>13. Sound(k, past, ledger')
  BY <1>8, <1>10, <1>12 DEF Sound
<1>14. IInv'
  BY <1>1, <1>7, <1>11, <1>13, GoesOn
<1> QED
  BY <1>2, <1>5, <1>14, OneNew

-----------------------------------------------------------------------------
LEMMA InitSound ==
  ASSUME Init
  PROVE  IInv
<1>1. PICK h \in FirstHulls : past = <<h>>
  BY DEF Init
<1>2. IsSeq(past) /\ Len(past) = 1
  <2>1. DOMAIN <<h>> = {1} /\ <<h>>[1] = h /\ Len(<<h>>) = 1 /\ <<h>> \in Seq({h})
    OBVIOUS
  <2>2. {past[n] : n \in DOMAIN past} = {h}
    BY <1>1, <2>1
  <2> QED
    BY <1>1, <2>1, <2>2 DEF IsSeq, ToSet
<1>3. IsSeq(ledger)
  BY BooksAssumption DEF Init, IsSeq, ToSet
<1>4. ASSUME NEW r \in Requests PROVE Sound(req[r], past, ledger)
  <2>1. req[r] = Idle
    BY DEF Init
  <2>2. req[r].pc = "idle" /\ DOMAIN req[r] = {"op", "pc"}
    BY <2>1 DEF Idle
  <2> QED
    BY <2>2 DEF Sound, Formed, Named
<1> QED
  BY <1>2, <1>3, <1>4 DEF IInv, Init

LEMMA StepSound ==
  ASSUME IInv, NEW r \in Requests, Step(r)
  PROVE  IInv' /\ NewAreTrue
<1>1. CASE ReadHazards(r)
  BY <1>1, ReadHazardsSound, NothingNew DEF ReadHazards
<1>2. CASE VerifyOption(r)
  BY <1>2, VerifyOptionSound, NothingNew DEF VerifyOption
<1>3. CASE EnterDecision(r)
  BY <1>3, EnterDecisionSound
<1>4. CASE ReadBookings(r)
  BY <1>4, ReadBookingsSound, NothingNew DEF ReadBookings
<1>5. CASE ReadRows(r)
  BY <1>5, ReadRowsSound, NothingNew DEF ReadRows
<1>6. CASE CheckKey(r)
  BY <1>6, CheckKeySound, NothingNew DEF CheckKey
<1>7. CASE EnterAck(r)
  BY <1>7, EnterAckSound
<1>8. CASE ReadIssues(r)
  BY <1>8, ReadIssuesSound, NothingNew DEF ReadIssues
<1>9. CASE JoinIssues(r)
  BY <1>9, JoinIssuesSound, NothingNew DEF JoinIssues
<1>10. CASE ReadActivities(r)
  BY <1>10, ReadActivitiesSound, NothingNew DEF ReadActivities
<1>11. CASE AskEngine(r)
  BY <1>11, AskEngineSound, NothingNew DEF AskEngine
<1>12. CASE ReadPushes(r)
  BY <1>12, ReadPushesSound, NothingNew DEF ReadPushes
<1>13. CASE EnterProposal(r)
  BY <1>13, EnterProposalSound
<1>14. CASE proposal_rows(r)
  BY <1>14, proposal_rowsSound, NothingNew DEF proposal_rows
<1>15. CASE FindProposal(r)
  BY <1>15, FindProposalSound, NothingNew DEF FindProposal
<1>16. CASE EnterWithdrawal(r)
  BY <1>16, EnterWithdrawalSound
<1> QED
  BY <1>1, <1>2, <1>3, <1>4, <1>5, <1>6, <1>7, <1>8, <1>9, <1>10, <1>11, <1>12, <1>13, <1>14, <1>15, <1>16 DEF Step

LEMMA NextSound ==
  ASSUME IInv, [Next]_vars
  PROVE  IInv' /\ (vars' # vars => NewAreTrue)
<1>1. CASE ReplaceSchedule \/ RaiseHazard \/ ClearHazard
  BY <1>1, WorldSound, NothingNew
<1>2. CASE \E r \in Requests : Ask(r)
  BY <1>2, AskSound, NothingNew
<1>3. CASE \E r \in Requests : Step(r)
  BY <1>3, StepSound
<1>4. CASE UNCHANGED vars
  BY <1>4 DEF vars, IInv
<1> QED
  BY <1>1, <1>2, <1>3, <1>4 DEF Next

(* Requests and records stay well formed, whatever is imported, raised,    *)
(* cleared or entered while a handler runs: where a handler is, it holds   *)
(* what it read of a hull that was, and nothing else.                      *)
THEOREM DeskTypes == Spec => []IInv
<1>1. Init => IInv
  BY InitSound
<1>2. IInv /\ [Next]_vars => IInv'
  BY NextSound
<1> QED
  BY <1>1, <1>2, PTL DEF Spec

(* A record says what its request's reads showed, each of some moment      *)
(* between its arrival and its entry and in the order they are made        *)
(* (record_decision, acknowledge_issue, propose_schedule_change,           *)
(* withdraw_schedule_proposal).                                            *)
THEOREM RecordsTrue == Spec => RecordsWereTrue
<1>1. IInv /\ [Next]_vars => [NewAreTrue]_vars
  BY NextSound
<1>2. Spec => [][NewAreTrue]_vars
  BY <1>1, DeskTypes, PTL DEF Spec
<1> QED
  BY <1>2 DEF RecordsWereTrue, NewAreTrue

-----------------------------------------------------------------------------
(* A proposal that is not withdrawn, of an activity on the days it had.    *)
LEMMA StandsOpen ==
  ASSUME NEW p, NEW rows, rows # {}, p.from # None,
         \A a \in rows : /\ a.window # None
                         /\ a.window.start \div DayLength = p.from.start \div DayLength
                         /\ a.window.end \div DayLength = p.from.end \div DayLength
  PROVE  proposal_status(p, rows, FALSE) \in {"open", "reflected"}
<1>1. PICK a : a = CHOOSE x \in rows : TRUE
  OBVIOUS
<1>2. a \in rows
  BY <1>1
<1>3. same_days(p.from, a.window)
  BY <1>2 DEF same_days
<1>4. proposal_status(p, rows, FALSE) =
        CASE same_days(p.to, a.window) -> "reflected"
          [] ~same_days(p.to, a.window) /\ same_days(p.from, a.window) -> "open"
          [] OTHER -> "superseded"
  BY <1>1 DEF proposal_status
<1> QED
  BY <1>3, <1>4

(* A proposal stands open while its activity keeps its days                *)
(* (proposal_status, same_days).                                           *)
THEOREM StaysOpen == Spec => []OpenUntilMoved
<1>1. ASSUME IInv PROVE OpenUntilMoved
  <2>1. SUFFICES ASSUME NEW r \in Requests, req[r].pc = "answered", req[r].op \in {"propose", "proposals"},
                        NEW row \in req[r].answer, row.seq \notin Withdrawn,
                        ledger[row.seq].what.from # None,
                        \A v \in {u \in DOMAIN past : (u >= ledger[row.seq].asked \/ u >= req[r].asked)
                                                       /\ u <= req[r].ended} :
                          LET rows == Row(past[v].activities, ledger[row.seq].subject[1])
                          IN rows # {} /\ \A a \in rows :
                               /\ a.window # None
                               /\ a.window.start \div DayLength = ledger[row.seq].what.from.start \div DayLength
                               /\ a.window.end \div DayLength = ledger[row.seq].what.from.end \div DayLength
                 PROVE  row.status \in {"open", "reflected"}
    BY DEF OpenUntilMoved
  <2>2. /\ Running(req[r], past, ledger) /\ Answered(req[r], past, ledger)
        /\ DOMAIN past = 1 .. Len(past) /\ Len(past) \in Nat
    BY <1>1, <2>1, Places DEF IInv, Sound
  <2>3. Judged(row, req[r], past, ledger)
    BY <2>1, <2>2 DEF Answered
  <2>4. PICK u \in req[r].asked .. req[r].ended, gone \in BOOLEAN :
          /\ row.status = proposal_status(ledger[row.seq].what,
                                          Row(past[u].activities, ledger[row.seq].subject[1]), gone)
          /\ gone => TakenBack(ledger, Len(ledger), row.seq)
    BY <2>3 DEF Judged
  <2>5. u \in DOMAIN past /\ u >= req[r].asked /\ u <= req[r].ended
    BY <2>2, <2>4 DEF Running, Answered
  <2>6. ~gone
    BY <1>1, <2>1, <2>4, Places DEF TakenBack, Withdrawn, IInv
  <2> QED
    BY <2>1, <2>4, <2>5, <2>6, StandsOpen
<1> QED
  BY <1>1, DeskTypes, PTL

(* What was entered before a reading began is in what it shows             *)
(* (issues, proposal_rows).                                                *)
THEOREM LatestShown == Spec => []LatestWordIsShown
<1>1. ASSUME IInv PROVE LatestWordIsShown
  <2>1. SUFFICES ASSUME NEW r \in Requests, req[r].pc = "answered"
                 PROVE  /\ req[r].op = "issues" =>
                             \A row \in req[r].answer :
                               /\ \A n \in {m \in Words({"ISSUE_ACKNOWLEDGED"}, row.key) : m <= req[r].known} :
                                    row.acknowledged # None /\ row.acknowledged >= n
                               /\ row.space # None =>
                                    \A n \in {m \in Words(Decisions, <<row.space>>) : m <= req[r].known} :
                                      row.decision # None /\ row.decision >= n
                        /\ req[r].op = "proposals" =>
                             \A row \in req[r].answer :
                               (\E n \in 1 .. req[r].known :
                                  ledger[n].action = "SCHEDULE_CHANGE_WITHDRAWN" /\ ledger[n].what = row.seq)
                                 => row.status = "withdrawn"
    BY DEF LatestWordIsShown
  <2>2. Answered(req[r], past, ledger)
    BY <1>1, <2>1 DEF IInv, Sound
  <2>3. ASSUME req[r].op = "issues", NEW row \in req[r].answer
        PROVE  /\ \A n \in {m \in Words({"ISSUE_ACKNOWLEDGED"}, row.key) : m <= req[r].known} :
                    row.acknowledged # None /\ row.acknowledged >= n
               /\ row.space # None =>
                    \A n \in {m \in Words(Decisions, <<row.space>>) : m <= req[r].known} :
                      row.decision # None /\ row.decision >= n
    <3>1. Current(row, req[r], ledger)
      BY <2>2, <2>3 DEF Answered
    <3> QED
      BY <3>1 DEF Current, Shows, Said, Words
  <2>4. ASSUME req[r].op = "proposals", NEW row \in req[r].answer,
               TakenBack(ledger, req[r].known, row.seq)
        PROVE  row.status = "withdrawn"
    <3>1. Judged(row, req[r], past, ledger)
      BY <2>2, <2>4 DEF Answered
    <3>2. PICK u : row.status = proposal_status(ledger[row.seq].what,
                     Row(past[u].activities, ledger[row.seq].subject[1]), TRUE)
      BY <2>4, <3>1 DEF Judged
    <3> QED
      BY <3>2 DEF proposal_status
  <2> QED
    BY <2>3, <2>4 DEF TakenBack
<1> QED
  BY <1>1, DeskTypes, PTL

=============================================================================
