------------------------ MODULE HazardRegisterProofs ------------------------
(***************************************************************************)
(* Proofs about HazardRegister, for every number of keys, requests, logs   *)
(* and instants, over both stores unless a theorem says otherwise.         *)
(***************************************************************************)
EXTENDS HazardRegister, SequenceTheorems, WellFoundedInduction, TLAPS

(* What a handler's position says about what it holds, when there are n    *)
(* rows and the clock shows t.                                             *)
WellFormed(x, n, t) ==
  /\ x \in Handlers
  /\ x.mine \subseteq 1..n
  /\ x.pick \subseteq DOMAIN x.body
  /\ x.at <= t
  /\ x.pc \in RaisePcs \cup ClearPcs => x.body # << >>
  /\ x.pc = "store_raise" => x.pick # {}
  /\ x.pc \in {"store_raise", "ledger_raise"} => x.op \in {"raise", "import"}
  /\ x.pc \in ClearPcs => x.op = "clear"
  /\ x.mine # {} => x.pc \in {"ledger_raise", "ledger_clear", "abandoned"}

TypeInv == TypeOK /\ \A r \in Requests : WellFormed(req[r], Len(rows), now)

USE DEF Instants, RaisePcs, ClearPcs, EndPcs, PCs

-----------------------------------------------------------------------------
(* The next line of a log is one of those still to raise.                  *)
LEMMA NextLineIsPicked ==
  ASSUME TypeOK, NEW r \in Requests, req[r].pick # {}
  PROVE  NextLine(r) \in req[r].pick
<1>1. req[r].pick \subseteq Nat
  BY DEF TypeOK, Handlers
<1> DEFINE R == {p \in Nat \X Nat : p[1] < p[2]}
<1>2. IsWellFoundedOn(R, Nat)
  <2>1. R = OpToRel(<, Nat)
    BY DEF OpToRel
  <2> QED
    BY <2>1, NatLessThanWellFounded
<1>3. \A i, j \in Nat : <<j, i>> \notin R => i <= j
  OBVIOUS
<1> HIDE DEF R
<1>4. \E i \in req[r].pick : \A j \in req[r].pick : i <= j
  <2>1. PICK i \in req[r].pick : \A j \in req[r].pick : <<j, i>> \notin R
    BY <1>1, <1>2, WFMin
  <2> QED
    BY <1>1, <1>3, <2>1, Zenon
<1> QED
  BY <1>4 DEF NextLine

LEMMA IdleIsWellFormed ==
  ASSUME NEW n \in Nat, NEW t \in Nat
  PROVE  Idle \in Handlers /\ WellFormed(Idle, n, t)
<1>1. << >> \in Seq(Keys)
  BY EmptySeq
<1>2. {} \in SUBSET Nat /\ 0 \in Instants
  BY ClockAssumption
<1> QED
  BY <1>1, <1>2 DEF Idle, Handlers, WellFormed

(* A handler that is over holds nothing.                                   *)
LEMMA OverIsWellFormed ==
  ASSUME NEW n \in Nat, NEW t \in Nat, NEW pc \in EndPcs
  PROVE  Over(pc).pc = pc /\ Over(pc).mine = {} /\ WellFormed(Over(pc), n, t)
<1>1. << >> \in Seq(Keys)
  BY EmptySeq
<1>2. {} \in SUBSET Nat /\ 0 \in Instants
  BY ClockAssumption
<1> QED
  <2> DEFINE x == Over(pc)
  <2>1. /\ x.pc = pc /\ x.op = "none" /\ x.body = << >> /\ x.pick = {}
        /\ x.at = 0 /\ x.saw = 0 /\ x.mine = {}
    BY DEF Over, Idle
  <2>2. x \in Handlers
    BY <1>1, <1>2 DEF Over, Idle, Handlers
  <2> HIDE DEF x
  <2>3. WellFormed(x, n, t)
    BY <2>1, <2>2 DEF WellFormed
  <2> QED
    BY <2>1, <2>3 DEF x

LEMMA InitTypeInv == Init => TypeInv
<1> SUFFICES ASSUME Init PROVE TypeInv
  OBVIOUS
<1>1. PICK seeds \in Seeds :
        rows = [i \in DOMAIN seeds |->
                 [key |-> seeds[i], by |-> Seed, ended |-> Never, saw |-> 0]]
  BY DEF Init
<1>2. rows \in Seq(RowRecords)
  <2>1. seeds \in Seq(Keys) /\ DOMAIN seeds = 1..Len(seeds) /\ Len(seeds) \in Nat
    BY KeysAssumption, LenProperties
  <2>2. \A i \in DOMAIN seeds :
          [key |-> seeds[i], by |-> Seed, ended |-> Never, saw |-> 0] \in RowRecords
    BY <2>1 DEF RowRecords
  <2>3. rows \in [1..Len(seeds) -> RowRecords]
    BY <1>1, <2>1, <2>2
  <2> QED
    BY <2>1, <2>3
<1>3. /\ backend \in Backends /\ now \in 0..MaxNow
      /\ cleared \in [Keys -> Nat \cup {Never}] /\ ledger \in Seq(Entries)
  BY ClockAssumption DEF Init
<1>4. /\ req = [r \in Requests |-> Idle]
      /\ Idle \in Handlers /\ WellFormed(Idle, Len(rows), now)
  BY <1>2, <1>3, ClockAssumption, IdleIsWellFormed DEF Init
<1>5. TypeOK
  BY <1>2, <1>3, <1>4, ClockAssumption DEF TypeOK, Idle
<1> QED
  BY <1>4, <1>5 DEF TypeInv

(* More rows and a later clock leave a handler well formed.                *)
LEMMA StaysWellFormed ==
  ASSUME NEW x, NEW m \in Nat, NEW n \in Nat, NEW s \in Nat, NEW t \in Nat,
         m <= n, s <= t, WellFormed(x, m, s)
  PROVE  WellFormed(x, n, t)
BY DEF WellFormed, Handlers

(* A step of one handler that leaves it well formed keeps TypeInv.         *)
LEMMA HandlerStep ==
  ASSUME TypeInv, NEW r \in Requests, NEW x,
         req' = [req EXCEPT ![r] = x],
         UNCHANGED <<backend, now>>,
         rows' \in Seq(RowRecords), Len(rows) <= Len(rows'),
         cleared' \in [Keys -> Nat \cup {Never}],
         ledger' \in Seq(Entries),
         WellFormed(x, Len(rows'), now)
  PROVE  TypeInv'
<1>1. Len(rows) \in Nat /\ Len(rows') \in Nat /\ now \in Nat
  BY DEF TypeInv, TypeOK
<1>2. \A q \in Requests : req'[q] = IF q = r THEN x ELSE req[q]
  BY DEF TypeInv, TypeOK
<1>3. \A q \in Requests : WellFormed(req'[q], Len(rows'), now')
  BY <1>1, <1>2, StaysWellFormed DEF TypeInv
<1>4. x \in Handlers
  BY DEF WellFormed
<1>5. TypeOK'
  <2>1. DOMAIN rows' = 1..Len(rows')
    BY LenProperties
  <2>2. req' \in [Requests -> Handlers]
    BY <1>4 DEF TypeInv, TypeOK
  <2>3. \A q \in Requests : /\ req'[q].mine \subseteq DOMAIN rows'
                            /\ req'[q].pick \subseteq DOMAIN req'[q].body
                            /\ req'[q].at <= now'
    BY <1>3, <2>1 DEF WellFormed
  <2> QED
    BY <2>2, <2>3 DEF TypeInv, TypeOK
<1> QED
  BY <1>3, <1>5 DEF TypeInv

LEMMA TickKeepsTypes == TypeInv /\ Tick => TypeInv'
<1> SUFFICES ASSUME TypeInv, Tick PROVE TypeInv'
  OBVIOUS
<1>1. /\ Len(rows) \in Nat /\ now \in Nat /\ now' = now + 1 /\ now' \in 0..MaxNow
      /\ UNCHANGED <<backend, rows, cleared, ledger, req>>
  BY ClockAssumption DEF Tick, TypeInv, TypeOK
<1>2. \A q \in Requests : WellFormed(req'[q], Len(rows'), now')
  BY <1>1, StaysWellFormed DEF TypeInv
<1>3. TypeOK'
  BY <1>1, <1>2, LenProperties DEF TypeInv, TypeOK, WellFormed
<1> QED
  BY <1>2, <1>3 DEF TypeInv

(* A request that arrives holds its body and the instant it arrived at.    *)
LEMMA AskKeepsTypes ==
  ASSUME TypeInv, NEW r \in Requests, AskRaise(r) \/ AskClear(r) \/ AskImport(r)
  PROVE  /\ TypeInv' /\ UNCHANGED <<backend, now, rows, cleared, ledger>>
         /\ req'[r].mine = {} /\ req[r].pc = "idle"
         /\ req'[r].pc \in {"check_live", "store_clear"}
         /\ \A q \in Requests \ {r} : req'[q] = req[q]
<1>1. PICK op \in {"raise", "clear", "import"}, body \in Seq(Keys),
           pc \in {"check_live", "store_clear"} :
        /\ Ask(r, op, body, pc)
        /\ body # << >>
        /\ pc = "store_clear" => op = "clear"
  <2>1. \A k \in Keys : <<k>> \in Seq(Keys) /\ <<k>> # << >>
    OBVIOUS
  <2>2. \A log \in Logs : log \in Seq(Keys) /\ log # << >>
    BY KeysAssumption
  <2>3. CASE AskRaise(r)
    <3>1. PICK k \in Keys : Ask(r, "raise", <<k>>, "check_live")
      BY <2>3 DEF AskRaise
    <3> QED
      BY <2>1, <3>1, Zenon
  <2>4. CASE AskClear(r)
    <3>1. PICK k \in Keys : Ask(r, "clear", <<k>>, "store_clear")
      BY <2>4 DEF AskClear
    <3> QED
      BY <2>1, <3>1, Zenon
  <2>5. CASE AskImport(r)
    <3>1. PICK log \in Logs : Ask(r, "import", log, "check_live")
      BY <2>5 DEF AskImport
    <3> QED
      BY <2>2, <3>1, Zenon
  <2> QED
    BY <2>3, <2>4, <2>5
<1> DEFINE x == [Idle EXCEPT !.pc = pc, !.op = op, !.body = body, !.at = now]
<1>2. /\ req' = [req EXCEPT ![r] = x] /\ UNCHANGED <<backend, now, rows, cleared, ledger>>
      /\ req[r].pc = "idle"
  BY <1>1 DEF Ask
<1>3. now \in Instants /\ now \in Nat /\ Len(rows) \in Nat
  BY ClockAssumption DEF TypeInv, TypeOK
<1>4. WellFormed(x, Len(rows), now) /\ x.pc = pc /\ x.mine = {}
  <2>1. {} \in SUBSET Nat /\ 0 \in Nat
    OBVIOUS
  <2> QED
    <3>1. /\ x.pc = pc /\ x.op = op /\ x.body = body /\ x.pick = {}
          /\ x.at = now /\ x.saw = 0 /\ x.mine = {}
      BY DEF Idle
    <3>2. x \in Handlers
      BY <1>1, <1>3, <2>1 DEF Idle, Handlers
    <3> HIDE DEF x
    <3> QED
      BY <1>1, <1>3, <3>1, <3>2 DEF WellFormed
<1> HIDE DEF x
<1>5. /\ rows' \in Seq(RowRecords) /\ Len(rows) <= Len(rows')
      /\ cleared' \in [Keys -> Nat \cup {Never}] /\ ledger' \in Seq(Entries)
  BY <1>2, <1>3 DEF TypeInv, TypeOK
<1>6. TypeInv'
  BY <1>2, <1>4, <1>5, HandlerStep
<1> QED
  BY <1>1, <1>2, <1>4, <1>6 DEF TypeInv, TypeOK

LEMMA CheckKeepsTypes ==
  ASSUME TypeInv, NEW r \in Requests, CheckRaise(r) \/ CheckImport(r)
  PROVE  /\ TypeInv' /\ UNCHANGED <<backend, now, rows, cleared, ledger>>
         /\ req[r].mine = {} /\ req'[r].mine = {}
         /\ \A q \in Requests \ {r} : req'[q] = req[q]
<1>1. /\ UNCHANGED <<backend, now, rows, cleared, ledger>>
      /\ rows' \in Seq(RowRecords) /\ Len(rows) <= Len(rows') /\ Len(rows) \in Nat
      /\ cleared' \in [Keys -> Nat \cup {Never}] /\ ledger' \in Seq(Entries)
      /\ now \in Nat
  BY ClockAssumption DEF CheckRaise, CheckImport, TypeInv, TypeOK
<1>2. /\ req[r] \in Handlers /\ req[r].body \in Seq(Keys) /\ req[r].body # << >>
      /\ req[r].mine = {} /\ req[r].at <= now
  BY DEF CheckRaise, CheckImport, TypeInv, WellFormed, Handlers
<1>3. CASE CheckRaise(r)
  <2>1. CASE req' = [req EXCEPT ![r] = Over("refused")]
    <3> DEFINE x == Over("refused")
    <3>1. x.mine = {} /\ WellFormed(x, Len(rows), now)
      BY <1>1, OverIsWellFormed
    <3> HIDE DEF x
    <3>2. req' = [req EXCEPT ![r] = x]
      BY <2>1 DEF x
    <3>3. TypeInv'
      BY <1>1, <3>1, <3>2, HandlerStep
    <3> QED
      BY <1>1, <1>2, <3>1, <3>2, <3>3 DEF TypeInv, TypeOK
  <2> DEFINE x == [req[r] EXCEPT !.pc = "store_raise", !.pick = {1}, !.saw = Len(rows)]
  <2>2. CASE req' = [req EXCEPT ![r] = x]
    <3>1. /\ x \in Handlers /\ x.pc = "store_raise" /\ x.pick = {1}
          /\ x.op = "raise" /\ x.body = req[r].body /\ x.at = req[r].at /\ x.mine = {}
      <4>1. {1} \in SUBSET Nat /\ Len(rows) \in Nat /\ req[r].op = "raise"
        BY <1>1, <1>3 DEF CheckRaise
      <4> QED
        BY <1>2, <4>1 DEF Handlers
    <3>2. x.pick \subseteq DOMAIN x.body
      BY <1>2, <3>1
    <3> HIDE DEF x
    <3>3. WellFormed(x, Len(rows), now)
      BY <1>2, <3>1, <3>2 DEF WellFormed
    <3>4. TypeInv'
      BY <1>1, <2>2, <3>3, HandlerStep
    <3> QED
      BY <1>1, <1>2, <2>2, <3>1, <3>4 DEF TypeInv, TypeOK
  <2> QED
    BY <1>3, <2>1, <2>2 DEF CheckRaise
<1>4. CASE CheckImport(r)
  <2>1. PICK pick \in SUBSET DOMAIN req[r].body :
          req' = [req EXCEPT ![r] =
            [req[r] EXCEPT !.pc = IF pick = {} THEN "ledger_summary" ELSE "store_raise",
                           !.pick = pick, !.saw = Len(rows)]]
    BY <1>4 DEF CheckImport, WouldRaise
  <2> DEFINE x == [req[r] EXCEPT !.pc = IF pick = {} THEN "ledger_summary" ELSE "store_raise",
                                 !.pick = pick, !.saw = Len(rows)]
  <2>2. req' = [req EXCEPT ![r] = x]
    BY <2>1
  <2>3. /\ x \in Handlers /\ x.pc \in {"ledger_summary", "store_raise"} /\ x.pick = pick
        /\ x.pc = "store_raise" => pick # {}
        /\ x.op = "import" /\ x.body = req[r].body /\ x.at = req[r].at /\ x.mine = {}
    <3>1. pick \in SUBSET Nat /\ Len(rows) \in Nat /\ req[r].op = "import"
      BY <1>1, <1>2, <1>4 DEF CheckImport
    <3>2. CASE pick = {}
      BY <1>2, <3>1, <3>2 DEF Handlers
    <3>3. CASE pick # {}
      BY <1>2, <3>1, <3>3 DEF Handlers
    <3> QED
      BY <3>2, <3>3
  <2> HIDE DEF x
  <2>4. WellFormed(x, Len(rows), now)
    BY <1>2, <2>3 DEF WellFormed
  <2>5. TypeInv'
    BY <1>1, <2>2, <2>4, HandlerStep
  <2> QED
    BY <1>1, <1>2, <2>2, <2>3, <2>5 DEF TypeInv, TypeOK
<1> QED
  BY <1>3, <1>4

(* The row that is raised goes to the end of the register, open.           *)
LEMMA RaiseRowKeepsTypes ==
  ASSUME TypeInv, NEW r \in Requests, RaiseRow(r)
  PROVE  /\ TypeInv' /\ UNCHANGED <<backend, now, cleared, ledger>>
         /\ \E k \in Keys : rows' = Append(rows, NewRow(r, k)) /\ NewRow(r, k) \in RowRecords
         /\ req[r].mine = {} /\ req'[r].mine = {Len(rows) + 1}
         /\ req'[r].pc = "ledger_raise"
         /\ \A q \in Requests \ {r} : req'[q] = req[q]
<1>1. /\ req[r] \in Handlers /\ req[r].mine = {} /\ req[r].pick # {}
      /\ req[r].body \in Seq(Keys) /\ req[r].body # << >> /\ req[r].op \in {"raise", "import"}
      /\ req[r].pick \subseteq DOMAIN req[r].body /\ req[r].at <= now
      /\ req[r].pc = "store_raise"
  BY DEF RaiseRow, TypeInv, WellFormed, Handlers
<1>2. NextLine(r) \in req[r].pick
  BY <1>1, NextLineIsPicked DEF TypeInv
<1> DEFINE k == req[r].body[NextLine(r)]
<1>3. k \in Keys
  BY <1>1, <1>2, LenProperties, ElementOfSeq
<1>4. NewRow(r, k) \in RowRecords
  BY <1>1, <1>3 DEF NewRow, RowRecords, Handlers
<1>5. rows' = Append(rows, NewRow(r, k)) /\ UNCHANGED <<backend, now, cleared, ledger>>
  BY DEF RaiseRow, StoreRaise
<1> HIDE DEF k
<1>6. /\ rows' \in Seq(RowRecords) /\ Len(rows') = Len(rows) + 1
      /\ Len(rows) \in Nat /\ Len(rows) <= Len(rows')
      /\ cleared' \in [Keys -> Nat \cup {Never}] /\ ledger' \in Seq(Entries)
      /\ now \in Nat
  BY <1>4, <1>5, ClockAssumption DEF TypeInv, TypeOK
<1> DEFINE x == [req[r] EXCEPT !.pc = "ledger_raise",
                               !.pick = req[r].pick \ {NextLine(r)},
                               !.mine = {Len(rows) + 1}]
<1>7. req' = [req EXCEPT ![r] = x]
  BY DEF RaiseRow
<1>8. /\ x \in Handlers /\ x.pc = "ledger_raise" /\ x.pick = req[r].pick \ {NextLine(r)}
      /\ x.op = req[r].op /\ x.body = req[r].body /\ x.at = req[r].at
      /\ x.mine = {Len(rows) + 1}
  <2>1. {Len(rows) + 1} \in SUBSET Nat /\ req[r].pick \ {NextLine(r)} \in SUBSET Nat
    BY <1>1, <1>6 DEF Handlers
  <2> QED
    BY <1>1, <2>1 DEF Handlers
<1> HIDE DEF x
<1>9. WellFormed(x, Len(rows'), now)
  BY <1>1, <1>6, <1>8 DEF WellFormed
<1>10. TypeInv'
  BY <1>6, <1>5, <1>7, <1>9, HandlerStep
<1> QED
  BY <1>1, <1>3, <1>4, <1>5, <1>7, <1>8, <1>10 DEF TypeInv, TypeOK

(* A ledger step appends one entry with the rows the handler holds, and    *)
(* lets go of them.                                                        *)
LEMMA LedgerKeepsTypes ==
  ASSUME TypeInv, NEW r \in Requests,
         LedgerRaise(r) \/ LedgerSummary(r) \/ LedgerClear(r)
  PROVE  /\ TypeInv' /\ UNCHANGED <<backend, now, rows, cleared>>
         /\ \E action \in Actions :
              /\ ledger' = Append(ledger, [action |-> action, by |-> r, facts |-> req[r].mine])
              /\ \/ req[r].mine = {}
                 \/ req[r].pc = "ledger_raise" /\ action = "HAZARD_RAISED"
                 \/ req[r].pc = "ledger_clear" /\ action = "HAZARD_CLEARED"
         /\ req'[r].mine = {}
         /\ \A q \in Requests \ {r} : req'[q] = req[q]
<1>1. /\ UNCHANGED <<backend, now, rows, cleared>>
      /\ rows' \in Seq(RowRecords) /\ Len(rows) <= Len(rows') /\ Len(rows) \in Nat
      /\ cleared' \in [Keys -> Nat \cup {Never}] /\ ledger \in Seq(Entries)
      /\ now \in Nat
  BY ClockAssumption DEF LedgerRaise, LedgerSummary, LedgerClear, TypeInv, TypeOK
<1>2. /\ req[r] \in Handlers /\ req[r].mine \in SUBSET Nat
      /\ req[r].at <= now /\ req[r].pick \subseteq DOMAIN req[r].body
      /\ WellFormed(req[r], Len(rows), now)
  BY DEF TypeInv, WellFormed, Handlers
<1>3. PICK action \in Actions :
        /\ ledger' = Append(ledger, [action |-> action, by |-> r, facts |-> req[r].mine])
        /\ \/ req[r].mine = {}
           \/ req[r].pc = "ledger_raise" /\ action = "HAZARD_RAISED"
           \/ req[r].pc = "ledger_clear" /\ action = "HAZARD_CLEARED"
  <2>1. CASE LedgerRaise(r)
    BY <2>1 DEF LedgerRaise, AppendAudit, Actions
  <2>2. CASE LedgerSummary(r)
    <3>1. req[r].mine = {}
      BY <1>2, <2>2 DEF LedgerSummary, WellFormed
    <3>2. ledger' = Append(ledger, [action |-> "HAZARD_LOG_IMPORTED", by |-> r,
                                    facts |-> req[r].mine])
      BY <2>2, <3>1 DEF LedgerSummary, AppendAudit
    <3> QED
      BY <3>1, <3>2 DEF Actions
  <2>3. CASE LedgerClear(r)
    BY <2>3 DEF LedgerClear, AppendAudit, Actions
  <2> QED
    BY <2>1, <2>2, <2>3
<1>4. ledger' \in Seq(Entries)
  <2>1. [action |-> action, by |-> r, facts |-> req[r].mine] \in Entries
    BY <1>2 DEF Entries
  <2> QED
    BY <1>1, <1>3, <2>1
<1>5. PICK x : /\ req' = [req EXCEPT ![r] = x]
               /\ x.mine = {} /\ WellFormed(x, Len(rows), now)
  <2>1. CASE req' = [req EXCEPT ![r] = Over("answered")]
    <3>1. Over("answered").mine = {} /\ WellFormed(Over("answered"), Len(rows), now)
      BY <1>1, OverIsWellFormed
    <3> QED
      BY <2>1, <3>1
  <2>2. CASE ~(req' = [req EXCEPT ![r] = Over("answered")])
    <3> DEFINE x == [req[r] EXCEPT !.mine = {},
                                   !.pc = IF req[r].pick = {} THEN "ledger_summary"
                                                              ELSE "store_raise"]
    <3>1. LedgerRaise(r) /\ req' = [req EXCEPT ![r] = x]
      BY <2>2 DEF LedgerRaise, LedgerSummary, LedgerClear
    <3>2. req[r].body # << >> /\ req[r].op \in {"raise", "import"}
      BY <1>2, <3>1 DEF LedgerRaise, WellFormed
    <3>3. /\ x \in Handlers /\ x.mine = {} /\ x.pick = req[r].pick
          /\ x.body = req[r].body /\ x.op = req[r].op /\ x.at = req[r].at
          /\ x.pc \in {"ledger_summary", "store_raise"}
          /\ x.pc = "store_raise" => req[r].pick # {}
      <4>1. CASE req[r].pick = {}
        BY <1>2, <4>1 DEF Handlers
      <4>2. CASE req[r].pick # {}
        BY <1>2, <4>2 DEF Handlers
      <4> QED
        BY <4>1, <4>2
    <3> HIDE DEF x
    <3>4. WellFormed(x, Len(rows), now)
      BY <1>2, <3>2, <3>3 DEF WellFormed
    <3> QED
      BY <3>1, <3>3, <3>4
  <2> QED
    BY <2>1, <2>2
<1>6. TypeInv'
  BY <1>1, <1>4, <1>5, HandlerStep
<1> QED
  BY <1>1, <1>3, <1>5, <1>6 DEF TypeInv, TypeOK

(* A clearance ends, at the instant it stamps, exactly the rows it then    *)
(* holds.                                                                  *)
LEMMA ClearRowsKeepsTypes ==
  ASSUME TypeInv, NEW r \in Requests, ClearRows(r)
  PROVE  LET k == req[r].body[1] IN
         /\ TypeInv' /\ UNCHANGED <<backend, now, ledger>>
         /\ k \in Keys /\ req[r].at \in Instants /\ StoreClear(k, req[r].at)
         /\ Len(rows') = Len(rows)
         /\ \A i \in DOMAIN rows : rows'[i].key = rows[i].key /\ rows'[i].by = rows[i].by
         /\ req[r].mine = {} /\ req'[r].mine = Closing(k)
         /\ Closing(k) # {} => req'[r].pc = "ledger_clear"
         /\ \A q \in Requests \ {r} : req'[q] = req[q]
<1> DEFINE k == req[r].body[1]
           t == req[r].at
<1>1. /\ req[r] \in Handlers /\ req[r].mine = {} /\ req[r].body \in Seq(Keys)
      /\ req[r].body # << >> /\ req[r].op = "clear" /\ req[r].at \in Instants
      /\ req[r].at \in Nat /\ req[r].at <= now /\ req[r].pick \subseteq DOMAIN req[r].body
  BY ClockAssumption DEF ClearRows, TypeInv, WellFormed, Handlers
<1>2. k \in Keys
  BY <1>1, EmptySeq, ElementOfSeq
<1>3. /\ rows \in Seq(RowRecords) /\ Len(rows) \in Nat /\ DOMAIN rows = 1..Len(rows)
      /\ now \in Nat /\ cleared \in [Keys -> Nat \cup {Never}] /\ ledger \in Seq(Entries)
  BY ClockAssumption, LenProperties DEF TypeInv, TypeOK
<1>4. Closing(k) \subseteq 1..Len(rows)
  BY <1>3 DEF Closing
<1>5. StoreClear(k, t) /\ UNCHANGED <<backend, now, ledger>>
  BY DEF ClearRows
<1>6. /\ rows' \in Seq(RowRecords) /\ Len(rows') = Len(rows) /\ Len(rows) <= Len(rows')
      /\ cleared' \in [Keys -> Nat \cup {Never}]
      /\ \A i \in DOMAIN rows : rows'[i].key = rows[i].key /\ rows'[i].by = rows[i].by
  <2>1. CASE backend = "postgres"
    <3>1. /\ rows' = [i \in DOMAIN rows |-> IF i \in Closing(k)
                                            THEN [rows[i] EXCEPT !.ended = t]
                                            ELSE rows[i]]
          /\ cleared' = cleared
      BY <1>5, <2>1 DEF StoreClear, StampRows
    <3>2. ASSUME NEW i \in 1..Len(rows)
          PROVE  /\ rows'[i] \in RowRecords
                 /\ rows'[i].key = rows[i].key /\ rows'[i].by = rows[i].by
      <4>1. rows[i] \in RowRecords
        BY <1>3, ElementOfSeq
      <4>2. [rows[i] EXCEPT !.ended = t] \in RowRecords
        BY <1>1, <4>1 DEF RowRecords
      <4>3. CASE i \in Closing(k)
        BY <1>3, <3>1, <4>1, <4>2, <4>3 DEF RowRecords
      <4>4. CASE i \notin Closing(k)
        BY <1>3, <3>1, <4>1, <4>4
      <4> QED
        BY <4>3, <4>4
    <3>3. rows' \in [1..Len(rows) -> RowRecords]
      BY <1>3, <3>1, <3>2
    <3>4. rows' \in Seq(RowRecords) /\ Len(rows') = Len(rows)
      BY <1>3, <3>3
    <3> QED
      BY <1>3, <3>1, <3>2, <3>4
  <2>2. CASE backend # "postgres"
    <3>1. rows' = rows /\ cleared' \in {cleared, [cleared EXCEPT ![k] = t]}
      BY <1>5, <2>2 DEF StoreClear, RecordClearance
    <3> QED
      BY <1>1, <1>3, <3>1
  <2> QED
    BY <2>1, <2>2
<1>7. PICK x : /\ req' = [req EXCEPT ![r] = x]
               /\ x.mine = Closing(k) /\ WellFormed(x, Len(rows), now)
               /\ Closing(k) # {} => x.pc = "ledger_clear"
  <2>1. CASE Closing(k) = {}
    <3>1. Over("refused").mine = {} /\ WellFormed(Over("refused"), Len(rows), now)
      BY <1>3, OverIsWellFormed
    <3>2. req' = [req EXCEPT ![r] = Over("refused")]
      BY <2>1 DEF ClearRows
    <3> QED
      BY <2>1, <3>1, <3>2
  <2>2. CASE Closing(k) # {}
    <3> DEFINE x == [req[r] EXCEPT !.pc = "ledger_clear", !.mine = Closing(k)]
    <3>1. req' = [req EXCEPT ![r] = x]
      BY <2>2 DEF ClearRows
    <3>2. /\ x \in Handlers /\ x.mine = Closing(k) /\ x.pick = req[r].pick
          /\ x.body = req[r].body /\ x.op = req[r].op /\ x.at = req[r].at
          /\ x.pc = "ledger_clear"
      <4>1. Closing(k) \in SUBSET Nat
        BY <1>4
      <4> QED
        BY <1>1, <4>1 DEF Handlers
    <3> HIDE DEF x
    <3>3. WellFormed(x, Len(rows), now)
      BY <1>1, <1>4, <3>2 DEF WellFormed
    <3> QED
      BY <3>1, <3>2, <3>3
  <2> QED
    BY <2>1, <2>2
<1>8. TypeInv'
  BY <1>3, <1>5, <1>6, <1>7, HandlerStep
<1> QED
  BY <1>1, <1>2, <1>5, <1>6, <1>7, <1>8 DEF TypeInv, TypeOK

(* An abandoned handler owes what it held.                                 *)
LEMMA AbandonKeepsTypes ==
  ASSUME TypeInv, NEW r \in Requests, Abandon(r)
  PROVE  /\ TypeInv' /\ UNCHANGED <<backend, now, rows, cleared, ledger>>
         /\ req'[r].pc = "abandoned" /\ req'[r].op = req[r].op /\ req'[r].mine = req[r].mine
         /\ InFlight(r)
         /\ \A q \in Requests \ {r} : req'[q] = req[q]
<1> DEFINE o == Over("abandoned")
           x == [o EXCEPT !.op = req[r].op, !.mine = req[r].mine]
<1>1. /\ req' = [req EXCEPT ![r] = x] /\ UNCHANGED <<backend, now, rows, cleared, ledger>>
      /\ InFlight(r)
  BY DEF Abandon
<1>2. /\ rows' \in Seq(RowRecords) /\ Len(rows) <= Len(rows') /\ Len(rows) \in Nat
      /\ cleared' \in [Keys -> Nat \cup {Never}] /\ ledger' \in Seq(Entries)
      /\ now \in Nat /\ WellFormed(req[r], Len(rows), now)
  BY <1>1, ClockAssumption DEF TypeInv, TypeOK
<1>3. o.pc = "abandoned" /\ WellFormed(o, Len(rows), now)
  BY <1>2, OverIsWellFormed
<1> HIDE DEF o
<1>4. /\ x \in Handlers /\ x.pc = "abandoned" /\ x.op = req[r].op
      /\ x.mine = req[r].mine /\ x.pick = o.pick /\ x.body = o.body /\ x.at = o.at
  <2>1. o \in Handlers /\ req[r] \in Handlers
    BY <1>2, <1>3 DEF WellFormed
  <2> QED
    BY <1>3, <2>1 DEF Handlers
<1> HIDE DEF x
<1>5. WellFormed(x, Len(rows), now)
  BY <1>2, <1>3, <1>4 DEF WellFormed
<1>6. TypeInv'
  BY <1>1, <1>2, <1>5, HandlerStep
<1> QED
  BY <1>1, <1>4, <1>6 DEF TypeInv, TypeOK

LEMMA StepTypeInv == TypeInv /\ [Next]_vars => TypeInv'
<1> SUFFICES ASSUME TypeInv, [Next]_vars PROVE TypeInv'
  OBVIOUS
<1>1. CASE Tick
  BY <1>1, TickKeepsTypes
<1>2. ASSUME NEW r \in Requests, AskRaise(r) \/ AskClear(r) \/ AskImport(r)
      PROVE  TypeInv'
  BY <1>2, AskKeepsTypes
<1>3. ASSUME NEW r \in Requests, Work(r) PROVE TypeInv'
  BY <1>3, CheckKeepsTypes, RaiseRowKeepsTypes, LedgerKeepsTypes, ClearRowsKeepsTypes
     DEF Work
<1>4. ASSUME NEW r \in Requests, Abandon(r) PROVE TypeInv'
  BY <1>4, AbandonKeepsTypes
<1>5. CASE UNCHANGED vars
  BY <1>5 DEF vars, TypeInv, TypeOK, WellFormed
<1> QED
  BY <1>1, <1>2, <1>3, <1>4, <1>5 DEF Next

(* The register, the ledger and the handlers hold values of their kinds,   *)
(* whichever handlers interleave and wherever they are dropped.            *)
THEOREM RegisterTypes == Spec => []TypeOK
<1>1. TypeInv => TypeOK
  BY DEF TypeInv
<1> QED
  BY InitTypeInv, StepTypeInv, <1>1, PTL DEF Spec

-----------------------------------------------------------------------------
(* The accounts.  Every entry names rows that exist; a raising handler     *)
(* holds only rows of its own; what is recorded as cleared, or held by a   *)
(* clearance, has ended; and no two clearances hold one row.               *)
Accounts ==
  /\ \A n \in DOMAIN ledger : ledger[n].facts \subseteq DOMAIN rows
  /\ \A r \in Requests : \A i \in req[r].mine :
       /\ req[r].pc = "ledger_raise" => rows[i].by = r
       /\ req[r].pc = "ledger_clear" => Ended(i) # Never
  /\ \A i \in DOMAIN rows : Recorded(i, "HAZARD_CLEARED") => Ended(i) # Never
  /\ \A q, r \in Requests :
       q # r /\ req[q].pc = "ledger_clear" /\ req[r].pc = "ledger_clear"
         => req[q].mine \cap req[r].mine = {}

IInv == TypeInv /\ Accounts /\ RaisesAreLedgered /\ RecordedOnce /\ EndsAreLedgered

(* What an appended entry records.                                         *)
LEMMA AppendRecords ==
  ASSUME TypeInv, NEW e \in Entries, ledger' = Append(ledger, e)
  PROVE  /\ DOMAIN ledger = 1..Len(ledger) /\ DOMAIN ledger' = 1..(Len(ledger) + 1)
         /\ Len(ledger) \in Nat
         /\ \A n \in DOMAIN ledger : ledger'[n] = ledger[n]
         /\ ledger'[Len(ledger) + 1] = e
         /\ \A i, action : Recorded(i, action)' <=>
              Recorded(i, action) \/ (e.action = action /\ i \in e.facts)
<1>1. /\ ledger \in Seq(Entries) /\ Len(ledger) \in Nat
      /\ DOMAIN ledger = 1..Len(ledger) /\ DOMAIN ledger' = 1..(Len(ledger) + 1)
      /\ \A n \in DOMAIN ledger : ledger'[n] = ledger[n]
      /\ ledger'[Len(ledger) + 1] = e
  BY LenProperties DEF TypeInv, TypeOK
<1>2. ASSUME NEW i, NEW action
      PROVE  Recorded(i, action)' <=>
               Recorded(i, action) \/ (e.action = action /\ i \in e.facts)
  <2>1. ASSUME Recorded(i, action)'
        PROVE  Recorded(i, action) \/ (e.action = action /\ i \in e.facts)
    <3>1. PICK n \in DOMAIN ledger' : ledger'[n].action = action /\ i \in ledger'[n].facts
      BY <2>1 DEF Recorded
    <3> QED
      BY <1>1, <3>1 DEF Recorded
  <2>2. ASSUME Recorded(i, action) PROVE Recorded(i, action)'
    <3>1. PICK n \in DOMAIN ledger : ledger[n].action = action /\ i \in ledger[n].facts
      BY <2>2 DEF Recorded
    <3>2. n \in DOMAIN ledger'
      BY <1>1, <3>1
    <3> QED
      BY <1>1, <3>1, <3>2 DEF Recorded
  <2>3. ASSUME e.action = action, i \in e.facts PROVE Recorded(i, action)'
    <3>1. Len(ledger) + 1 \in DOMAIN ledger'
      BY <1>1
    <3> QED
      BY <1>1, <2>3, <3>1 DEF Recorded
  <2> QED
    BY <2>1, <2>2, <2>3
<1> QED
  BY <1>1, <1>2

LEMMA InitIInv == Init => IInv
<1> SUFFICES ASSUME Init PROVE IInv
  OBVIOUS
<1>1. ledger = << >> /\ DOMAIN ledger = {} /\ \A r \in Requests : req[r].mine = {}
  BY DEF Init, Idle
<1>2. \A i \in DOMAIN rows : rows[i].by = Seed
  BY DEF Init
<1>3. \A i, action : ~Recorded(i, action)
  BY <1>1 DEF Recorded
<1>4. Accounts
  BY <1>1, <1>3 DEF Accounts
<1>5. RaisesAreLedgered /\ RecordedOnce
  BY <1>1, <1>2 DEF RaisesAreLedgered, RecordedOnce
<1>6. EndsAreLedgered
  BY DEF Init, EndsAreLedgered, Ended
<1> QED
  BY <1>4, <1>5, <1>6, InitTypeInv DEF IInv

(* A step that touches neither the register nor the ledger, by a handler   *)
(* that holds nothing or is dropped with what it holds.                    *)
LEMMA QuietStep ==
  ASSUME IInv, TypeInv', NEW r \in Requests, UNCHANGED <<backend, rows, cleared, ledger>>,
         \A q \in Requests \ {r} : req'[q] = req[q],
         \/ req[r].mine = {} /\ req'[r].mine = {}
         \/ /\ req'[r].mine = req[r].mine /\ req'[r].op = req[r].op
            /\ req'[r].pc = "abandoned"
  PROVE  IInv'
<1>1. /\ \A i : Ended(i)' = Ended(i)
      /\ \A i, action : Recorded(i, action)' <=> Recorded(i, action)
  BY DEF Ended, Recorded
<1>2. \A q \in Requests : \A i \in req'[q].mine :
        /\ i \in req[q].mine
        /\ req'[q].pc \in {"ledger_raise", "ledger_clear"} => req'[q].pc = req[q].pc
  OBVIOUS
<1>3. Accounts'
  <2>1. \A n \in DOMAIN ledger' : ledger'[n].facts \subseteq DOMAIN rows'
    BY DEF IInv, Accounts
  <2>2. \A q \in Requests : \A i \in req'[q].mine :
          /\ req'[q].pc = "ledger_raise" => rows'[i].by = q
          /\ req'[q].pc = "ledger_clear" => Ended(i)' # Never
    BY <1>1, <1>2 DEF IInv, Accounts
  <2>3. \A i \in DOMAIN rows' : Recorded(i, "HAZARD_CLEARED")' => Ended(i)' # Never
    BY <1>1 DEF IInv, Accounts
  <2>4. \A p, q \in Requests :
          p # q /\ req'[p].pc = "ledger_clear" /\ req'[q].pc = "ledger_clear"
            => req'[p].mine \cap req'[q].mine = {}
    BY <1>2 DEF IInv, Accounts
  <2> QED
    BY <2>1, <2>2, <2>3, <2>4 DEF Accounts
<1>4. RaisesAreLedgered'
  <2>1. ASSUME NEW i \in DOMAIN rows, Owed(i, "ledger_raise", {"raise", "import"})
        PROVE  Owed(i, "ledger_raise", {"raise", "import"})'
    <3>1. PICK q \in Requests : /\ i \in req[q].mine
                                /\ \/ req[q].pc = "ledger_raise"
                                   \/ /\ req[q].pc = "abandoned"
                                      /\ req[q].op \in {"raise", "import"}
      BY <2>1 DEF Owed
    <3>2. req[q].pc = "ledger_raise" => req[q].op \in {"raise", "import"}
      BY DEF IInv, TypeInv, WellFormed
    <3> QED
      BY <3>1, <3>2 DEF Owed
  <2> QED
    BY <1>1, <2>1 DEF IInv, RaisesAreLedgered
<1>5. RecordedOnce'
  <2>1. \A m, n \in DOMAIN ledger' :
          m # n /\ ledger'[m].action = ledger'[n].action
            => ledger'[m].facts \cap ledger'[n].facts = {}
    BY DEF IInv, RecordedOnce
  <2>2. \A q \in Requests : \A i \in req'[q].mine :
          /\ req'[q].pc = "ledger_raise" => ~Recorded(i, "HAZARD_RAISED")'
          /\ req'[q].pc = "ledger_clear" => ~Recorded(i, "HAZARD_CLEARED")'
    BY <1>1, <1>2 DEF IInv, RecordedOnce
  <2> QED
    BY <2>1, <2>2 DEF RecordedOnce
<1>6. EndsAreLedgered'
  <2>1. ASSUME NEW i, Owed(i, "ledger_clear", {"clear"})
        PROVE  Owed(i, "ledger_clear", {"clear"})'
    <3>1. PICK q \in Requests : /\ i \in req[q].mine
                                /\ \/ req[q].pc = "ledger_clear"
                                   \/ req[q].pc = "abandoned" /\ req[q].op \in {"clear"}
      BY <2>1 DEF Owed
    <3>2. req[q].pc = "ledger_clear" => req[q].op = "clear"
      BY DEF IInv, TypeInv, WellFormed
    <3> QED
      BY <3>1, <3>2 DEF Owed
  <2> QED
    BY <1>1, <2>1 DEF IInv, EndsAreLedgered
<1> QED
  BY <1>3, <1>4, <1>5, <1>6 DEF IInv

(* Ledgering what a handler holds: nobody else holds or has ledgered it.   *)
LEMMA LedgerStep ==
  ASSUME IInv, TypeInv', NEW r \in Requests, NEW action \in Actions,
         UNCHANGED <<backend, rows, cleared>>,
         ledger' = Append(ledger, [action |-> action, by |-> r, facts |-> req[r].mine]),
         \/ req[r].mine = {}
         \/ req[r].pc = "ledger_raise" /\ action = "HAZARD_RAISED"
         \/ req[r].pc = "ledger_clear" /\ action = "HAZARD_CLEARED",
         req'[r].mine = {},
         \A q \in Requests \ {r} : req'[q] = req[q]
  PROVE  IInv'
<1> DEFINE e == [action |-> action, by |-> r, facts |-> req[r].mine]
<1>1. /\ e \in Entries /\ e.action = action /\ e.facts = req[r].mine
      /\ req[r].mine \subseteq DOMAIN rows
  BY DEF IInv, TypeInv, TypeOK, Handlers, Entries
<1> HIDE DEF e
<1>2. ledger' = Append(ledger, e)
  BY DEF e
<1>3. /\ DOMAIN ledger = 1..Len(ledger) /\ DOMAIN ledger' = 1..(Len(ledger) + 1)
      /\ Len(ledger) \in Nat
      /\ \A n \in DOMAIN ledger : ledger'[n] = ledger[n]
      /\ ledger'[Len(ledger) + 1] = e
      /\ \A i, act : Recorded(i, act)' <=>
           Recorded(i, act) \/ (action = act /\ i \in req[r].mine)
  BY <1>1, <1>2, AppendRecords DEF IInv
<1>4. \A i : Ended(i)' = Ended(i)
  BY DEF Ended
<1>5. \A q \in Requests : \A i \in req'[q].mine : q # r /\ req'[q] = req[q]
  OBVIOUS
<1>6. \A n \in DOMAIN ledger' : n \in DOMAIN ledger \/ n = Len(ledger) + 1
  BY <1>3
<1>7. Accounts'
  <2>1. \A n \in DOMAIN ledger' : ledger'[n].facts \subseteq DOMAIN rows'
    BY <1>1, <1>3, <1>6 DEF IInv, Accounts
  <2>2. \A q \in Requests : \A i \in req'[q].mine :
          /\ req'[q].pc = "ledger_raise" => rows'[i].by = q
          /\ req'[q].pc = "ledger_clear" => Ended(i)' # Never
    BY <1>4, <1>5 DEF IInv, Accounts
  <2>3. \A i \in DOMAIN rows' : Recorded(i, "HAZARD_CLEARED")' => Ended(i)' # Never
    BY <1>3, <1>4 DEF IInv, Accounts
  <2>4. \A p, q \in Requests :
          p # q /\ req'[p].pc = "ledger_clear" /\ req'[q].pc = "ledger_clear"
            => req'[p].mine \cap req'[q].mine = {}
    BY <1>5 DEF IInv, Accounts
  <2> QED
    BY <2>1, <2>2, <2>3, <2>4 DEF Accounts
<1>8. RaisesAreLedgered'
  <2>1. ASSUME NEW i \in DOMAIN rows, Owed(i, "ledger_raise", {"raise", "import"})
        PROVE  \/ Owed(i, "ledger_raise", {"raise", "import"})'
               \/ Recorded(i, "HAZARD_RAISED")'
    <3>1. PICK q \in Requests : /\ i \in req[q].mine
                                /\ \/ req[q].pc = "ledger_raise"
                                   \/ /\ req[q].pc = "abandoned"
                                      /\ req[q].op \in {"raise", "import"}
      BY <2>1 DEF Owed
    <3>2. CASE q = r
      BY <1>3, <3>1, <3>2
    <3>3. CASE q # r
      BY <3>1, <3>3 DEF Owed
    <3> QED
      BY <3>2, <3>3
  <2> QED
    BY <1>3, <2>1 DEF IInv, RaisesAreLedgered
<1>9. RecordedOnce'
  <2>1. \A i \in req[r].mine : ~Recorded(i, action)
    BY DEF IInv, RecordedOnce
  <2>2. \A n \in DOMAIN ledger :
          ledger[n].action = action => ledger[n].facts \cap req[r].mine = {}
    BY <2>1 DEF Recorded
  <2>3. \A m, n \in DOMAIN ledger' :
          m # n /\ ledger'[m].action = ledger'[n].action
            => ledger'[m].facts \cap ledger'[n].facts = {}
    BY <1>1, <1>3, <1>6, <2>2 DEF IInv, RecordedOnce
  <2>4. ASSUME NEW q \in Requests, NEW i \in req'[q].mine
        PROVE  /\ req'[q].pc = "ledger_raise" => ~Recorded(i, "HAZARD_RAISED")'
               /\ req'[q].pc = "ledger_clear" => ~Recorded(i, "HAZARD_CLEARED")'
    <3>1. q # r /\ req'[q] = req[q] /\ i \in req[q].mine
      BY <1>5, <2>4
    <3>2. ASSUME req[q].pc = "ledger_raise", action = "HAZARD_RAISED"
          PROVE  i \notin req[r].mine
      BY <3>1, <3>2 DEF IInv, Accounts
    <3>3. ASSUME req[q].pc = "ledger_clear", action = "HAZARD_CLEARED"
          PROVE  i \notin req[r].mine
      BY <3>1, <3>3 DEF IInv, Accounts
    <3> QED
      BY <1>3, <3>1, <3>2, <3>3 DEF IInv, RecordedOnce
  <2> QED
    BY <2>3, <2>4 DEF RecordedOnce
<1>10. EndsAreLedgered'
  <2>1. ASSUME NEW i, Owed(i, "ledger_clear", {"clear"})
        PROVE  Owed(i, "ledger_clear", {"clear"})' \/ Recorded(i, "HAZARD_CLEARED")'
    <3>1. PICK q \in Requests : /\ i \in req[q].mine
                                /\ \/ req[q].pc = "ledger_clear"
                                   \/ req[q].pc = "abandoned" /\ req[q].op \in {"clear"}
      BY <2>1 DEF Owed
    <3>2. CASE q = r
      BY <1>3, <3>1, <3>2
    <3>3. CASE q # r
      BY <3>1, <3>3 DEF Owed
    <3> QED
      BY <3>2, <3>3
  <2> QED
    BY <1>3, <1>4, <2>1 DEF IInv, EndsAreLedgered
<1> QED
  BY <1>7, <1>8, <1>9, <1>10 DEF IInv

(* Raising a row: the new row is held by its handler and by nothing else.  *)
LEMMA RaiseStep == ASSUME IInv, NEW r \in Requests, RaiseRow(r) PROVE IInv'
<1>0. PICK new \in Nat : new = Len(rows) + 1
  BY DEF IInv, TypeInv, TypeOK
<1>1. PICK k \in Keys : rows' = Append(rows, NewRow(r, k)) /\ NewRow(r, k) \in RowRecords
  BY RaiseRowKeepsTypes DEF IInv
<1>2. /\ TypeInv' /\ UNCHANGED <<backend, now, cleared, ledger>>
      /\ req[r].mine = {} /\ req'[r].mine = {new} /\ req'[r].pc = "ledger_raise"
      /\ \A q \in Requests \ {r} : req'[q] = req[q]
  BY <1>0, RaiseRowKeepsTypes DEF IInv
<1>3. /\ rows \in Seq(RowRecords) /\ Len(rows) \in Nat /\ DOMAIN rows = 1..Len(rows)
      /\ DOMAIN rows' = DOMAIN rows \cup {new} /\ new \notin DOMAIN rows
      /\ \A i \in DOMAIN rows : rows'[i] = rows[i]
      /\ rows'[new].by = r
  <2>1. NewRow(r, k).by = r
    BY DEF NewRow
  <2>2. rows \in Seq(RowRecords) /\ Len(rows) \in Nat /\ DOMAIN rows = 1..Len(rows)
    BY LenProperties DEF IInv, TypeInv, TypeOK
  <2>3. DOMAIN rows' = 1..new
    BY <1>0, <1>1, <2>2
  <2>4. 1..new = 1..Len(rows) \cup {new}
    BY <1>0, <2>2
  <2> QED
    BY <1>0, <1>1, <2>1, <2>2, <2>3, <2>4
<1>4. /\ \A i \in DOMAIN rows : Ended(i)' = Ended(i)
      /\ \A i, action : Recorded(i, action)' <=> Recorded(i, action)
  BY <1>2, <1>3 DEF Ended, Recorded
<1>5. \A action : ~Recorded(new, action)
  BY <1>3 DEF IInv, Accounts, Recorded
<1>6. \A q \in Requests : \A i \in req'[q].mine :
        \/ q = r /\ i = new
        \/ q # r /\ i \in req[q].mine /\ i \in DOMAIN rows /\ req'[q] = req[q]
  BY <1>2 DEF IInv, TypeInv, TypeOK
<1>7. Accounts'
  <2>1. \A n \in DOMAIN ledger' : ledger'[n].facts \subseteq DOMAIN rows'
    BY <1>2, <1>3 DEF IInv, Accounts
  <2>2. \A q \in Requests : \A i \in req'[q].mine :
          /\ req'[q].pc = "ledger_raise" => rows'[i].by = q
          /\ req'[q].pc = "ledger_clear" => Ended(i)' # Never
    BY <1>2, <1>3, <1>4, <1>6 DEF IInv, Accounts
  <2>3. \A i \in DOMAIN rows' : Recorded(i, "HAZARD_CLEARED")' => Ended(i)' # Never
    <3>1. \A i \in DOMAIN rows' : i = new \/ i \in DOMAIN rows
      BY <1>3
    <3> QED
      BY <1>4, <1>5, <3>1 DEF IInv, Accounts
  <2>4. \A p, q \in Requests :
          p # q /\ req'[p].pc = "ledger_clear" /\ req'[q].pc = "ledger_clear"
            => req'[p].mine \cap req'[q].mine = {}
    BY <1>2, <1>6 DEF IInv, Accounts
  <2> QED
    BY <2>1, <2>2, <2>3, <2>4 DEF Accounts
<1>8. ASSUME NEW i \in DOMAIN rows, NEW pc \in {"ledger_raise", "ledger_clear"}, NEW op,
             Owed(i, pc, op)
      PROVE  Owed(i, pc, op)'
  <2>1. PICK q \in Requests : /\ i \in req[q].mine
                              /\ req[q].pc = pc \/ (req[q].pc = "abandoned" /\ req[q].op \in op)
    BY <1>8 DEF Owed
  <2>2. q # r
    BY <1>2, <2>1
  <2>3. req'[q] = req[q]
    BY <1>2, <2>2
  <2> QED
    BY <2>1, <2>3 DEF Owed
<1>9. RaisesAreLedgered'
  <2>1. Owed(new, "ledger_raise", {"raise", "import"})'
    BY <1>2 DEF Owed
  <2>2. ASSUME NEW i \in DOMAIN rows', rows'[i].by # Seed
        PROVE  Recorded(i, "HAZARD_RAISED")' \/ Owed(i, "ledger_raise", {"raise", "import"})'
    <3>1. CASE i = new
      BY <2>1, <3>1
    <3>2. CASE i # new
      <4>1. i \in DOMAIN rows
        BY <1>3, <3>2
      <4> QED
        BY <1>3, <1>4, <1>8, <2>2, <4>1 DEF IInv, RaisesAreLedgered
    <3> QED
      BY <3>1, <3>2
  <2> QED
    BY <2>2 DEF RaisesAreLedgered
<1>10. RecordedOnce'
  <2>1. \A m, n \in DOMAIN ledger' :
          m # n /\ ledger'[m].action = ledger'[n].action
            => ledger'[m].facts \cap ledger'[n].facts = {}
    BY <1>2 DEF IInv, RecordedOnce
  <2>2. \A q \in Requests : \A i \in req'[q].mine :
          /\ req'[q].pc = "ledger_raise" => ~Recorded(i, "HAZARD_RAISED")'
          /\ req'[q].pc = "ledger_clear" => ~Recorded(i, "HAZARD_CLEARED")'
    BY <1>4, <1>5, <1>6 DEF IInv, RecordedOnce
  <2> QED
    BY <2>1, <2>2 DEF RecordedOnce
<1>11. EndsAreLedgered'
  <2> SUFFICES ASSUME backend = "postgres", NEW i \in DOMAIN rows', Ended(i)' # Never
               PROVE  \/ Recorded(i, "HAZARD_CLEARED")'
                      \/ Owed(i, "ledger_clear", {"clear"})'
    BY <1>2 DEF EndsAreLedgered
  <2>1. i # new
    <3>1. rows'[new].ended = Never /\ backend' = "postgres"
      BY <1>0, <1>1, <1>2, <1>3, LenProperties DEF NewRow, IInv, TypeInv, TypeOK
    <3> QED
      BY <3>1 DEF Ended
  <2>2. i \in DOMAIN rows
    BY <1>3, <2>1
  <2> QED
    BY <1>4, <1>8, <2>2 DEF IInv, EndsAreLedgered
<1> QED
  BY <1>2, <1>7, <1>9, <1>10, <1>11 DEF IInv

(* Every row a clearance closes was open, so it was neither recorded as    *)
(* cleared nor held by another clearance.                                  *)
LEMMA ClearStep == ASSUME IInv, NEW r \in Requests, ClearRows(r) PROVE IInv'
<1> DEFINE k == req[r].body[1]
           t == req[r].at
           C == Closing(k)
<1>1. /\ TypeInv' /\ UNCHANGED <<backend, now, ledger>>
      /\ k \in Keys /\ t \in Instants /\ StoreClear(k, t)
      /\ Len(rows') = Len(rows)
      /\ \A i \in DOMAIN rows : rows'[i].key = rows[i].key /\ rows'[i].by = rows[i].by
      /\ req[r].mine = {} /\ req'[r].mine = C
      /\ C # {} => req'[r].pc = "ledger_clear"
      /\ \A q \in Requests \ {r} : req'[q] = req[q]
  BY ClearRowsKeepsTypes DEF IInv
<1>2. DOMAIN rows' = DOMAIN rows
  BY <1>1, LenProperties DEF IInv, TypeInv, TypeOK
<1>3. t # Never
  BY <1>1, ClockAssumption
<1>4. \A i \in DOMAIN rows : Ended(i)' = IF i \in C THEN t ELSE Ended(i)
  <2>1. CASE backend = "postgres"
    <3>1. \A i \in DOMAIN rows :
            rows'[i] = IF i \in C THEN [rows[i] EXCEPT !.ended = t] ELSE rows[i]
      BY <1>1, <2>1 DEF StoreClear, StampRows
    <3>2. \A i \in DOMAIN rows : rows[i] \in RowRecords
      BY LenProperties, ElementOfSeq DEF IInv, TypeInv, TypeOK
    <3> QED
      BY <1>1, <2>1, <3>1, <3>2 DEF Ended, RowRecords
  <2>2. CASE backend # "postgres"
    <3>1. /\ rows' = rows
          /\ cleared' = IF C = {} THEN cleared ELSE [cleared EXCEPT ![k] = t]
      BY <1>1, <2>2 DEF StoreClear, RecordClearance
    <3>2. \A i \in DOMAIN rows : rows[i].key \in Keys
      <4>1. \A i \in DOMAIN rows : rows[i] \in RowRecords
        BY LenProperties, ElementOfSeq DEF IInv, TypeInv, TypeOK
      <4> QED
        BY <4>1 DEF RowRecords
    <3>3. cleared \in [Keys -> Nat \cup {Never}]
      BY DEF IInv, TypeInv, TypeOK
    <3>4. \A i \in DOMAIN rows : i \in C <=> rows[i].key = k /\ cleared[rows[i].key] = Never
      BY <2>2 DEF Closing, Ended
    <3> HIDE DEF C
    <3>5. ASSUME NEW i \in DOMAIN rows, i \notin C, C # {} PROVE rows[i].key # k
      <4>1. PICK j \in DOMAIN rows : j \in C
        BY <3>5 DEF C, Closing
      <4> QED
        BY <3>4, <3>5, <4>1
    <3> QED
      BY <1>1, <2>2, <3>1, <3>2, <3>3, <3>4, <3>5 DEF Ended
  <2> QED
    BY <2>1, <2>2
<1>5. /\ C \subseteq DOMAIN rows
      /\ \A i \in C : Ended(i) = Never
  BY DEF Closing
<1> HIDE DEF C, k, t
<1>6. \A i, action : Recorded(i, action)' <=> Recorded(i, action)
  BY <1>1 DEF Recorded
<1>7. /\ \A i \in C : ~Recorded(i, "HAZARD_CLEARED")
      /\ \A q \in Requests \ {r} : req[q].pc = "ledger_clear" => req[q].mine \cap C = {}
  BY <1>5 DEF IInv, Accounts
<1>8. \A q \in Requests : \A i \in req'[q].mine :
        \/ q = r /\ i \in C /\ req'[q].pc = "ledger_clear"
        \/ q # r /\ i \in req[q].mine /\ i \in DOMAIN rows /\ req'[q] = req[q]
  BY <1>1 DEF IInv, TypeInv, TypeOK
<1>9. Accounts'
  <2>1. \A n \in DOMAIN ledger' : ledger'[n].facts \subseteq DOMAIN rows'
    BY <1>1, <1>2 DEF IInv, Accounts
  <2>2. \A q \in Requests : \A i \in req'[q].mine :
          /\ req'[q].pc = "ledger_raise" => rows'[i].by = q
          /\ req'[q].pc = "ledger_clear" => Ended(i)' # Never
    BY <1>1, <1>3, <1>4, <1>5, <1>8 DEF IInv, Accounts
  <2>3. \A i \in DOMAIN rows' : Recorded(i, "HAZARD_CLEARED")' => Ended(i)' # Never
    BY <1>2, <1>3, <1>4, <1>6 DEF IInv, Accounts
  <2>4. \A p, q \in Requests :
          p # q /\ req'[p].pc = "ledger_clear" /\ req'[q].pc = "ledger_clear"
            => req'[p].mine \cap req'[q].mine = {}
    <3> SUFFICES ASSUME NEW p \in Requests, NEW q \in Requests, p # q,
                        req'[p].pc = "ledger_clear", req'[q].pc = "ledger_clear",
                        NEW i, i \in req'[p].mine, i \in req'[q].mine
                 PROVE  FALSE
      BY Zenon
    <3>1. CASE p = r
      BY <1>7, <1>8, <3>1
    <3>2. CASE q = r
      BY <1>7, <1>8, <3>2
    <3>3. CASE p # r /\ q # r
      BY <1>8, <3>3 DEF IInv, Accounts
    <3> QED
      BY <3>1, <3>2, <3>3
  <2> QED
    BY <2>1, <2>2, <2>3, <2>4 DEF Accounts
<1>10. ASSUME NEW i, NEW pc \in {"ledger_raise", "ledger_clear"}, NEW op, Owed(i, pc, op)
       PROVE  Owed(i, pc, op)'
  <2>1. PICK q \in Requests : /\ i \in req[q].mine
                              /\ req[q].pc = pc \/ (req[q].pc = "abandoned" /\ req[q].op \in op)
    BY <1>10 DEF Owed
  <2>2. q # r
    BY <1>1, <2>1
  <2>3. req'[q] = req[q]
    BY <1>1, <2>2
  <2> QED
    BY <2>1, <2>3 DEF Owed
<1>11. RaisesAreLedgered'
  BY <1>1, <1>2, <1>6, <1>10 DEF IInv, RaisesAreLedgered
<1>12. RecordedOnce'
  <2>1. \A m, n \in DOMAIN ledger' :
          m # n /\ ledger'[m].action = ledger'[n].action
            => ledger'[m].facts \cap ledger'[n].facts = {}
    BY <1>1 DEF IInv, RecordedOnce
  <2>2. \A q \in Requests : \A i \in req'[q].mine :
          /\ req'[q].pc = "ledger_raise" => ~Recorded(i, "HAZARD_RAISED")'
          /\ req'[q].pc = "ledger_clear" => ~Recorded(i, "HAZARD_CLEARED")'
    BY <1>6, <1>7, <1>8 DEF IInv, RecordedOnce
  <2> QED
    BY <2>1, <2>2 DEF RecordedOnce
<1>13. EndsAreLedgered'
  <2> SUFFICES ASSUME backend = "postgres", NEW i \in DOMAIN rows', Ended(i)' # Never
               PROVE  \/ Recorded(i, "HAZARD_CLEARED")'
                      \/ Owed(i, "ledger_clear", {"clear"})'
    BY <1>1 DEF EndsAreLedgered
  <2>1. CASE i \in C
    BY <1>1, <2>1 DEF Owed
  <2>2. CASE i \notin C
    BY <1>2, <1>4, <1>6, <1>10, <2>2 DEF IInv, EndsAreLedgered
  <2> QED
    BY <2>1, <2>2
<1> QED
  BY <1>1, <1>9, <1>11, <1>12, <1>13 DEF IInv

LEMMA StepIInv == IInv /\ [Next]_vars => IInv'
<1> SUFFICES ASSUME IInv, [Next]_vars PROVE IInv'
  OBVIOUS
<1>1. TypeInv /\ TypeInv'
  BY StepTypeInv DEF IInv
<1>2. CASE Tick \/ UNCHANGED vars
  <2>1. UNCHANGED <<backend, rows, cleared, ledger, req>>
    BY <1>2 DEF Tick, vars
  <2>2. /\ \A i : Ended(i)' = Ended(i)
        /\ \A i, action : Recorded(i, action)' <=> Recorded(i, action)
        /\ \A i, pc, op : Owed(i, pc, op)' <=> Owed(i, pc, op)
    BY <2>1 DEF Ended, Recorded, Owed
  <2> QED
    BY <1>1, <2>1, <2>2
       DEF IInv, Accounts, RaisesAreLedgered, RecordedOnce, EndsAreLedgered
<1>3. ASSUME NEW r \in Requests, AskRaise(r) \/ AskClear(r) \/ AskImport(r)
      PROVE  IInv'
  <2>1. req[r].mine = {}
    BY <1>1, <1>3, AskKeepsTypes DEF TypeInv, WellFormed
  <2> QED
    BY <1>1, <1>3, <2>1, AskKeepsTypes, QuietStep
<1>4. ASSUME NEW r \in Requests, CheckRaise(r) \/ CheckImport(r) PROVE IInv'
  BY <1>1, <1>4, CheckKeepsTypes, QuietStep
<1>5. ASSUME NEW r \in Requests, LedgerRaise(r) \/ LedgerSummary(r) \/ LedgerClear(r)
      PROVE  IInv'
  BY <1>1, <1>5, LedgerKeepsTypes, LedgerStep
<1>6. ASSUME NEW r \in Requests, Abandon(r) PROVE IInv'
  BY <1>1, <1>6, AbandonKeepsTypes, QuietStep
<1> QED
  BY <1>2, <1>3, <1>4, <1>5, <1>6, RaiseStep, ClearStep DEF Next, Work

(* The register and the ledger account for each other, over both stores:   *)
(* raise_hazard, import_hazard_log and clear_hazard answer for every row    *)
(* they change, and put none on the record twice.                           *)
THEOREM RegisterLedgered == Spec => []RegisterIsLedgered
<1>1. IInv => RegisterIsLedgered
  BY DEF IInv, RegisterIsLedgered
<1> QED
  BY InitIInv, StepIInv, <1>1, PTL DEF Spec

-----------------------------------------------------------------------------
(* Ends in memory.  A row named by a clearance has ended, a key reads as   *)
(* ended only if a clearance named a row of it, and of the rows of a key   *)
(* the ones named come first.                                              *)
FirstNamed ==
  backend = "memory" =>
    /\ \A i \in DOMAIN rows : Named(i) => Ended(i) # Never
    /\ \A k \in Keys : cleared[k] # Never =>
         \E i \in DOMAIN rows : rows[i].key = k /\ Named(i)
    /\ \A i, j \in DOMAIN rows :
         i < j /\ rows[i].key = rows[j].key /\ Named(j) => Named(i)

MemInv == TypeInv /\ FirstNamed

(* Only a clearance's store call makes a row one that is named.            *)
LEMMA NamedStays ==
  ASSUME MemInv, backend = "memory", NEW r \in Requests,
         UNCHANGED <<backend, rows, cleared>>,
         \A q \in Requests \ {r} : req'[q] = req[q],
         req'[r].mine = {},
         \A i : Recorded(i, "HAZARD_CLEARED")' <=>
                  \/ Recorded(i, "HAZARD_CLEARED")
                  \/ req[r].pc = "ledger_clear" /\ i \in req[r].mine,
         req[r].pc # "abandoned"
  PROVE  FirstNamed'
<1>1. ASSUME NEW i, Owed(i, "ledger_clear", {"clear"})'
      PROVE  Owed(i, "ledger_clear", {"clear"})
  <2>1. PICK q \in Requests : /\ i \in req'[q].mine
                              /\ \/ req'[q].pc = "ledger_clear"
                                 \/ req'[q].pc = "abandoned" /\ req'[q].op \in {"clear"}
    BY <1>1 DEF Owed
  <2>2. req'[q] = req[q]
    BY <2>1
  <2> QED
    BY <2>1, <2>2 DEF Owed
<1>2. ASSUME NEW i, Owed(i, "ledger_clear", {"clear"})
      PROVE  \/ Owed(i, "ledger_clear", {"clear"})'
             \/ Recorded(i, "HAZARD_CLEARED")'
  <2>1. PICK q \in Requests : /\ i \in req[q].mine
                              /\ \/ req[q].pc = "ledger_clear"
                                 \/ req[q].pc = "abandoned" /\ req[q].op \in {"clear"}
    BY <1>2 DEF Owed
  <2>2. CASE q = r
    BY <2>1, <2>2
  <2>3. CASE q # r
    BY <2>1, <2>3 DEF Owed
  <2> QED
    BY <2>2, <2>3
<1>3. ASSUME NEW i, req[r].pc = "ledger_clear", i \in req[r].mine
      PROVE  Owed(i, "ledger_clear", {"clear"})
  BY <1>3 DEF Owed
<1>4. \A i : Named(i)' <=> Named(i)
  BY <1>1, <1>2, <1>3 DEF Named
<1>5. \A i : Ended(i)' = Ended(i)
  BY DEF Ended
<1> QED
  BY <1>4, <1>5 DEF MemInv, FirstNamed

(* A row raised is named by nothing, and comes last.                       *)
LEMMA RaiseKeepsNamed ==
  ASSUME IInv, FirstNamed, backend = "memory", NEW r \in Requests, RaiseRow(r)
  PROVE  FirstNamed'
<1>1. PICK new \in Nat : new = Len(rows) + 1
  BY DEF IInv, TypeInv, TypeOK
<1>2. /\ UNCHANGED <<backend, cleared, ledger>>
      /\ req[r].mine = {} /\ req'[r].mine = {new} /\ req'[r].pc = "ledger_raise"
      /\ \A q \in Requests \ {r} : req'[q] = req[q]
  BY <1>1, RaiseRowKeepsTypes DEF IInv
<1>3. /\ DOMAIN rows \subseteq Nat /\ DOMAIN rows' = DOMAIN rows \cup {new}
      /\ \A i \in DOMAIN rows : i < new /\ rows'[i] = rows[i]
  <2>1. PICK k \in Keys : rows' = Append(rows, NewRow(r, k)) /\ NewRow(r, k) \in RowRecords
    BY RaiseRowKeepsTypes DEF IInv
  <2>2. rows \in Seq(RowRecords) /\ Len(rows) \in Nat /\ DOMAIN rows = 1..Len(rows)
    BY LenProperties DEF IInv, TypeInv, TypeOK
  <2>3. DOMAIN rows' = 1..new /\ 1..new = 1..Len(rows) \cup {new}
    BY <1>1, <2>1, <2>2
  <2> QED
    BY <1>1, <2>1, <2>2, <2>3
<1>4. \A i : Recorded(i, "HAZARD_CLEARED")' <=> Recorded(i, "HAZARD_CLEARED")
  BY <1>2 DEF Recorded
<1>5. ~Recorded(new, "HAZARD_CLEARED")
  <2>1. new \notin DOMAIN rows
    BY <1>3
  <2> QED
    BY <2>1 DEF IInv, Accounts, Recorded
<1>6. ASSUME NEW i
      PROVE  Owed(i, "ledger_clear", {"clear"})' <=> Owed(i, "ledger_clear", {"clear"})
  <2>1. ASSUME NEW q \in Requests
        PROVE  /\ i \in req[q].mine
               /\ req[q].pc = "ledger_clear" \/ (req[q].pc = "abandoned" /\ req[q].op \in {"clear"})
               <=>
               /\ i \in req'[q].mine
               /\ req'[q].pc = "ledger_clear" \/ (req'[q].pc = "abandoned" /\ req'[q].op \in {"clear"})
    <3>1. CASE q = r
      BY <1>2, <3>1
    <3>2. CASE q # r
      BY <1>2, <3>2
    <3> QED
      BY <3>1, <3>2
  <2> QED
    BY <2>1 DEF Owed
<1>7. ~Owed(new, "ledger_clear", {"clear"})
  <2>1. \A q \in Requests : req[q].mine \subseteq DOMAIN rows
    BY DEF IInv, TypeInv, TypeOK
  <2>2. new \notin DOMAIN rows
    BY <1>3
  <2> QED
    BY <2>1, <2>2 DEF Owed
<1>8. (\A i : Named(i)' <=> Named(i)) /\ ~Named(new)
  BY <1>4, <1>5, <1>6, <1>7 DEF Named
<1>9. \A i \in DOMAIN rows : Ended(i)' = Ended(i)
  BY <1>2, <1>3 DEF Ended
<1>10. \A i \in DOMAIN rows' : Named(i)' => i \in DOMAIN rows /\ Ended(i)' # Never
  BY <1>3, <1>8, <1>9 DEF FirstNamed
<1>11. \A k \in Keys : cleared'[k] # Never =>
         \E i \in DOMAIN rows' : rows'[i].key = k /\ Named(i)'
  BY <1>2, <1>3, <1>8 DEF FirstNamed
<1>12. ASSUME NEW i \in DOMAIN rows', NEW j \in DOMAIN rows',
              i < j, rows'[i].key = rows'[j].key, Named(j)'
       PROVE  Named(i)'
  <2>1. j \in DOMAIN rows /\ Named(j)
    BY <1>8, <1>10, <1>12
  <2>2. i \in DOMAIN rows
    BY <1>3, <1>12, <2>1
  <2> QED
    BY <1>3, <1>8, <1>12, <2>1, <2>2 DEF FirstNamed
<1> QED
  BY <1>10, <1>11, <1>12 DEF FirstNamed

(* A clearance that closes anything closes all rows of its key.            *)
LEMMA ClearKeepsNamed ==
  ASSUME IInv, FirstNamed, backend = "memory", NEW r \in Requests, ClearRows(r)
  PROVE  FirstNamed'
<1>1. PICK k \in Keys, t \in Instants :
        /\ k = req[r].body[1] /\ t = req[r].at /\ StoreClear(k, t)
        /\ UNCHANGED <<backend, ledger>>
        /\ req[r].mine = {} /\ req'[r].mine = Closing(k)
        /\ Closing(k) # {} => req'[r].pc = "ledger_clear"
        /\ \A q \in Requests \ {r} : req'[q] = req[q]
  BY ClearRowsKeepsTypes DEF IInv
<1>2. PICK C : C = Closing(k)
  OBVIOUS
<1>3. rows' = rows /\ cleared' = IF C = {} THEN cleared ELSE [cleared EXCEPT ![k] = t]
  BY <1>1, <1>2 DEF StoreClear, RecordClearance
<1>4. /\ cleared \in [Keys -> Nat \cup {Never}] /\ t # Never
      /\ \A i \in DOMAIN rows : rows[i].key \in Keys
  <2>1. \A i \in DOMAIN rows : rows[i] \in RowRecords
    BY LenProperties, ElementOfSeq DEF IInv, TypeInv, TypeOK
  <2> QED
    BY <1>1, <2>1, ClockAssumption DEF IInv, TypeInv, TypeOK, RowRecords
<1>5. \A i : i \in C <=> i \in DOMAIN rows /\ rows[i].key = k /\ cleared[k] = Never
  BY <1>2 DEF Closing, Ended
<1>6. \A i : Recorded(i, "HAZARD_CLEARED")' <=> Recorded(i, "HAZARD_CLEARED")
  BY <1>1 DEF Recorded
<1>7. ASSUME NEW i
      PROVE  Owed(i, "ledger_clear", {"clear"})' <=>
               Owed(i, "ledger_clear", {"clear"}) \/ i \in C
  <2>1. ASSUME NEW q \in Requests
        PROVE  /\ i \in req'[q].mine
               /\ req'[q].pc = "ledger_clear" \/ (req'[q].pc = "abandoned" /\ req'[q].op \in {"clear"})
               <=>
               \/ q = r /\ i \in C
               \/ /\ i \in req[q].mine
                  /\ req[q].pc = "ledger_clear" \/ (req[q].pc = "abandoned" /\ req[q].op \in {"clear"})
    <3>1. CASE q = r
      BY <1>1, <1>2, <3>1
    <3>2. CASE q # r
      BY <1>1, <3>2
    <3> QED
      BY <3>1, <3>2
  <2> QED
    BY <2>1 DEF Owed
<1>8. \A i : Named(i)' <=> Named(i) \/ i \in C
  BY <1>6, <1>7 DEF Named
<1>9. \A i : Ended(i)' = cleared'[rows[i].key] /\ Ended(i) = cleared[rows[i].key]
  BY <1>1, <1>3 DEF Ended
<1>10. \A q \in Keys : cleared'[q] = IF C # {} /\ q = k THEN t ELSE cleared[q]
  BY <1>3, <1>4
<1>11. \A i \in DOMAIN rows' : Named(i)' => Ended(i)' # Never
  BY <1>3, <1>4, <1>5, <1>8, <1>9, <1>10 DEF FirstNamed
<1>12. ASSUME NEW q \in Keys, cleared'[q] # Never
       PROVE  \E i \in DOMAIN rows' : rows'[i].key = q /\ Named(i)'
  <2>1. CASE C # {} /\ q = k
    BY <1>3, <1>5, <1>8, <2>1
  <2>2. CASE ~(C # {} /\ q = k)
    BY <1>3, <1>8, <1>10, <1>12, <2>2 DEF FirstNamed
  <2> QED
    BY <2>1, <2>2
<1>13. ASSUME NEW i \in DOMAIN rows', NEW j \in DOMAIN rows',
              i < j, rows'[i].key = rows'[j].key, Named(j)'
       PROVE  Named(i)'
  <2>1. CASE j \in C
    BY <1>3, <1>5, <1>8, <1>13, <2>1
  <2>2. CASE j \notin C
    BY <1>3, <1>8, <1>13, <2>2 DEF FirstNamed
  <2> QED
    BY <2>1, <2>2
<1> QED
  BY <1>11, <1>12, <1>13 DEF FirstNamed

LEMMA StepFirstNamed == IInv /\ FirstNamed /\ [Next]_vars => FirstNamed'
<1> SUFFICES ASSUME IInv, FirstNamed, [Next]_vars PROVE FirstNamed'
  OBVIOUS
<1> SUFFICES ASSUME backend = "memory" PROVE FirstNamed'
  <2>1. backend' = backend
    <3>1. ASSUME NEW r \in Requests,
                 AskRaise(r) \/ AskClear(r) \/ AskImport(r) \/ Work(r) \/ Abandon(r)
          PROVE  backend' = backend
      BY <3>1, AskKeepsTypes, CheckKeepsTypes, RaiseRowKeepsTypes, LedgerKeepsTypes,
         ClearRowsKeepsTypes, AbandonKeepsTypes DEF IInv, Work
    <3> QED
      BY <3>1 DEF Next, Tick, vars
  <2> QED
    BY <2>1 DEF FirstNamed
<1>1. TypeInv /\ MemInv
  BY DEF IInv, MemInv
<1>2. CASE Tick \/ UNCHANGED vars
  <2>1. UNCHANGED <<backend, rows, cleared, ledger, req>>
    BY <1>2 DEF Tick, vars
  <2>2. (\A i : Ended(i)' = Ended(i)) /\ \A i : Named(i)' <=> Named(i)
    BY <2>1 DEF Ended, Named, Recorded, Owed
  <2> QED
    BY <2>1, <2>2 DEF FirstNamed
<1>3. ASSUME NEW r \in Requests, AskRaise(r) \/ AskClear(r) \/ AskImport(r)
      PROVE  FirstNamed'
  <2>1. /\ UNCHANGED <<backend, rows, cleared, ledger>> /\ req'[r].mine = {} /\ req[r].pc = "idle"
        /\ \A q \in Requests \ {r} : req'[q] = req[q]
    BY <1>1, <1>3, AskKeepsTypes
  <2>2. \A i : Recorded(i, "HAZARD_CLEARED")' <=> Recorded(i, "HAZARD_CLEARED")
    BY <2>1 DEF Recorded
  <2> QED
    BY <1>1, <2>1, <2>2, NamedStays
<1>4. ASSUME NEW r \in Requests, CheckRaise(r) \/ CheckImport(r) PROVE FirstNamed'
  <2>1. /\ UNCHANGED <<backend, rows, cleared, ledger>>
        /\ req'[r].mine = {} /\ req[r].mine = {} /\ req[r].pc = "check_live"
        /\ \A q \in Requests \ {r} : req'[q] = req[q]
    BY <1>1, <1>4, CheckKeepsTypes DEF CheckRaise, CheckImport
  <2>2. \A i : Recorded(i, "HAZARD_CLEARED")' <=> Recorded(i, "HAZARD_CLEARED")
    BY <2>1 DEF Recorded
  <2> QED
    BY <1>1, <2>1, <2>2, NamedStays
<1>5. ASSUME NEW r \in Requests, LedgerRaise(r) \/ LedgerSummary(r) \/ LedgerClear(r)
      PROVE  FirstNamed'
  <2>1. PICK action \in Actions :
          /\ ledger' = Append(ledger, [action |-> action, by |-> r, facts |-> req[r].mine])
          /\ \/ req[r].mine = {}
             \/ req[r].pc = "ledger_raise" /\ action = "HAZARD_RAISED"
             \/ req[r].pc = "ledger_clear" /\ action = "HAZARD_CLEARED"
    BY <1>1, <1>5, LedgerKeepsTypes
  <2>2. /\ UNCHANGED <<backend, rows, cleared>> /\ req'[r].mine = {}
        /\ req[r].pc \in {"ledger_raise", "ledger_summary", "ledger_clear"}
        /\ \A q \in Requests \ {r} : req'[q] = req[q]
    BY <1>1, <1>5, LedgerKeepsTypes DEF LedgerRaise, LedgerSummary, LedgerClear
  <2>3. PICK e : e = [action |-> action, by |-> r, facts |-> req[r].mine]
    OBVIOUS
  <2>4. e \in Entries /\ e.action = action /\ e.facts = req[r].mine
    BY <1>1, <2>3 DEF TypeInv, TypeOK, Handlers, Entries
  <2>5. \A i : Recorded(i, "HAZARD_CLEARED")' <=>
          Recorded(i, "HAZARD_CLEARED") \/ (action = "HAZARD_CLEARED" /\ i \in req[r].mine)
    BY <1>1, <2>1, <2>3, <2>4, AppendRecords
  <2>6. \A i : Recorded(i, "HAZARD_CLEARED")' <=>
          Recorded(i, "HAZARD_CLEARED") \/ (req[r].pc = "ledger_clear" /\ i \in req[r].mine)
    <3>1. req[r].pc = "ledger_clear" => LedgerClear(r)
      BY <1>5 DEF LedgerRaise, LedgerSummary
    <3>2. ASSUME LedgerClear(r), NEW i \in req[r].mine PROVE Recorded(i, "HAZARD_CLEARED")'
      <4>1. req[r].pc = "ledger_clear" /\ action = "HAZARD_CLEARED"
        BY <2>1, <3>2 DEF LedgerClear
      <4> QED
        BY <2>5, <4>1
    <3> QED
      BY <2>1, <2>5, <3>1, <3>2
  <2> QED
    BY <1>1, <2>2, <2>6, NamedStays
<1>6. ASSUME NEW r \in Requests, Abandon(r) PROVE FirstNamed'
  BY <1>6 DEF Abandon
<1> QED
  BY <1>2, <1>3, <1>4, <1>5, <1>6, RaiseKeepsNamed, ClearKeepsNamed DEF Next, Work

(* In memory a row that clear_hazard did not close, and yet is read as     *)
(* ended, stands behind one of its key that was closed, and its key is     *)
(* lost from it on.                                                        *)
THEOREM EndsForGood == Spec => []MemoryEndsForGood
<1>1. Init => FirstNamed
  <2>1. ASSUME Init PROVE \A i : ~Named(i)
    BY <2>1 DEF Init, Idle, Named, Recorded, Owed
  <2>2. ASSUME Init PROVE \A k \in Keys : cleared[k] = Never
    BY <2>2 DEF Init
  <2> QED
    BY <2>1, <2>2 DEF FirstNamed
<1>2. IInv /\ FirstNamed => MemoryEndsForGood
  <2> SUFFICES ASSUME IInv, FirstNamed, backend = "memory",
                      NEW i \in DOMAIN rows, Ended(i) # Never, ~Named(i)
               PROVE  /\ \E j \in 1 .. (i - 1) : rows[j].key = rows[i].key /\ Named(j)
                      /\ \A j \in i .. Len(rows) :
                           rows[j].key = rows[i].key => Ended(j) # Never /\ ~Named(j)
    BY DEF MemoryEndsForGood
  <2>1. /\ DOMAIN rows = 1 .. Len(rows) /\ Len(rows) \in Nat
        /\ \A j \in DOMAIN rows : rows[j].key \in Keys
    <3>1. rows \in Seq(RowRecords) /\ DOMAIN rows = 1 .. Len(rows) /\ Len(rows) \in Nat
      BY LenProperties DEF IInv, TypeInv, TypeOK
    <3>2. \A j \in DOMAIN rows : rows[j] \in RowRecords
      BY <3>1, ElementOfSeq
    <3> QED
      BY <3>1, <3>2 DEF RowRecords
  <2>2. \A j \in DOMAIN rows : Ended(j) = cleared[rows[j].key]
    BY DEF Ended
  <2>3. PICK j \in DOMAIN rows : rows[j].key = rows[i].key /\ Named(j)
    BY <2>1, <2>2 DEF FirstNamed
  <2>4. j < i
    BY <2>1, <2>3 DEF FirstNamed
  <2>5. ASSUME NEW l \in i .. Len(rows), rows[l].key = rows[i].key
        PROVE  Ended(l) # Never /\ ~Named(l)
    <3>1. l \in DOMAIN rows
      BY <2>1, <2>5
    <3>2. l = i \/ i < l
      BY <2>1, <2>5
    <3> QED
      BY <2>2, <2>5, <3>1, <3>2 DEF FirstNamed
  <2>6. j \in 1 .. (i - 1)
    BY <2>1, <2>4
  <2> QED
    BY <2>3, <2>5, <2>6
<1> QED
  BY InitIInv, StepIInv, StepFirstNamed, <1>1, <1>2, PTL DEF Spec

-----------------------------------------------------------------------------
(* The refinement.  A step that changes neither the rows nor the           *)
(* clearances leaves the list of facts as it is.                           *)
LEMMA FactsStay ==
  ASSUME UNCHANGED <<backend, rows, cleared>>
  PROVE  FactList' = FactList
BY DEF FactList, Ended

(* The in-memory register is compared with nothing.                        *)
LEMMA MemoryHasNoFacts ==
  ASSUME backend # "postgres", UNCHANGED backend PROVE FactList' = FactList
BY DEF FactList

(* A hull starts with a list of open facts.                                *)
LEMMA InitFacts == Init => Facts!Init
<1> DEFINE F == [key : Keys, ended : {Never}]
<1> SUFFICES ASSUME Init PROVE FactList \in Seq(F)
  BY DEF Facts!Init
<1>1. rows \in Seq(RowRecords) /\ DOMAIN rows = 1..Len(rows) /\ Len(rows) \in Nat
  BY InitTypeInv, LenProperties DEF TypeInv, TypeOK
<1>2. ASSUME NEW i \in 1..Len(rows)
      PROVE  [key |-> rows[i].key, ended |-> rows[i].ended] \in F
  <2>1. rows[i] \in RowRecords
    BY <1>1, <1>2, ElementOfSeq
  <2>2. rows[i].key \in Keys
    BY <2>1 DEF RowRecords
  <2>3. rows[i].ended = Never
    BY <1>1, <1>2 DEF Init
  <2> QED
    BY <2>2, <2>3
<1> HIDE DEF F
<1>3. CASE backend = "postgres"
  <2>1. FactList \in [1..Len(rows) -> F]
    BY <1>1, <1>2, <1>3 DEF FactList
  <2> QED
    BY <1>1, <2>1
<1>4. CASE backend # "postgres"
  BY <1>4, EmptySeq DEF FactList
<1> QED
  BY <1>3, <1>4

(* A raised row is a fact recorded.                                        *)
LEMMA RaiseRecords ==
  ASSUME IInv, backend = "postgres", NEW r \in Requests, RaiseRow(r)
  PROVE  \E k \in Keys : Facts!Record(k)
<1>1. PICK k \in Keys : rows' = Append(rows, NewRow(r, k)) /\ NewRow(r, k) \in RowRecords
  BY RaiseRowKeepsTypes DEF IInv
<1>2. PICK n \in Nat : n = Len(rows)
  BY DEF IInv, TypeInv, TypeOK
<1>3. /\ rows \in Seq(RowRecords) /\ DOMAIN rows = 1..n
      /\ DOMAIN rows' = 1..(n + 1)
      /\ \A i \in 1..n : rows'[i] = rows[i]
      /\ rows'[n + 1] = NewRow(r, k)
  BY <1>1, <1>2, LenProperties DEF IInv, TypeInv, TypeOK
<1>4. FactList' = [i \in 1..(n + 1) |-> [key |-> rows'[i].key, ended |-> rows'[i].ended]]
  <2>1. backend' = "postgres"
    BY RaiseRowKeepsTypes DEF IInv
  <2> QED
    BY <1>3, <2>1 DEF FactList
<1>5. FactList = [i \in 1..n |-> [key |-> rows[i].key, ended |-> rows[i].ended]]
  BY <1>3 DEF FactList
<1> DEFINE new == [key |-> k, ended |-> Never]
           F == [key : Keys, ended : Nat \cup {Never}]
<1>6. \A i \in 1..n : [key |-> rows[i].key, ended |-> rows[i].ended] \in F
  <2>1. \A i \in 1..n : rows[i] \in RowRecords
    BY <1>2, <1>3, ElementOfSeq
  <2> QED
    BY <2>1 DEF RowRecords
<1>7. FactList \in Seq(F) /\ Len(FactList) = n /\ new \in F
  BY <1>5, <1>6
<1>8. [key |-> rows'[n + 1].key, ended |-> rows'[n + 1].ended] = new
  BY <1>3 DEF NewRow
<1> HIDE DEF new, F
<1>9. /\ Append(FactList, new) \in Seq(F) /\ Len(Append(FactList, new)) = n + 1
      /\ \A i \in 1..n : Append(FactList, new)[i] = FactList[i]
      /\ Append(FactList, new)[n + 1] = new
  BY <1>7, AppendProperties
<1>10. FactList' = Append(FactList, new)
  <2> DEFINE G == FactList'
  <2>1. \A i \in 1..(n + 1) : G[i] = IF i = n + 1 THEN new ELSE FactList[i]
    BY <1>3, <1>4, <1>5, <1>8
  <2>2. \A i \in 1..n : FactList[i] \in F
    BY <1>7, ElementOfSeq
  <2>3. \A i \in 1..(n + 1) : i = n + 1 \/ i \in 1..n
    OBVIOUS
  <2>4. \A i \in 1..(n + 1) : G[i] \in F
    BY <1>7, <2>1, <2>2, <2>3
  <2>5. DOMAIN G = 1..(n + 1) /\ G = [i \in 1..(n + 1) |-> G[i]]
    BY <1>4
  <2> HIDE DEF G
  <2>6. G \in Seq(F) /\ Len(G) = n + 1
    BY <2>4, <2>5
  <2>7. \A i \in 1..(n + 1) : G[i] = Append(FactList, new)[i]
    BY <1>9, <2>1, <2>3
  <2>8. G = Append(FactList, new)
    BY <1>9, <2>6, <2>7, SeqEqual
  <2> QED
    BY <2>8 DEF G
<1> QED
  BY <1>10 DEF Facts!Record, new

(* A clearance that closes rows is an end of the open facts of its key.    *)
LEMMA ClearEnds ==
  ASSUME IInv, backend = "postgres", NEW r \in Requests, ClearRows(r)
  PROVE  \/ FactList' = FactList
         \/ \E k \in Keys : \E t \in 0..MaxNow : Facts!End(k, t)
<1> DEFINE k == req[r].body[1]
           t == req[r].at
<1>1. k \in Keys /\ t \in 0..MaxNow /\ StoreClear(k, t) /\ backend' = backend
  BY ClearRowsKeepsTypes DEF IInv
<1> HIDE DEF k, t
<1>2. rows' = [i \in DOMAIN rows |->
                 IF i \in Closing(k) THEN [rows[i] EXCEPT !.ended = t] ELSE rows[i]]
      /\ cleared' = cleared
  BY <1>1 DEF StoreClear, StampRows
<1>3. \A i \in DOMAIN rows : rows[i] \in RowRecords
  BY LenProperties, ElementOfSeq DEF IInv, TypeInv, TypeOK
<1>4. FactList = [i \in DOMAIN rows |-> [key |-> rows[i].key, ended |-> rows[i].ended]]
  BY DEF FactList
<1>5. FactList' = [i \in DOMAIN rows |-> [key |-> rows'[i].key, ended |-> rows'[i].ended]]
  BY <1>1, <1>2 DEF FactList
<1>6. Facts!OpenFacts(k) = Closing(k)
  BY <1>4 DEF Facts!OpenFacts, Closing, Ended
<1>7. \A i \in DOMAIN rows :
        [key |-> rows'[i].key, ended |-> rows'[i].ended]
          = IF i \in Closing(k) THEN [FactList[i] EXCEPT !.ended = t] ELSE FactList[i]
  BY <1>2, <1>3, <1>4 DEF RowRecords
<1>8. CASE Closing(k) = {}
  <2>1. \A i \in DOMAIN rows :
          [key |-> rows'[i].key, ended |-> rows'[i].ended]
            = [key |-> rows[i].key, ended |-> rows[i].ended]
    BY <1>4, <1>7, <1>8
  <2> QED
    BY <1>4, <1>5, <2>1
<1>9. CASE Closing(k) # {}
  <2>1. DOMAIN FactList = DOMAIN rows
    BY <1>4
  <2>2. FactList' = [i \in DOMAIN FactList |->
                       IF i \in Facts!OpenFacts(k) THEN [FactList[i] EXCEPT !.ended = t]
                                                   ELSE FactList[i]]
    BY <1>5, <1>6, <1>7, <2>1
  <2> QED
    BY <1>1, <1>6, <1>9, <2>2 DEF Facts!End
<1> QED
  BY <1>8, <1>9

(* Over PostgreSQL the register, with its handlers in any interleaving, is *)
(* the list of recorded facts that HazardFacts describes: a raise appends  *)
(* one open fact, a clearance ends the open facts of its key, and nothing  *)
(* else ever changes what a read serves.                                   *)
THEOREM RegisterImplementsFacts == Spec => ImplementsFacts
<1>1. IInv /\ [Next]_vars => [Facts!Next]_FactList
  <2> SUFFICES ASSUME IInv, [Next]_vars PROVE Facts!Next \/ FactList' = FactList
    OBVIOUS
  <2>1. CASE UNCHANGED <<backend, rows, cleared>>
    BY <2>1, FactsStay
  <2>2. ASSUME NEW r \in Requests, RaiseRow(r)
        PROVE  Facts!Next \/ FactList' = FactList
    <3>1. CASE backend = "postgres"
      BY <2>2, <3>1, RaiseRecords DEF Facts!Next
    <3>2. CASE backend # "postgres"
      BY <2>2, <3>2, MemoryHasNoFacts DEF RaiseRow
    <3> QED
      BY <3>1, <3>2
  <2>3. ASSUME NEW r \in Requests, ClearRows(r)
        PROVE  Facts!Next \/ FactList' = FactList
    <3>1. CASE backend = "postgres"
      BY <2>3, <3>1, ClearEnds DEF Facts!Next
    <3>2. CASE backend # "postgres"
      BY <2>3, <3>2, MemoryHasNoFacts DEF ClearRows
    <3> QED
      BY <3>1, <3>2
  <2> QED
    BY <2>1, <2>2, <2>3
       DEF Next, Work, vars, Tick, AskRaise, AskClear, AskImport, Ask, CheckRaise,
           CheckImport, LedgerRaise, LedgerSummary, LedgerClear, Abandon
<1> QED
  BY InitIInv, StepIInv, InitFacts, <1>1, PTL DEF Spec, ImplementsFacts, Facts!Spec
-----------------------------------------------------------------------------
(***************************************************************************)
(* What a reader may rely on: a read of the past stays as it was, and a    *)
(* fact is stored twice only by requests that overlapped.                  *)
(***************************************************************************)
(* A row, once there, keeps its key, its author and what that author saw,  *)
(* and ends at most once, at the instant a handler in flight stamps.       *)
LEMMA EndsOnce ==
  ASSUME TypeInv, [Next]_vars, NEW i \in DOMAIN rows
  PROVE  /\ i \in DOMAIN rows'
         /\ rows'[i].key = rows[i].key /\ rows'[i].by = rows[i].by
         /\ rows'[i].saw = rows[i].saw
         /\ \/ Ended(i)' = Ended(i)
            \/ /\ Ended(i) = Never
               /\ \E r \in Requests : InFlight(r) /\ Ended(i)' = req[r].at
<1>1. /\ rows \in Seq(RowRecords) /\ Len(rows) \in Nat /\ DOMAIN rows = 1..Len(rows)
      /\ cleared \in [Keys -> Nat \cup {Never}]
      /\ rows[i] \in RowRecords
  BY LenProperties, ElementOfSeq DEF TypeInv, TypeOK
<1>2. CASE UNCHANGED <<backend, rows, cleared>>
  BY <1>2 DEF Ended
<1>3. ASSUME NEW r \in Requests, RaiseRow(r)
      PROVE  i \in DOMAIN rows' /\ rows'[i] = rows[i] /\ Ended(i)' = Ended(i)
  <2>1. PICK k \in Keys : rows' = Append(rows, NewRow(r, k)) /\ NewRow(r, k) \in RowRecords
    BY <1>3, RaiseRowKeepsTypes
  <2>2. i \in DOMAIN rows' /\ rows'[i] = rows[i]
    BY <1>1, <2>1, AppendProperties
  <2> QED
    BY <1>3, <2>2, RaiseRowKeepsTypes DEF Ended
<1>4. ASSUME NEW r \in Requests, ClearRows(r)
      PROVE  /\ i \in DOMAIN rows'
             /\ rows'[i].key = rows[i].key /\ rows'[i].by = rows[i].by
             /\ rows'[i].saw = rows[i].saw
             /\ \/ Ended(i)' = Ended(i)
                \/ Ended(i) = Never /\ Ended(i)' = req[r].at
  <2> DEFINE k == req[r].body[1]
             t == req[r].at
  <2>1. k \in Keys /\ StoreClear(k, t) /\ backend' = backend
    BY <1>4, ClearRowsKeepsTypes
  <2> HIDE DEF k, t
  <2>2. CASE backend = "postgres"
    <3>1. rows' = [j \in DOMAIN rows |-> IF j \in Closing(k) THEN [rows[j] EXCEPT !.ended = t]
                                                              ELSE rows[j]]
      BY <2>1, <2>2 DEF StoreClear, StampRows
    <3>2. CASE i \in Closing(k)
      <4>1. Ended(i) = Never
        BY <3>2 DEF Closing
      <4>2. rows'[i] = [rows[i] EXCEPT !.ended = t]
        BY <3>1, <3>2
      <4> QED
        BY <1>1, <2>1, <2>2, <3>1, <4>1, <4>2 DEF Ended, RowRecords, t
    <3>3. CASE i \notin Closing(k)
      BY <2>1, <2>2, <3>1, <3>3 DEF Ended
    <3> QED
      BY <3>2, <3>3
  <2>3. CASE backend # "postgres"
    <3>1. rows' = rows /\ cleared' = IF Closing(k) = {} THEN cleared ELSE [cleared EXCEPT ![k] = t]
      BY <2>1, <2>3 DEF StoreClear, RecordClearance
    <3>2. rows[i].key \in Keys
      BY <1>1 DEF RowRecords
    <3>3. CASE Closing(k) # {} /\ rows[i].key = k
      <4>1. Ended(i) = Never
        BY <2>3, <3>3 DEF Closing, Ended
      <4>2. Ended(i)' = t
        BY <1>1, <2>1, <2>3, <3>1, <3>2, <3>3 DEF Ended
      <4> QED
        BY <3>1, <4>1, <4>2 DEF t
    <3>4. CASE ~(Closing(k) # {} /\ rows[i].key = k)
      BY <1>1, <2>1, <2>3, <3>1, <3>2, <3>4 DEF Ended
    <3> QED
      BY <3>1, <3>3, <3>4
  <2> QED
    BY <2>2, <2>3
<1>5. ASSUME NEW r \in Requests, ClearRows(r) PROVE InFlight(r)
  BY <1>5 DEF ClearRows, InFlight
<1> QED
  BY <1>2, <1>3, <1>4, <1>5
     DEF Next, Work, vars, Tick, AskRaise, AskClear, AskImport, Ask, CheckRaise,
         CheckImport, LedgerRaise, LedgerSummary, LedgerClear, Abandon

(* live_hazards of an instant that lies before every instant a running     *)
(* handler may stamp: no step changes which of the recorded rows it serves.*)
THEOREM PastReadsStable == Spec => PastReadsAreStable
<1>1. TypeInv /\ [Next]_vars =>
        \A t \in Instants : Settled(t) =>
          \A i \in DOMAIN rows : i \in LiveAt(t) <=> i \in LiveAt(t)'
  <2> SUFFICES ASSUME TypeInv, [Next]_vars, NEW t \in Instants, Settled(t),
                      NEW i \in DOMAIN rows
               PROVE  i \in LiveAt(t) <=> i \in LiveAt(t)'
    OBVIOUS
  <2>1. t \in Nat
    BY ClockAssumption
  <2>2. i \in LiveAt(t) <=> Ended(i) = Never \/ Ended(i) + 0 > t
    BY DEF LiveAt, BearingOn
  <2>3. i \in LiveAt(t)' <=> Ended(i)' = Never \/ Ended(i)' + 0 > t
    <3>1. i \in DOMAIN rows'
      BY EndsOnce
    <3> QED
      BY <3>1 DEF LiveAt, BearingOn
  <2>4. CASE Ended(i)' = Ended(i)
    BY <2>2, <2>3, <2>4
  <2>5. CASE Ended(i)' # Ended(i)
    <3>1. Ended(i) = Never /\ \E r \in Requests : InFlight(r) /\ Ended(i)' = req[r].at
      BY <2>5, EndsOnce
    <3>2. PICK r \in Requests : InFlight(r) /\ Ended(i)' = req[r].at
      BY <3>1
    <3>3. req[r].at \in Nat /\ t < req[r].at
      BY <3>2, ClockAssumption DEF TypeInv, TypeOK, Handlers, Settled
    <3> QED
      BY <2>1, <2>2, <2>3, <3>1, <3>2, <3>3
  <2> QED
    BY <2>4, <2>5
<1> QED
  BY InitTypeInv, StepTypeInv, <1>1, PTL DEF Spec, PastReadsAreStable
-----------------------------------------------------------------------------
Raising(x) == x.pc \in {"store_raise", "ledger_raise"}

(* What a handler that has looked still knows of the keys it is to raise:  *)
(* they differ, and an open row of one of them is another's and was        *)
(* written after it looked.                                                *)
Looked(r) ==
  Raising(req[r]) =>
    /\ req[r].saw <= Len(rows)
    /\ \A p, q \in req[r].pick : p # q => req[r].body[p] # req[r].body[q]
    /\ \A p \in req[r].pick : \A i \in DOMAIN rows :
         rows[i].key = req[r].body[p] /\ Ended(i) = Never
           => req[r].saw < i /\ rows[i].by # r

OverlapInv == TypeInv /\ DuplicatesOverlap /\ \A r \in Requests : Looked(r)

(* It still does after a step that leaves it at least as much to raise     *)
(* only of what it had, and in which it writes none of those keys.         *)
LEMMA LookedStays ==
  ASSUME TypeInv, TypeInv', [Next]_vars, NEW r \in Requests, Looked(r),
         Raising(req'[r]) =>
           /\ Raising(req[r]) /\ req'[r].body = req[r].body
           /\ req'[r].saw = req[r].saw /\ req'[r].pick \subseteq req[r].pick,
         \A i \in DOMAIN rows' \ DOMAIN rows :
           rows'[i].by # r \/ \A p \in req'[r].pick : rows'[i].key # req[r].body[p]
  PROVE  Looked(r)'
<1> SUFFICES ASSUME Raising(req'[r])
             PROVE  /\ req'[r].saw <= Len(rows')
                    /\ \A p, q \in req'[r].pick : p # q => req'[r].body[p] # req'[r].body[q]
                    /\ \A p \in req'[r].pick : \A i \in DOMAIN rows' :
                         rows'[i].key = req'[r].body[p] /\ Ended(i)' = Never
                           => req'[r].saw < i /\ rows'[i].by # r
  BY DEF Looked
<1>1. /\ Raising(req[r]) /\ req'[r].body = req[r].body
      /\ req'[r].saw = req[r].saw /\ req'[r].pick \subseteq req[r].pick
  OBVIOUS
<1>2. /\ Len(rows) \in Nat /\ DOMAIN rows = 1..Len(rows)
      /\ Len(rows') \in Nat /\ DOMAIN rows' = 1..Len(rows')
      /\ req[r].saw \in Nat
  BY LenProperties DEF TypeInv, TypeOK, Handlers
<1>3. DOMAIN rows \subseteq DOMAIN rows'
  BY EndsOnce
<1>4. Len(rows) <= Len(rows')
  BY <1>2, <1>3
<1>5. req[r].saw <= Len(rows)
  BY <1>1 DEF Looked
<1>6. ASSUME NEW p \in req'[r].pick, NEW i \in DOMAIN rows',
             rows'[i].key = req'[r].body[p], Ended(i)' = Never
      PROVE  req'[r].saw < i /\ rows'[i].by # r
  <2>1. CASE i \in DOMAIN rows
    <3>1. rows[i].key = req[r].body[p] /\ Ended(i) = Never /\ rows'[i].by = rows[i].by
      BY <1>1, <1>6, <2>1, EndsOnce
    <3> QED
      BY <1>1, <2>1, <3>1 DEF Looked
  <2>2. CASE i \notin DOMAIN rows
    <3>1. Len(rows) < i
      BY <1>2, <2>2
    <3> QED
      BY <1>1, <1>2, <1>5, <1>6, <2>2, <3>1
  <2> QED
    BY <2>1, <2>2
<1>7. \A p, q \in req'[r].pick : p # q => req'[r].body[p] # req'[r].body[q]
  BY <1>1 DEF Looked
<1> QED
  BY <1>1, <1>2, <1>4, <1>5, <1>6, <1>7

(* A handler that looks finds no open row of a key it picks.               *)
LEMMA CheckLooks ==
  ASSUME TypeInv, NEW r \in Requests, CheckRaise(r) \/ CheckImport(r)
  PROVE  Looked(r)'
<1>1. /\ UNCHANGED <<backend, now, rows, cleared>> /\ Len(rows) \in Nat
      /\ req[r] \in Handlers /\ req[r].body \in Seq(Keys)
      /\ DOMAIN req[r].body = 1..Len(req[r].body) /\ Len(req[r].body) \in Nat
  BY CheckKeepsTypes, LenProperties DEF TypeInv, TypeOK, Handlers
<1>2. \A i : Ended(i)' = Ended(i)
  BY <1>1 DEF Ended
<1>3. \A i \in DOMAIN rows : \A t : Ended(i) = Never => rows[i].key \in LiveKeys(t)
  BY DEF LiveKeys, LiveAt, BearingOn
<1> SUFFICES ASSUME Raising(req'[r])
             PROVE  /\ req'[r].saw <= Len(rows)
                    /\ \A p, q \in req'[r].pick : p # q => req'[r].body[p] # req'[r].body[q]
                    /\ \A p \in req'[r].pick : \A i \in DOMAIN rows :
                         ~(rows[i].key = req'[r].body[p] /\ Ended(i) = Never)
  BY <1>1, <1>2 DEF Looked
<1>4. CASE CheckRaise(r)
  <2> DEFINE x == [req[r] EXCEPT !.pc = "store_raise", !.pick = {1}, !.saw = Len(rows)]
  <2>1. req[r].body[1] \notin LiveKeys(now) /\ req'[r] = x
    <3>1. Over("refused").pc = "refused"
      BY DEF Over, Idle
    <3> QED
      BY <1>4, <3>1 DEF CheckRaise, Raising, TypeInv, TypeOK
  <2>2. x.pick = {1} /\ x.saw = Len(rows) /\ x.body = req[r].body
    BY <1>1 DEF Handlers
  <2> HIDE DEF x
  <2> QED
    BY <1>1, <1>3, <2>1, <2>2
<1>5. CASE CheckImport(r)
  <2> DEFINE pick == WouldRaise(req[r].body, LiveKeys(req[r].at))
             x == [req[r] EXCEPT !.pc = IF pick = {} THEN "ledger_summary" ELSE "store_raise",
                                 !.pick = pick, !.saw = Len(rows)]
  <2>1. req'[r] = x
    BY <1>5 DEF CheckImport, TypeInv, TypeOK
  <2>2. x.pick = pick /\ x.saw = Len(rows) /\ x.body = req[r].body
    BY <1>1 DEF Handlers
  <2>3. \A p \in pick : req[r].body[p] \notin LiveKeys(req[r].at)
    BY DEF WouldRaise
  <2>4. \A p, q \in pick : p < q => req[r].body[p] # req[r].body[q]
    BY <1>1 DEF WouldRaise
  <2>5. pick \subseteq Nat
    BY <1>1 DEF WouldRaise
  <2> HIDE DEF pick, x
  <2>6. \A p, q \in pick : p # q => req[r].body[p] # req[r].body[q]
    BY <2>4, <2>5
  <2> QED
    BY <1>1, <1>3, <2>1, <2>2, <2>3, <2>6
<1> QED
  BY <1>4, <1>5

(* Two rows that were there overlap as they did; the step ends some.       *)
LEMMA OldRowsOverlap ==
  ASSUME TypeInv, [Next]_vars, DuplicatesOverlap, DOMAIN rows' = DOMAIN rows
  PROVE  DuplicatesOverlap'
<1> SUFFICES ASSUME NEW i \in DOMAIN rows, NEW j \in DOMAIN rows,
                    i < j, rows'[i].key = rows'[j].key, rows'[j].by # Seed,
                    Ended(i)' = Never, Ended(j)' = Never
             PROVE  rows'[j].by # rows'[i].by /\ rows'[j].saw < i
  BY DEF DuplicatesOverlap
<1>1. /\ rows[i].key = rows[j].key /\ rows[j].by # Seed
      /\ Ended(i) = Never /\ Ended(j) = Never
      /\ rows'[i].by = rows[i].by /\ rows'[j].by = rows[j].by /\ rows'[j].saw = rows[j].saw
  BY EndsOnce
<1> QED
  BY <1>1 DEF DuplicatesOverlap

(* A row that is raised was looked for, and every open row of its key was  *)
(* written since.                                                          *)
LEMMA RaiseOverlaps ==
  ASSUME OverlapInv, NEW r \in Requests, RaiseRow(r)
  PROVE  OverlapInv'
<1> DEFINE line == NextLine(r)
           k == req[r].body[line]
           n == Len(rows)
<1>1. /\ TypeInv' /\ UNCHANGED <<backend, now, cleared>>
      /\ \A q \in Requests \ {r} : req'[q] = req[q]
  BY RaiseRowKeepsTypes DEF OverlapInv
<1>2. /\ req[r] \in Handlers /\ Raising(req[r]) /\ line \in req[r].pick
      /\ req[r].body \in Seq(Keys) /\ req[r].pick \subseteq DOMAIN req[r].body
  <2>1. WellFormed(req[r], Len(rows), now)
    BY DEF OverlapInv, TypeInv
  <2>2. req[r].pc = "store_raise"
    BY DEF RaiseRow
  <2>3. req[r].pick # {}
    BY <2>1, <2>2 DEF WellFormed
  <2> QED
    BY <2>1, <2>2, <2>3, NextLineIsPicked DEF OverlapInv, TypeInv, WellFormed, Raising, Handlers
<1>3. rows' = Append(rows, NewRow(r, k)) /\ NewRow(r, k) \in RowRecords
  <2>1. k \in Keys
    BY <1>2, LenProperties, ElementOfSeq
  <2> QED
    BY <1>2, <2>1 DEF RaiseRow, StoreRaise, NewRow, RowRecords, Handlers
<1>4. /\ n \in Nat /\ DOMAIN rows = 1..n /\ DOMAIN rows' = 1..(n + 1)
      /\ \A i \in 1..n : rows'[i] = rows[i]
      /\ rows'[n + 1].key = k /\ rows'[n + 1].by = r /\ rows'[n + 1].saw = req[r].saw
  BY <1>3, LenProperties, AppendProperties DEF OverlapInv, TypeInv, TypeOK, NewRow
<1>5. [Next]_vars
  BY DEF Next, Work
<1>6. /\ req'[r].body = req[r].body /\ req'[r].saw = req[r].saw
      /\ req'[r].pick = req[r].pick \ {line}
  BY <1>2 DEF RaiseRow, OverlapInv, TypeInv, TypeOK, Handlers
<1>7. Looked(r)
  BY DEF OverlapInv
<1> HIDE DEF line, k, n
<1>8. DuplicatesOverlap'
  <2> SUFFICES ASSUME NEW i \in 1..(n + 1), NEW j \in 1..(n + 1),
                      i < j, rows'[i].key = rows'[j].key, rows'[j].by # Seed,
                      Ended(i)' = Never, Ended(j)' = Never
               PROVE  rows'[j].by # rows'[i].by /\ rows'[j].saw < i
    BY <1>4 DEF DuplicatesOverlap
  <2>1. i \in DOMAIN rows /\ Ended(i) = Never /\ rows'[i] = rows[i]
    <3>1. i \in DOMAIN rows
      BY <1>4
    <3> QED
      BY <1>4, <1>5, <3>1, EndsOnce DEF OverlapInv
  <2>2. CASE j = n + 1
    BY <1>2, <1>4, <1>7, <2>1, <2>2 DEF Looked, k
  <2>3. CASE j # n + 1
    <3>1. j \in DOMAIN rows
      BY <1>4, <2>3
    <3>2. Ended(j) = Never /\ rows'[j] = rows[j]
      BY <1>4, <1>5, <3>1, EndsOnce DEF OverlapInv
    <3> QED
      BY <2>1, <3>1, <3>2 DEF OverlapInv, DuplicatesOverlap
  <2> QED
    BY <2>2, <2>3
<1>9. ASSUME NEW q \in Requests PROVE Looked(q)'
  <2>1. DOMAIN rows' \ DOMAIN rows = {n + 1}
    BY <1>4
  <2>2. CASE q = r
    <3>1. \A p \in req'[r].pick : k # req[r].body[p]
      BY <1>2, <1>6, <1>7 DEF Looked, k
    <3> QED
      BY <1>1, <1>2, <1>4, <1>5, <1>6, <1>7, <2>1, <2>2, <3>1, LookedStays DEF OverlapInv
  <2>3. CASE q # r
    BY <1>1, <1>4, <1>5, <2>1, <2>3, LookedStays DEF OverlapInv
  <2> QED
    BY <2>2, <2>3
<1> QED
  BY <1>1, <1>8, <1>9 DEF OverlapInv

LEMMA InitOverlapInv == Init => OverlapInv
<1> SUFFICES ASSUME Init PROVE OverlapInv
  OBVIOUS
<1>1. \A i \in DOMAIN rows : rows[i].by = Seed
  BY DEF Init
<1>2. \A r \in Requests : ~Raising(req[r])
  BY DEF Init, Idle, Raising
<1> QED
  BY <1>1, <1>2, InitTypeInv DEF OverlapInv, DuplicatesOverlap, Looked

(* A step of another kind writes no row, and leaves its handler nothing to *)
(* raise or what it had.                                                   *)
LEMMA StepOverlapInv == OverlapInv /\ [Next]_vars => OverlapInv'
<1> SUFFICES ASSUME OverlapInv, [Next]_vars PROVE OverlapInv'
  OBVIOUS
<1>1. TypeInv /\ TypeInv'
  BY StepTypeInv DEF OverlapInv
<1>2. ASSUME DOMAIN rows' = DOMAIN rows,
             \A q \in Requests : Looked(q)' \/
               (Raising(req'[q]) =>
                  /\ Raising(req[q]) /\ req'[q].body = req[q].body
                  /\ req'[q].saw = req[q].saw /\ req'[q].pick \subseteq req[q].pick)
      PROVE  OverlapInv'
  <2>1. \A q \in Requests : Looked(q)'
    BY <1>1, <1>2, LookedStays DEF OverlapInv
  <2> QED
    BY <1>1, <1>2, <2>1, OldRowsOverlap DEF OverlapInv
<1>3. CASE Tick \/ UNCHANGED vars
  <2>1. UNCHANGED <<rows, req>>
    BY <1>3 DEF Tick, vars
  <2> QED
    BY <1>2, <2>1
<1>4. ASSUME NEW r \in Requests, AskRaise(r) \/ AskClear(r) \/ AskImport(r)
      PROVE  OverlapInv'
  <2>1. ~Raising(req'[r]) /\ rows' = rows /\ \A q \in Requests \ {r} : req'[q] = req[q]
    BY <1>1, <1>4, AskKeepsTypes DEF Raising
  <2> QED
    BY <1>2, <2>1
<1>5. ASSUME NEW r \in Requests, CheckRaise(r) \/ CheckImport(r) PROVE OverlapInv'
  <2>1. Looked(r)' /\ rows' = rows /\ \A q \in Requests \ {r} : req'[q] = req[q]
    BY <1>1, <1>5, CheckKeepsTypes, CheckLooks
  <2> QED
    BY <1>2, <2>1
<1>6. ASSUME NEW r \in Requests, LedgerRaise(r) \/ LedgerSummary(r) \/ LedgerClear(r)
      PROVE  OverlapInv'
  <2>1. rows' = rows /\ \A q \in Requests \ {r} : req'[q] = req[q]
    BY <1>1, <1>6, LedgerKeepsTypes
  <2>2. Raising(req'[r]) =>
          /\ Raising(req[r]) /\ req'[r].body = req[r].body
          /\ req'[r].saw = req[r].saw /\ req'[r].pick \subseteq req[r].pick
    <3>1. Over("answered").pc = "answered" /\ req[r] \in Handlers
      BY <1>1 DEF Over, Idle, TypeInv, TypeOK
    <3>2. CASE LedgerRaise(r)
      BY <1>1, <3>1, <3>2 DEF LedgerRaise, Raising, TypeInv, TypeOK, Handlers
    <3>3. CASE LedgerSummary(r) \/ LedgerClear(r)
      BY <1>1, <3>1, <3>3 DEF LedgerSummary, LedgerClear, Raising, TypeInv, TypeOK
    <3> QED
      BY <1>6, <3>2, <3>3
  <2> QED
    BY <1>2, <2>1, <2>2
<1>7. ASSUME NEW r \in Requests, ClearRows(r) PROVE OverlapInv'
  <2>1. /\ rows \in Seq(RowRecords) /\ rows' \in Seq(RowRecords) /\ Len(rows') = Len(rows)
        /\ \A q \in Requests \ {r} : req'[q] = req[q]
    BY <1>1, <1>7, ClearRowsKeepsTypes DEF TypeInv, TypeOK
  <2>2. DOMAIN rows' = DOMAIN rows
    BY <2>1, LenProperties
  <2>3. ~Raising(req'[r])
    <3>1. Over("refused").pc = "refused" /\ req[r] \in Handlers
      BY <1>1 DEF Over, Idle, TypeInv, TypeOK
    <3> QED
      BY <1>1, <1>7, <3>1 DEF ClearRows, Raising, TypeInv, TypeOK, Handlers
  <2> QED
    BY <1>2, <2>1, <2>2, <2>3
<1>8. ASSUME NEW r \in Requests, Abandon(r) PROVE OverlapInv'
  <2>1. ~Raising(req'[r]) /\ rows' = rows /\ \A q \in Requests \ {r} : req'[q] = req[q]
    BY <1>1, <1>8, AbandonKeepsTypes DEF Raising
  <2> QED
    BY <1>2, <2>1
<1> QED
  BY <1>3, <1>4, <1>5, <1>6, <1>7, <1>8, RaiseOverlaps DEF Next, Work

(* "One fact, once": raise_hazard and import_hazard_log store a second open *)
(* row of a key only beside a row of another request that was written      *)
(* after they looked.                                                      *)
THEOREM OnlyOverlapsDuplicate == Spec => []DuplicatesOverlap
<1>1. OverlapInv => DuplicatesOverlap
  BY DEF OverlapInv
<1> QED
  BY InitOverlapInv, StepOverlapInv, <1>1, PTL DEF Spec
=============================================================================
