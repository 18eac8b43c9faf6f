--------------------------- MODULE HazardRegister ---------------------------
(***************************************************************************)
(* The field conditions ("hazards") recorded on one hull, and the three    *)
(* handlers that write them: a raise, an administrative clearance and the  *)
(* import of a hazard log.  A handler is a sequence of store calls; every  *)
(* store call is atomic (one mutex section in the in-memory store, one     *)
(* transaction in the PostgreSQL store) and other handlers run between two *)
(* of them.                                                                *)
(*                                                                         *)
(* Both stores are modelled.  They differ in how a clearance is kept:      *)
(* PostgreSQL stamps cleared_at on the rows it closes, the in-memory store *)
(* keeps one clearance per (space, kind) beside rows it never touches.     *)
(*                                                                         *)
(* A (space, kind) pair is a key.  Labels, bases and the since instant are *)
(* not modelled: no read of the register depends on them.                  *)
(***************************************************************************)
EXTENDS Integers, Sequences, FiniteSets

CONSTANTS
  Backends,    \* the stores the server may be started on
  Keys,        \* the (space, kind) pairs of the spaces on the hull's register
  Requests,    \* the requests ever made, each served by one handler run
  Logs,        \* the hazard logs a client may post: sequences of keys
  Seeds,       \* the registers the hull may start with: sequences of keys
  Never,       \* "no such instant": a hazard that has not ended
  Seed,        \* who raised a row the world was seeded with
  MaxNow       \* bound on the clock

ASSUME BackendAssumption == Backends \subseteq {"memory", "postgres"}
ASSUME KeysAssumption ==
  /\ \A log \in Logs : log \in Seq(Keys) /\ Len(log) > 0
  /\ Seeds \subseteq Seq(Keys)
ASSUME SeedAssumption == Seed \notin Requests
ASSUME ClockAssumption == MaxNow \in Nat /\ Never \notin Nat

VARIABLES
  backend,    \* the implementation of Repositories the server runs on
  now,        \* the wall clock
  rows,       \* every hazard recorded: seeded rows, then raised ones, in order
  cleared,    \* in-memory store: when each key was cleared
  ledger,     \* the hazard entries of the hull's audit ledger, oldest first
  req         \* each request's handler: where it is and what it holds

vars == <<backend, now, rows, cleared, ledger, req>>

Instants == 0..MaxNow

(* The handler states.  A request that is "asked" has a body and a scope;  *)
(* the names say which store call comes next.                              *)
RaisePcs  == {"check_live", "store_raise", "ledger_raise"}
ClearPcs  == {"store_clear", "ledger_clear"}
EndPcs    == {"answered", "refused", "abandoned"}
PCs == {"idle", "ledger_summary"} \cup RaisePcs \cup ClearPcs \cup EndPcs

(* What a handler holds: the lines it was given, the positions of the ones *)
(* still to raise, the instant it stamps, how many rows existed when it    *)
(* looked at what is live, and the rows it changed but has not ledgered.   *)
Idle == [pc |-> "idle", op |-> "none", body |-> << >>, pick |-> {},
         at |-> 0, saw |-> 0, mine |-> {}]

\* A handler that is over holds nothing.
Over(pc) == [Idle EXCEPT !.pc = pc]

InFlight(r) == req[r].pc \notin {"idle"} \cup EndPcs
-----------------------------------------------------------------------------
(* The stores' reads.                                                      *)

\* When row i ended, as a read reports it: the row's own cleared_at, or the
\* clearance recorded against its key whichever row that clearance closed.
Ended(i) ==
  IF backend = "postgres" THEN rows[i].ended ELSE cleared[rows[i].key]

\* The rows a read as of instant t serves: not ended, or ended within the tail.
BearingOn(t, tail) ==
  {i \in DOMAIN rows : Ended(i) = Never \/ Ended(i) + tail > t}

LiveAt(t) == BearingOn(t, 0)

LiveKeys(t) == {rows[i].key : i \in LiveAt(t)}

\* Mutant: the clearance forgets the "not cleared before" filter.
ClosingAgain(k) == {i \in DOMAIN rows : rows[i].key = k}

\* The rows a clearance of key k closes: recorded, and not cleared before.
Closing(k) == {i \in DOMAIN rows : rows[i].key = k /\ Ended(i) = Never}
-----------------------------------------------------------------------------
(* The stores' writes.                                                     *)

\* The row a raise inserts: open, whoever's clearance came before it.
NewRow(r, k) == [key |-> k, by |-> r, ended |-> Never, saw |-> req[r].saw]

StoreRaise(r, k) ==
  /\ rows' = Append(rows, NewRow(r, k))
  /\ UNCHANGED cleared

\* Mutant: the update closes one matching row, not all of them.
StampFirst(k, t) ==
  LET first == CHOOSE i \in Closing(k) : \A j \in Closing(k) : i <= j
  IN  /\ rows' = IF Closing(k) = {} THEN rows
                  ELSE [rows EXCEPT ![first].ended = t]
      /\ UNCHANGED cleared

\* PostgreSQL: every row the clearance closes is stamped.
StampRows(k, t) ==
  /\ rows' = [i \in DOMAIN rows |->
                 IF i \in Closing(k) THEN [rows[i] EXCEPT !.ended = t]
                                     ELSE rows[i]]
  /\ UNCHANGED cleared

\* Mutant: the in-memory clearance is recorded though it closes nothing.
RecordAnyClearance(k, t) ==
  /\ cleared' = [cleared EXCEPT ![k] = t]
  /\ UNCHANGED rows

\* In memory: one clearance is recorded against the key, if it closes a row.
RecordClearance(k, t) ==
  /\ cleared' = IF Closing(k) = {} THEN cleared ELSE [cleared EXCEPT ![k] = t]
  /\ UNCHANGED rows

StoreClear(k, t) ==
  IF backend = "postgres" THEN StampRows(k, t) ELSE RecordClearance(k, t)

AppendAudit(r, action, facts) ==
  ledger' = Append(ledger, [action |-> action, by |-> r, facts |-> facts])
-----------------------------------------------------------------------------
Init ==
  /\ backend \in Backends
  /\ now = 0
  /\ \E seeds \in Seeds :
       rows = [i \in DOMAIN seeds |->
                 [key |-> seeds[i], by |-> Seed, ended |-> Never, saw |-> 0]]
  /\ cleared = [k \in Keys |-> Never]
  /\ ledger = << >>
  /\ req = [r \in Requests |-> Idle]

Tick ==
  /\ now < MaxNow
  /\ now' = now + 1
  /\ UNCHANGED <<backend, rows, cleared, ledger, req>>

\* A request arrives with a body that passes validation; the handler reads
\* the clock.  (A body that does not, is refused before any store write.)
Ask(r, op, body, pc) ==
  /\ req[r].pc = "idle"
  /\ req' = [req EXCEPT ![r] = [Idle EXCEPT !.pc = pc, !.op = op,
                                            !.body = body, !.at = now]]
  /\ UNCHANGED <<backend, now, rows, cleared, ledger>>

AskRaise(r)  == \E k \in Keys : Ask(r, "raise", <<k>>, "check_live")
AskClear(r)  == \E k \in Keys : Ask(r, "clear", <<k>>, "store_clear")
AskImport(r) == \E log \in Logs : Ask(r, "import", log, "check_live")

\* Mutant: a key the log lists twice is not seen the second time.
WouldRaiseTwice(body, live) == {i \in DOMAIN body : body[i] \notin live}

\* The lines of a log to raise: not live, and the first of their key.
WouldRaise(body, live) ==
  {i \in DOMAIN body : /\ body[i] \notin live
                       /\ \A j \in 1..(i - 1) : body[j] # body[i]}

\* The single raise reads the clock a second time for its liveness check.
CheckRaise(r) ==
  /\ req[r].pc = "check_live" /\ req[r].op = "raise"
  /\ req' = [req EXCEPT ![r] =
       IF req[r].body[1] \in LiveKeys(now)
       THEN Over("refused")
       ELSE [req[r] EXCEPT !.pc = "store_raise", !.pick = {1},
                           !.saw = Len(rows)]]
  /\ UNCHANGED <<backend, now, rows, cleared, ledger>>

\* The import reads what is live as of the instant it stamps its rows with.
CheckImport(r) ==
  /\ req[r].pc = "check_live" /\ req[r].op = "import"
  /\ LET pick == WouldRaise(req[r].body, LiveKeys(req[r].at))
     IN  req' = [req EXCEPT ![r] =
           [req[r] EXCEPT !.pc = IF pick = {} THEN "ledger_summary"
                                              ELSE "store_raise",
                          !.pick = pick, !.saw = Len(rows)]]
  /\ UNCHANGED <<backend, now, rows, cleared, ledger>>

\* The next line still to raise, in the log's order.
NextLine(r) == CHOOSE i \in req[r].pick : \A j \in req[r].pick : i <= j

RaiseRow(r) ==
  /\ req[r].pc = "store_raise"
  /\ StoreRaise(r, req[r].body[NextLine(r)])
  /\ req' = [req EXCEPT ![r] =
       [req[r] EXCEPT !.pc = "ledger_raise",
                      !.pick = req[r].pick \ {NextLine(r)},
                      !.mine = {Len(rows) + 1}]]
  /\ UNCHANGED <<backend, now, ledger>>

LedgerRaise(r) ==
  /\ req[r].pc = "ledger_raise"
  /\ AppendAudit(r, "HAZARD_RAISED", req[r].mine)
  /\ req' = [req EXCEPT ![r] =
       IF req[r].pick = {} /\ req[r].op = "raise"
       THEN Over("answered")
       ELSE [req[r] EXCEPT !.mine = {},
                           !.pc = IF req[r].pick = {} THEN "ledger_summary"
                                                      ELSE "store_raise"]]
  /\ UNCHANGED <<backend, now, rows, cleared>>

LedgerSummary(r) ==
  /\ req[r].pc = "ledger_summary"
  /\ AppendAudit(r, "HAZARD_LOG_IMPORTED", {})
  /\ req' = [req EXCEPT ![r] = Over("answered")]
  /\ UNCHANGED <<backend, now, rows, cleared>>

ClearRows(r) ==
  /\ req[r].pc = "store_clear"
  /\ LET k == req[r].body[1]
     IN  /\ StoreClear(k, req[r].at)
         /\ req' = [req EXCEPT ![r] =
              IF Closing(k) = {}
              THEN Over("refused")
              ELSE [req[r] EXCEPT !.pc = "ledger_clear", !.mine = Closing(k)]]
  /\ UNCHANGED <<backend, now, ledger>>

\* Mutant: the clearance answers without its ledger entry.
LedgerClearSilently(r) ==
  /\ req[r].pc = "ledger_clear"
  /\ req' = [req EXCEPT ![r] = Over("answered")]
  /\ UNCHANGED <<backend, now, rows, cleared, ledger>>

LedgerClear(r) ==
  /\ req[r].pc = "ledger_clear"
  /\ AppendAudit(r, "HAZARD_CLEARED", req[r].mine)
  /\ req' = [req EXCEPT ![r] = Over("answered")]
  /\ UNCHANGED <<backend, now, rows, cleared>>

\* A handler over PostgreSQL is dropped at an await when it outlives the
\* request timeout, and returns early when a store call fails.  The in-memory
\* store's calls never suspend and never fail on a hull in scope.
Abandon(r) ==
  /\ backend = "postgres"
  /\ InFlight(r)
  /\ req' = [req EXCEPT ![r] = [Over("abandoned") EXCEPT !.op = req[r].op,
                                                         !.mine = req[r].mine]]
  /\ UNCHANGED <<backend, now, rows, cleared, ledger>>

Work(r) ==
  \/ CheckRaise(r) \/ CheckImport(r) \/ RaiseRow(r) \/ LedgerRaise(r)
  \/ LedgerSummary(r) \/ ClearRows(r) \/ LedgerClear(r)

Next ==
  \/ Tick
  \/ \E r \in Requests :
       \/ AskRaise(r) \/ AskClear(r) \/ AskImport(r)
       \/ Work(r)
       \/ Abandon(r)

Spec == Init /\ [][Next]_vars
-----------------------------------------------------------------------------
RowRecords == [key : Keys, by : Requests \cup {Seed},
               ended : Nat \cup {Never}, saw : Nat]
Actions == {"HAZARD_RAISED", "HAZARD_CLEARED", "HAZARD_LOG_IMPORTED"}
Entries == [action : Actions, by : Requests, facts : SUBSET Nat]
Handlers == [pc : PCs, op : {"none", "raise", "clear", "import"},
             body : Seq(Keys), pick : SUBSET Nat, at : Instants,
             saw : Nat, mine : SUBSET Nat]

(* The register, the ledger and every handler hold values of their kinds;  *)
(* a handler points at rows that exist and stamps no instant to come.      *)
TypeOK ==
  /\ backend \in Backends
  /\ now \in Instants
  /\ rows \in Seq(RowRecords)
  /\ cleared \in [Keys -> Nat \cup {Never}]
  /\ ledger \in Seq(Entries)
  /\ req \in [Requests -> Handlers]
  /\ \A r \in Requests : /\ req[r].mine \subseteq DOMAIN rows
                         /\ req[r].pick \subseteq DOMAIN req[r].body
                         /\ req[r].at <= now

(* Nothing happens to row i off the record for good: the entry is in the   *)
(* ledger, or the handler that owes it is still running, or that handler   *)
(* was abandoned between the store's write and the ledger's.               *)
Recorded(i, action) ==
  \E n \in DOMAIN ledger : ledger[n].action = action /\ i \in ledger[n].facts
Owed(i, pc, op) ==
  \E r \in Requests : /\ i \in req[r].mine
                      /\ \/ req[r].pc = pc
                         \/ req[r].pc = "abandoned" /\ req[r].op \in op

(* raise_hazard "lands in the ledger as HAZARD_RAISED before the response  *)
(* returns": a row raised through the API and not ledgered is owed by a    *)
(* handler that has not answered.                                          *)
RaisesAreLedgered ==
  \A i \in DOMAIN rows :
    rows[i].by # Seed =>
      Recorded(i, "HAZARD_RAISED") \/ Owed(i, "ledger_raise", {"raise", "import"})

(* Over PostgreSQL a row that reads as ended was closed by a clearance     *)
(* that is ledgered with it, or owed by a handler that has not answered:   *)
(* no fact stops being served without a HAZARD_CLEARED entry that names it. *)
EndsAreLedgered ==
  backend = "postgres" =>
    \A i \in DOMAIN rows :
      Ended(i) # Never =>
        Recorded(i, "HAZARD_CLEARED") \/ Owed(i, "ledger_clear", {"clear"})

(* No fact is put on the record twice as raised or twice as cleared: two   *)
(* clearances of one key that race close disjoint sets of rows, and a      *)
(* handler never ledgers what another one owes.                            *)
RecordedOnce ==
  /\ \A m, n \in DOMAIN ledger :
       m # n /\ ledger[m].action = ledger[n].action
         => ledger[m].facts \cap ledger[n].facts = {}
  /\ \A r \in Requests : \A i \in req[r].mine :
       /\ req[r].pc = "ledger_raise" => ~Recorded(i, "HAZARD_RAISED")
       /\ req[r].pc = "ledger_clear" => ~Recorded(i, "HAZARD_CLEARED")

(* The register and the ledger account for each other: no row is raised,   *)
(* and over PostgreSQL none is ended, but by what the ledger names once or  *)
(* a handler between its two store calls still owes.                        *)
RegisterIsLedgered == RaisesAreLedgered /\ EndsAreLedgered /\ RecordedOnce

(* "One fact, once", as far as check-then-raise gives it: two open rows of *)
(* one key come from two different requests, the later of which looked at  *)
(* what is live before the earlier one wrote its row.                      *)
DuplicatesOverlap ==
  \A i, j \in DOMAIN rows :
    (i < j /\ rows[i].key = rows[j].key /\ rows[j].by # Seed
           /\ Ended(i) = Never /\ Ended(j) = Never)
      => rows[j].by # rows[i].by /\ rows[j].saw < i

\* A clearance's entry names row i, or its handler still owes the entry.
Named(i) == Recorded(i, "HAZARD_CLEARED") \/ Owed(i, "ledger_clear", {"clear"})

(* In memory a clearance is matched to a hazard by its key, so a row may   *)
(* be read as ended that no clearance closed.  It takes a clearance that   *)
(* closed earlier rows of the key: no key reads as ended that had nothing  *)
(* to end when it was cleared.  From the first such row on, the key is     *)
(* lost: each later row of it reads as ended too, and none of them is ever *)
(* named by a clearance.                                                   *)
MemoryEndsForGood ==
  backend = "memory" =>
    \A i \in DOMAIN rows :
      Ended(i) # Never /\ ~Named(i) =>
        /\ \E j \in 1 .. (i - 1) : rows[j].key = rows[i].key /\ Named(j)
        /\ \A j \in i .. Len(rows) :
             rows[j].key = rows[i].key => Ended(j) # Never /\ ~Named(j)

(* A step rewrites nothing that was served for a past instant: whether a   *)
(* recorded row is read as live at t is settled once t lies before every   *)
(* instant a handler still in flight may stamp.                            *)
Settled(t) ==
  t < now /\ \A r \in Requests : InFlight(r) => t < req[r].at
PastReadsAreStable ==
  [][\A t \in Instants : Settled(t) =>
       \A i \in DOMAIN rows : i \in LiveAt(t) <=> i \in LiveAt(t)']_vars

(* The register over PostgreSQL implements the list of facts HazardFacts    *)
(* describes; the in-memory one is not compared with it.                   *)
FactList ==
  IF backend = "postgres"
  THEN [i \in DOMAIN rows |-> [key |-> rows[i].key, ended |-> rows[i].ended]]
  ELSE << >>
Facts == INSTANCE HazardFacts WITH facts <- FactList
ImplementsFacts == Facts!Spec
=============================================================================
