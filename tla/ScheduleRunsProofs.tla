------------------------- MODULE ScheduleRunsProofs -------------------------
(***************************************************************************)
(* Proofs about ScheduleRuns, for every number of requests, runs and field *)
(* maps and every MaxDocs, over both stores unless a theorem says          *)
(* otherwise.                                                              *)
(***************************************************************************)
EXTENDS ScheduleRuns, SequenceTheorems, FiniteSetTheorems, TLAPS

MapDocs == Maps \cup {Default}
Handlers ==
  [pc : PCs, op : AllOps \cup {"none"}, run : Ids \cup {NoRun}, map : MapDocs,
   seq : Nat, from : Ids \cup {NoRun}, todo : Nat, flagged : SUBSET Ids, next : PCs]
Runs == [id : Ids, seq : Nat, map : MapDocs, held : BOOLEAN]
Actions == {"SCHEDULE_REPLACED", "SCHEDULE_REVERTED", "MAP_REPLACED", "MAP_REVERTED"}
Entries == [action : Actions, by : Requests, run : Ids \cup {NoRun},
            map : MapDocs, from : Ids \cup {NoRun}]

(* The call a handler is at, or was at when it was dropped.                *)
StandsAt(h) == IF h.pc = "abandoned" THEN h.next ELSE h.pc
Stands(r) == StandsAt(req[r])

(* Which requests make a call, and over which store, when the history has  *)
(* n runs.                                                                 *)
WellFormed(h, r, n) ==
  /\ h.pc = "idle" => h.op = "none"
  /\ StandsAt(h) \in {"read_map", "lock_runs", "write", "push"} => h.op = "import"
  /\ StandsAt(h) \in {"find_run", "read_served", "serve"} => h.op = "serve"
  /\ StandsAt(h) \in {"put_doc", "put_pointer", "ledger_run"} => h.op \in {"import", "serve"}
  /\ StandsAt(h) \in {"drop", "drop_pointer", "ledger_revert"} => h.op = "revert"
  /\ StandsAt(h) \in {"put_map", "ledger_map"} => h.op \in {"import", "map"}
  /\ StandsAt(h) \in {"drop_map", "ledger_map_revert"} => h.op = "map_revert"
  /\ StandsAt(h) \in {"list", "flag"} => h.op = "list"
  /\ StandsAt(h) = "write" => backend = "postgres"
  /\ StandsAt(h) \in {"put_doc", "put_pointer", "push", "drop_pointer", "flag"} => backend = "memory"
  /\ h.pc = "abandoned" => backend = "postgres" /\ h.next \notin EndPcs
  /\ h.op = "import" => h.run = r
  /\ h.op \in {"import", "serve"} => h.run \in Ids
  /\ h.pc = "flag" => h.todo \in 1..n

TypeInv ==
  /\ backend \in {"memory", "postgres"}
  /\ runs \in Seq(Runs)
  /\ sor \in Ids \cup {Generated}
  /\ ptr \in Ids \cup {NoRun}
  /\ lock \in Requests \cup {None}
  /\ fieldMap \in [map : MapDocs, by : Requests \cup {None}]
  /\ ledger \in Seq(Entries)
  /\ req \in [Requests -> Handlers]
  /\ \A r \in Requests : WellFormed(req[r], r, Len(runs))

(* An import between taking the lock and its last write has the lock, and  *)
(* its seq is the next; a run is in the history once its import is past    *)
(* that write.                                                             *)
Writing(r) ==
  \/ req[r].pc \in {"write", "push"}
  \/ req[r].pc \in {"put_doc", "put_pointer"} /\ req[r].op = "import"
Order(r) ==
  /\ Writing(r) => lock = r /\ req[r].seq = Len(runs) + 1
  /\ Find(r) # {} => \/ req[r].pc = "answered"
                     \/ Stands(r) = "ledger_run" /\ req[r].op = "import"
HistoryInv == TypeInv /\ HistoryIsNumbered /\ \A r \in Requests : Order(r)

(* What a handler that has found or written a run may count on, and what   *)
(* the ledger has of a request that has not been answered.                 *)
Named(r) ==
  \/ req[r].pc \in {"read_served", "serve", "ledger_run"}
  \/ req[r].pc \in {"put_doc", "put_pointer"} /\ req[r].op = "serve"
Accounts(r) ==
  /\ Named(r) => Find(req[r].run) # {}
  /\ req[r].pc # "answered" => Entered("SCHEDULE_REPLACED", r) = {}
LedgerInv == HistoryInv /\ RunsAreLedgered /\ \A r \in Requests : Accounts(r)

(* The map a run is about to be recorded with is accounted for.            *)
MapRead(r) == req[r].pc = "lock_runs" \/ Writing(r) => MapIsAccountedFor(req[r].map)
MapInv == HistoryInv /\ MapsAreLedgered /\ \A r \in Requests : MapRead(r)

(* No serve and no revert has written the in-memory store's schedule.      *)
Undisturbed ==
  /\ \A r \in Requests :
       /\ req[r].op = "serve" => req[r].pc \in {"find_run", "read_served", "serve", "put_doc"}
       /\ req[r].op = "revert" => req[r].pc = "drop"
  /\ \A n \in DOMAIN ledger :
       /\ ledger[n].action # "SCHEDULE_REVERTED"
       /\ ledger[n].action = "SCHEDULE_REPLACED" => ledger[n].run = ledger[n].by

(* Then the pointer lags the document by an import's next write, and moves *)
(* to later runs only: a listing that has flagged a run finds no earlier   *)
(* one served.                                                             *)
OneFlag(r) == req[r].flagged = {} \/ \E id \in Ids : req[r].flagged = {id}
Listing(r) ==
  /\ OneFlag(r)
  /\ req[r].pc = "list" => req[r].flagged = {}
  /\ req[r].pc = "flag" /\ req[r].flagged # {} =>
       \A j \in 1..req[r].todo : runs[j].id # ptr
Follows == sor = IF ptr = NoRun THEN Generated ELSE ptr
MemoryFollows ==
  /\ (\A r \in Requests : req[r].pc # "put_pointer") => Follows
  /\ \A r \in Requests : req[r].pc = "put_pointer" => sor = r
  /\ \A r \in Requests : Listing(r)
PointerInv ==
  /\ LedgerInv
  /\ backend = "postgres" => Follows /\ \A r \in Requests : OneFlag(r)
  /\ backend = "memory" /\ Undisturbed => MemoryFollows
-----------------------------------------------------------------------------
USE NamesAssumption, BackendAssumption, OpsAssumption
USE DEF EndPcs, ReadPcs, StorePcs, LedgerPcs, PCs, AllOps, Ids, MapDocs

LEMMA IdleFields ==
  /\ Idle \in Handlers /\ Idle.pc = "idle" /\ Idle.op = "none" /\ Idle.run = NoRun
  /\ Idle.map = Default /\ Idle.flagged = {}
BY DEF Idle, Handlers

(* A handler that is over is at no call and makes no request.              *)
LEMMA OverFields ==
  ASSUME NEW h \in Handlers, NEW pc \in EndPcs
  PROVE  /\ Over(h, pc) \in Handlers /\ Over(h, pc).pc = pc
         /\ Over(h, pc).op = "none" /\ Over(h, pc).flagged = h.flagged
<1>1. h.flagged \in SUBSET Ids /\ 0 \in Nat /\ pc \in PCs
  BY DEF Handlers
<1>2. Over(h, pc) \in Handlers
  BY <1>1 DEF Over, Idle, Handlers
<1> QED
  BY <1>2 DEF Over, Idle

LEMMA DroppedFields ==
  ASSUME NEW h \in Handlers
  PROVE  /\ Dropped(h) \in Handlers /\ Dropped(h).pc = "abandoned"
         /\ Dropped(h).next = h.pc /\ Dropped(h).op = h.op /\ Dropped(h).run = h.run
         /\ Dropped(h).map = h.map /\ Dropped(h).flagged = h.flagged
<1>1. /\ h.pc \in PCs /\ h.op \in AllOps \cup {"none"} /\ h.run \in Ids \cup {NoRun}
      /\ h.map \in MapDocs /\ h.flagged \in SUBSET Ids /\ 0 \in Nat
  BY DEF Handlers
<1>2. Dropped(h) \in Handlers
  <2>1. ASSUME NEW y \in Handlers
        PROVE  [y EXCEPT !.next = h.pc, !.run = h.run, !.map = h.map, !.op = h.op] \in Handlers
    <3> DEFINE a == [y EXCEPT !.next = h.pc]
               b == [a EXCEPT !.run = h.run]
               c == [b EXCEPT !.map = h.map]
    <3>1. a \in Handlers
      BY <1>1 DEF Handlers
    <3> HIDE DEF a
    <3>2. b \in Handlers
      BY <1>1, <3>1 DEF Handlers
    <3> HIDE DEF b
    <3>3. c \in Handlers
      BY <1>1, <3>2 DEF Handlers
    <3> HIDE DEF c
    <3>4. [c EXCEPT !.op = h.op] \in Handlers
      BY <1>1, <3>3 DEF Handlers
    <3> QED
      BY <3>4 DEF a, b, c
  <2>2. Over(h, "abandoned") \in Handlers
    BY OverFields
  <2> QED
    BY <2>1, <2>2 DEF Dropped
<1> QED
  BY <1>2 DEF Dropped, Over, Idle

LEMMA InitTypeInv == Init => TypeInv
<1> SUFFICES ASSUME Init PROVE TypeInv
  OBVIOUS
<1>1. << >> \in Seq(Runs) /\ << >> \in Seq(Entries)
  BY EmptySeq
<1>2. BootRun \in Runs
  BY DEF BootRun, Runs
<1>3. runs \in Seq(Runs)
  <2>1. <<BootRun>> \in Seq(Runs)
    BY <1>2
  <2> QED
    BY <1>1, <2>1 DEF Init
<1>4. \A r \in Requests : req[r] = Idle /\ WellFormed(req[r], r, Len(runs))
  BY IdleFields DEF Init, WellFormed, StandsAt
<1> QED
  BY <1>1, <1>3, <1>4, IdleFields DEF Init, TypeInv

(* A longer history leaves a handler well formed.                          *)
LEMMA StaysWellFormed ==
  ASSUME NEW h, NEW r, NEW m \in Nat, NEW n \in Nat, m <= n,
         WellFormed(h, r, m), UNCHANGED backend
  PROVE  WellFormed(h, r, n)'
BY DEF WellFormed

(* A step of one handler that leaves it well formed keeps TypeInv.         *)
LEMMA HandlerStep ==
  ASSUME TypeInv, NEW r \in Requests, NEW x \in Handlers,
         req' = [req EXCEPT ![r] = x], UNCHANGED backend,
         runs' \in Seq(Runs), Len(runs) <= Len(runs'),
         sor' \in Ids \cup {Generated}, ptr' \in Ids \cup {NoRun},
         lock' \in Requests \cup {None},
         fieldMap' \in [map : MapDocs, by : Requests \cup {None}],
         ledger' \in Seq(Entries),
         WellFormed(x, r, Len(runs'))
  PROVE  TypeInv'
<1>1. Len(runs) \in Nat /\ Len(runs') \in Nat
  BY DEF TypeInv
<1>2. req' \in [Requests -> Handlers] /\ \A q \in Requests : req'[q] = IF q = r THEN x ELSE req[q]
  BY DEF TypeInv
<1>3. \A q \in Requests : WellFormed(req[q], q, Len(runs'))
  BY <1>1, StaysWellFormed DEF TypeInv, WellFormed
<1>4. \A q \in Requests : WellFormed(req[q], q, Len(runs))
  BY DEF TypeInv
<1>5. ASSUME NEW q \in Requests PROVE WellFormed(req[q], q, Len(runs))'
  <2>1. CASE q = r
    BY <1>2, <2>1 DEF WellFormed
  <2>2. CASE q # r
    <3>1. req'[q] = req[q]
      BY <1>2, <2>2
    <3> QED
      BY <3>1, <1>3 DEF WellFormed
  <2> QED
    BY <2>1, <2>2
<1> QED
  BY <1>2, <1>5 DEF TypeInv

LEMMA StoreStays ==
  ASSUME TypeInv, UNCHANGED store
  PROVE  /\ runs' \in Seq(Runs) /\ Len(runs) <= Len(runs') /\ UNCHANGED backend
         /\ sor' \in Ids \cup {Generated} /\ ptr' \in Ids \cup {NoRun}
         /\ lock' \in Requests \cup {None}
         /\ fieldMap' \in [map : MapDocs, by : Requests \cup {None}]
BY DEF TypeInv, store

LEMMA AskKeepsTypes ==
  ASSUME TypeInv, NEW r \in Requests, NEW op, NEW pc, NEW run \in Ids \cup {NoRun},
         NEW map \in MapDocs, Ask(r, op, pc, run, map),
         \/ op = "import" /\ pc = "read_map"
         \/ op = "serve" /\ pc = "find_run"
         \/ op = "revert" /\ pc = "drop"
         \/ op = "list" /\ pc = "list"
         \/ op = "map" /\ pc = "put_map"
         \/ op = "map_revert" /\ pc = "drop_map",
         op = "import" => run = r, op = "serve" => run \in Ids
  PROVE  TypeInv'
<1> DEFINE x == [Idle EXCEPT !.pc = pc, !.op = op, !.run = run, !.map = map]
<1>1. x \in Handlers /\ x.pc = pc /\ x.op = op /\ x.run = run
  <2>1. {} \in SUBSET Ids /\ 0 \in Nat
    OBVIOUS
  <2>2. x \in Handlers
    BY <2>1 DEF Idle, Handlers
  <2> QED
    BY <2>2 DEF Idle
<1>2. req' = [req EXCEPT ![r] = x] /\ UNCHANGED <<store, ledger>>
  BY DEF Ask
<1> HIDE DEF x
<1>3. WellFormed(x, r, Len(runs'))
  BY <1>1 DEF WellFormed, StandsAt
<1>4. ledger' \in Seq(Entries)
  BY <1>2 DEF TypeInv
<1> QED
  BY <1>1, <1>2, <1>3, <1>4, StoreStays, HandlerStep

(* A handler that only goes on to another call keeps what it holds.        *)
LEMMA GoesOn ==
  ASSUME TypeInv, NEW r \in Requests, NEW pc \in PCs, Go(r, pc), UNCHANGED backend,
         runs' \in Seq(Runs), Len(runs) <= Len(runs'),
         sor' \in Ids \cup {Generated}, ptr' \in Ids \cup {NoRun},
         lock' \in Requests \cup {None},
         fieldMap' \in [map : MapDocs, by : Requests \cup {None}],
         ledger' \in Seq(Entries),
         \A x \in Handlers :
           x.pc = pc /\ x.op = req[r].op /\ x.run = req[r].run => WellFormed(x, r, Len(runs'))
  PROVE  TypeInv'
<1> DEFINE x == [req[r] EXCEPT !.pc = pc]
<1>0. req[r] \in Handlers
  BY DEF TypeInv
<1>1. x \in Handlers /\ x.pc = pc /\ x.op = req[r].op /\ x.run = req[r].run
  BY <1>0 DEF Handlers
<1>2. req' = [req EXCEPT ![r] = x]
  BY DEF Go
<1> HIDE DEF x
<1> QED
  BY <1>1, <1>2, HandlerStep

(* A handler that is over leaves everything else typed.                    *)
LEMMA Ends ==
  ASSUME TypeInv, NEW r \in Requests, NEW pc \in {"answered", "refused"},
         req' = [req EXCEPT ![r] = Over(req[r], pc)], UNCHANGED store,
         ledger' \in Seq(Entries)
  PROVE  TypeInv'
<1> DEFINE x == Over(req[r], pc)
<1>1. x \in Handlers /\ x.pc = pc /\ x.op = "none"
  BY OverFields DEF TypeInv
<1>2. req' = [req EXCEPT ![r] = x]
  OBVIOUS
<1> HIDE DEF x
<1>3. WellFormed(x, r, Len(runs'))
  BY <1>1 DEF WellFormed, StandsAt
<1> QED
  BY <1>1, <1>2, <1>3, StoreStays, HandlerStep

LEMMA AppendedEntry ==
  ASSUME TypeInv, NEW r \in Requests, NEW action \in Actions, AppendAudit(r, action)
  PROVE  /\ ledger' \in Seq(Entries)
         /\ \E e \in Entries : /\ ledger' = Append(ledger, e)
                               /\ e.action = action /\ e.by = r
                               /\ e.run = req[r].run /\ e.map = req[r].map
<1> DEFINE e == [action |-> action, by |-> r, run |-> req[r].run,
                 map |-> req[r].map, from |-> req[r].from]
<1>1. e \in Entries
  BY DEF TypeInv, Handlers, Entries
<1>2. ledger' = Append(ledger, e)
  BY DEF AppendAudit
<1> QED
  BY <1>1, <1>2 DEF TypeInv

LEMMA NewRunIsTyped ==
  ASSUME TypeInv, NEW r \in Requests
  PROVE  NewRun(r) \in Runs /\ NewRun(r).id = r /\ NewRun(r).map = req[r].map
         /\ NewRun(r).seq = req[r].seq /\ NewRun(r).held = TRUE
BY DEF NewRun, Runs, TypeInv, Handlers

(* What the runs are once the in-memory store has kept the newest.         *)
LEMMA EvictedRuns ==
  ASSUME NEW list \in Seq(Runs)
  PROVE  /\ Evicted(list) \in Seq(Runs) /\ Len(Evicted(list)) = Len(list)
         /\ \A i \in 1..Len(list) :
              /\ Evicted(list)[i].id = list[i].id /\ Evicted(list)[i].seq = list[i].seq
              /\ Evicted(list)[i].map = list[i].map
              /\ Evicted(list)[i].held <=> (list[i].held /\ Len(list) < i + MaxDocs)
<1>1. DOMAIN list = 1..Len(list) /\ Len(list) \in Nat
  OBVIOUS
<1>2. ASSUME NEW i \in 1..Len(list)
      PROVE  /\ Evicted(list)[i] = [list[i] EXCEPT !.held = @ /\ Len(list) < i + MaxDocs]
             /\ list[i] \in Runs
  BY <1>1, <1>2 DEF Evicted
<1>3. ASSUME NEW i \in 1..Len(list)
      PROVE  /\ Evicted(list)[i] \in Runs
             /\ Evicted(list)[i].id = list[i].id /\ Evicted(list)[i].seq = list[i].seq
             /\ Evicted(list)[i].map = list[i].map
             /\ Evicted(list)[i].held <=> (list[i].held /\ Len(list) < i + MaxDocs)
  <2> DEFINE held == list[i].held /\ Len(list) < i + MaxDocs
  <2>1. held \in BOOLEAN
    OBVIOUS
  <2>2. Evicted(list)[i] = [list[i] EXCEPT !.held = held] /\ list[i] \in Runs
    BY <1>2, <1>3
  <2> HIDE DEF held
  <2>3. /\ Evicted(list)[i] \in Runs /\ Evicted(list)[i].held = held
        /\ Evicted(list)[i].id = list[i].id /\ Evicted(list)[i].seq = list[i].seq
        /\ Evicted(list)[i].map = list[i].map
    BY <2>1, <2>2 DEF Runs
  <2> QED
    BY <2>3 DEF held
<1>4. Evicted(list) \in [1..Len(list) -> Runs]
  BY <1>1, <1>3 DEF Evicted
<1> QED
  BY <1>1, <1>3, <1>4

(* The runs after a step that records one.                                 *)
LEMMA Recording ==
  ASSUME TypeInv, NEW r \in Requests, WriteRun(r) \/ Push(r)
  PROVE  /\ runs' \in Seq(Runs) /\ Len(runs') = Len(runs) + 1
         /\ runs'[Len(runs) + 1].id = r /\ runs'[Len(runs) + 1].seq = req[r].seq
         /\ runs'[Len(runs) + 1].map = req[r].map
         /\ \A i \in 1..Len(runs) : /\ runs'[i].id = runs[i].id /\ runs'[i].seq = runs[i].seq
                                    /\ runs'[i].map = runs[i].map
         /\ WriteRun(r) => /\ runs'[Len(runs) + 1].held
                           /\ \A i \in 1..Len(runs) : runs'[i].held = runs[i].held
         /\ Push(r) => /\ runs'[Len(runs) + 1].held <=> (Len(runs) + 1 < Len(runs) + 1 + MaxDocs)
                       /\ \A i \in 1..Len(runs) :
                            runs'[i].held <=> (runs[i].held /\ Len(runs) + 1 < i + MaxDocs)
<1> DEFINE list == Append(runs, NewRun(r))
<1>0. runs \in Seq(Runs) /\ NewRun(r) \in Runs
  BY NewRunIsTyped DEF TypeInv
<1>1. /\ list \in Seq(Runs) /\ Len(list) = Len(runs) + 1 /\ list[Len(runs) + 1] = NewRun(r)
      /\ Len(runs) \in Nat /\ \A i \in 1..Len(runs) : list[i] = runs[i]
  BY <1>0
<1> HIDE DEF list
<1>2. CASE WriteRun(r)
  <2>1. runs' = list /\ ~Push(r)
    BY <1>2 DEF WriteRun, Push, list
  <2> QED
    BY <1>1, <2>1, NewRunIsTyped
<1>3. CASE Push(r)
  <2>1. runs' = Evicted(list) /\ ~WriteRun(r)
    BY <1>3 DEF WriteRun, Push, list
  <2>2. /\ runs' \in Seq(Runs) /\ Len(runs') = Len(list)
        /\ \A i \in 1..Len(list) :
             /\ runs'[i].id = list[i].id /\ runs'[i].seq = list[i].seq
             /\ runs'[i].map = list[i].map
             /\ runs'[i].held <=> (list[i].held /\ Len(list) < i + MaxDocs)
    BY <1>1, <2>1, EvictedRuns
  <2>3. Len(runs) + 1 \in 1..Len(list) /\ 1..Len(runs) \subseteq 1..Len(list)
    BY <1>1
  <2> DEFINE n == Len(runs) + 1
  <2>4. /\ runs'[n].id = r /\ runs'[n].seq = req[r].seq /\ runs'[n].map = req[r].map
        /\ runs'[n].held <=> (Len(runs) + 1 < n + MaxDocs)
    <3>1. list[n] = NewRun(r) /\ NewRun(r).held = TRUE
      BY <1>1, NewRunIsTyped
    <3>2. runs'[n].held <=> (list[n].held /\ Len(list) < n + MaxDocs)
      BY <2>2, <2>3
    <3>3. runs'[n].held <=> (Len(list) < n + MaxDocs)
      BY <3>1, <3>2, Zenon
    <3>4. runs'[n].id = r /\ runs'[n].seq = req[r].seq /\ runs'[n].map = req[r].map
      <4>1. n \in 1..Len(list)
        BY <2>3
      <4>2. runs'[n].id = list[n].id /\ runs'[n].seq = list[n].seq /\ runs'[n].map = list[n].map
        BY <2>2, <4>1, Zenon
      <4>3. /\ NewRun(r).id = r /\ NewRun(r).map = req[r].map
            /\ NewRun(r).seq = req[r].seq
        BY NewRunIsTyped, Zenon
      <4> QED
        BY <3>1, <4>2, <4>3, Zenon
    <3> QED
      BY <1>1, <3>3, <3>4
  <2>5. \A i \in 1..Len(runs) :
          /\ runs'[i].id = runs[i].id /\ runs'[i].seq = runs[i].seq
          /\ runs'[i].map = runs[i].map
          /\ runs'[i].held <=> (runs[i].held /\ Len(runs) + 1 < i + MaxDocs)
    BY <1>1, <2>2, <2>3
  <2> QED
    BY <1>1, <2>1, <2>2, <2>4, <2>5
<1> QED
  BY <1>2, <1>3

LEMMA WorkKeepsTypes ==
  ASSUME TypeInv, NEW r \in Requests, Work(r) PROVE TypeInv'
<1> USE DEF WellFormed, StandsAt
<1>0. /\ req[r] \in Handlers /\ WellFormed(req[r], r, Len(runs)) /\ Len(runs) \in Nat
      /\ runs \in Seq(Runs)
  BY DEF TypeInv
<1>1. CASE PutDoc(r)
  <2>1. /\ Go(r, "put_pointer") /\ UNCHANGED backend /\ "put_pointer" \in PCs
        /\ sor' \in Ids \cup {Generated} /\ ptr' \in Ids \cup {NoRun}
        /\ lock' \in Requests \cup {None}
        /\ fieldMap' \in [map : MapDocs, by : Requests \cup {None}]
        /\ ledger' \in Seq(Entries)
    BY <1>1, <1>0 DEF PutDoc, Go, Unlock, store, TypeInv, Handlers
  <2>2. runs' \in Seq(Runs) /\ Len(runs) <= Len(runs')
    BY <1>1, <1>0 DEF PutDoc
  <2>3. \A x \in Handlers : x.pc = "put_pointer" /\ x.op = req[r].op /\ x.run = req[r].run
                             => WellFormed(x, r, Len(runs'))
    BY <1>1, <1>0 DEF PutDoc
  <2> HIDE DEF WellFormed
  <2> QED
    BY <2>1, <2>2, <2>3, GoesOn
<1>2. CASE ServeRun(r)
  <2>1. /\ Go(r, "ledger_run") /\ UNCHANGED backend /\ "ledger_run" \in PCs
        /\ sor' \in Ids \cup {Generated} /\ ptr' \in Ids \cup {NoRun}
        /\ lock' \in Requests \cup {None}
        /\ fieldMap' \in [map : MapDocs, by : Requests \cup {None}]
        /\ ledger' \in Seq(Entries)
    BY <1>2, <1>0 DEF ServeRun, Go, Unlock, store, TypeInv, Handlers
  <2>2. runs' \in Seq(Runs) /\ Len(runs) <= Len(runs')
    BY <1>2, <1>0 DEF ServeRun
  <2>3. \A x \in Handlers : x.pc = "ledger_run" /\ x.op = req[r].op /\ x.run = req[r].run
                             => WellFormed(x, r, Len(runs'))
    BY <1>2, <1>0 DEF ServeRun
  <2> HIDE DEF WellFormed
  <2> QED
    BY <2>1, <2>2, <2>3, GoesOn
<1>3. CASE DeleteDoc(r)
  <2>1. /\ Go(r, "ledger_revert") /\ UNCHANGED backend /\ "ledger_revert" \in PCs
        /\ sor' \in Ids \cup {Generated} /\ ptr' \in Ids \cup {NoRun}
        /\ lock' \in Requests \cup {None}
        /\ fieldMap' \in [map : MapDocs, by : Requests \cup {None}]
        /\ ledger' \in Seq(Entries)
    BY <1>3, <1>0 DEF DeleteDoc, Go, Unlock, store, TypeInv, Handlers
  <2>2. runs' \in Seq(Runs) /\ Len(runs) <= Len(runs')
    BY <1>3, <1>0 DEF DeleteDoc
  <2>3. \A x \in Handlers : x.pc = "ledger_revert" /\ x.op = req[r].op /\ x.run = req[r].run
                             => WellFormed(x, r, Len(runs'))
    BY <1>3, <1>0 DEF DeleteDoc
  <2> HIDE DEF WellFormed
  <2> QED
    BY <2>1, <2>2, <2>3, GoesOn
<1>4. CASE DropDoc(r)
  <2>1. /\ Go(r, "drop_pointer") /\ UNCHANGED backend /\ "drop_pointer" \in PCs
        /\ sor' \in Ids \cup {Generated} /\ ptr' \in Ids \cup {NoRun}
        /\ lock' \in Requests \cup {None}
        /\ fieldMap' \in [map : MapDocs, by : Requests \cup {None}]
        /\ ledger' \in Seq(Entries)
    BY <1>4, <1>0 DEF DropDoc, Go, Unlock, store, TypeInv, Handlers
  <2>2. runs' \in Seq(Runs) /\ Len(runs) <= Len(runs')
    BY <1>4, <1>0 DEF DropDoc
  <2>3. \A x \in Handlers : x.pc = "drop_pointer" /\ x.op = req[r].op /\ x.run = req[r].run
                             => WellFormed(x, r, Len(runs'))
    BY <1>4, <1>0 DEF DropDoc
  <2> HIDE DEF WellFormed
  <2> QED
    BY <2>1, <2>2, <2>3, GoesOn
<1>5. CASE DropPointer(r)
  <2>1. /\ Go(r, "ledger_revert") /\ UNCHANGED backend /\ "ledger_revert" \in PCs
        /\ sor' \in Ids \cup {Generated} /\ ptr' \in Ids \cup {NoRun}
        /\ lock' \in Requests \cup {None}
        /\ fieldMap' \in [map : MapDocs, by : Requests \cup {None}]
        /\ ledger' \in Seq(Entries)
    BY <1>5, <1>0 DEF DropPointer, Go, Unlock, store, TypeInv, Handlers
  <2>2. runs' \in Seq(Runs) /\ Len(runs) <= Len(runs')
    BY <1>5, <1>0 DEF DropPointer
  <2>3. \A x \in Handlers : x.pc = "ledger_revert" /\ x.op = req[r].op /\ x.run = req[r].run
                             => WellFormed(x, r, Len(runs'))
    BY <1>5, <1>0 DEF DropPointer
  <2> HIDE DEF WellFormed
  <2> QED
    BY <2>1, <2>2, <2>3, GoesOn
<1>6. CASE PutMap(r)
  <2>1. /\ Go(r, "ledger_map") /\ UNCHANGED backend /\ "ledger_map" \in PCs
        /\ sor' \in Ids \cup {Generated} /\ ptr' \in Ids \cup {NoRun}
        /\ lock' \in Requests \cup {None}
        /\ fieldMap' \in [map : MapDocs, by : Requests \cup {None}]
        /\ ledger' \in Seq(Entries)
    BY <1>6, <1>0 DEF PutMap, Go, Unlock, store, TypeInv, Handlers
  <2>2. runs' \in Seq(Runs) /\ Len(runs) <= Len(runs')
    BY <1>6, <1>0 DEF PutMap
  <2>3. \A x \in Handlers : x.pc = "ledger_map" /\ x.op = req[r].op /\ x.run = req[r].run
                             => WellFormed(x, r, Len(runs'))
    BY <1>6, <1>0 DEF PutMap
  <2> HIDE DEF WellFormed
  <2> QED
    BY <2>1, <2>2, <2>3, GoesOn
<1>7. CASE DropMap(r)
  <2>1. /\ Go(r, "ledger_map_revert") /\ UNCHANGED backend /\ "ledger_map_revert" \in PCs
        /\ sor' \in Ids \cup {Generated} /\ ptr' \in Ids \cup {NoRun}
        /\ lock' \in Requests \cup {None}
        /\ fieldMap' \in [map : MapDocs, by : Requests \cup {None}]
        /\ ledger' \in Seq(Entries)
    BY <1>7, <1>0 DEF DropMap, Go, Unlock, store, TypeInv, Handlers
  <2>2. runs' \in Seq(Runs) /\ Len(runs) <= Len(runs')
    BY <1>7, <1>0 DEF DropMap
  <2>3. \A x \in Handlers : x.pc = "ledger_map_revert" /\ x.op = req[r].op /\ x.run = req[r].run
                             => WellFormed(x, r, Len(runs'))
    BY <1>7, <1>0 DEF DropMap
  <2> HIDE DEF WellFormed
  <2> QED
    BY <2>1, <2>2, <2>3, GoesOn
<1>8. CASE PutPointer(r)
  <2> DEFINE pc == IF req[r].op = "serve" THEN "ledger_run" ELSE "push"
  <2>1. /\ Go(r, pc) /\ UNCHANGED backend /\ pc \in PCs
        /\ sor' \in Ids \cup {Generated} /\ ptr' \in Ids \cup {NoRun}
        /\ lock' \in Requests \cup {None}
        /\ fieldMap' \in [map : MapDocs, by : Requests \cup {None}]
        /\ ledger' \in Seq(Entries)
    BY <1>8, <1>0 DEF PutPointer, Go, TypeInv
  <2>2. runs' \in Seq(Runs) /\ Len(runs) <= Len(runs')
    BY <1>8, <1>0 DEF PutPointer
  <2>3. \A x \in Handlers : x.pc = pc /\ x.op = req[r].op /\ x.run = req[r].run
                             => WellFormed(x, r, Len(runs'))
    BY <1>8, <1>0 DEF PutPointer
  <2> HIDE DEF WellFormed, pc
  <2> QED
    BY <2>1, <2>2, <2>3, GoesOn
<1>9. CASE WriteRun(r)
  <2>1. /\ Go(r, "ledger_run") /\ UNCHANGED backend
        /\ sor' \in Ids \cup {Generated} /\ ptr' \in Ids \cup {NoRun}
        /\ lock' \in Requests \cup {None}
        /\ fieldMap' \in [map : MapDocs, by : Requests \cup {None}]
        /\ ledger' \in Seq(Entries)
    BY <1>9, <1>0 DEF WriteRun, Go, Unlock, TypeInv
  <2>2. runs' \in Seq(Runs) /\ Len(runs) <= Len(runs')
    BY <1>9, <1>0, Recording
  <2>3. \A x \in Handlers : x.pc = "ledger_run" /\ x.op = req[r].op /\ x.run = req[r].run
                             => WellFormed(x, r, Len(runs'))
    BY <1>9, <1>0 DEF WriteRun
  <2> HIDE DEF WellFormed
  <2> QED
    BY <2>1, <2>2, <2>3, GoesOn
<1>10. CASE Push(r)
  <2>1. /\ Go(r, "ledger_run") /\ UNCHANGED backend
        /\ sor' \in Ids \cup {Generated} /\ ptr' \in Ids \cup {NoRun}
        /\ lock' \in Requests \cup {None}
        /\ fieldMap' \in [map : MapDocs, by : Requests \cup {None}]
        /\ ledger' \in Seq(Entries)
    BY <1>10, <1>0 DEF Push, Go, Unlock, TypeInv
  <2>2. runs' \in Seq(Runs) /\ Len(runs) <= Len(runs')
    BY <1>10, <1>0, Recording
  <2>3. \A x \in Handlers : x.pc = "ledger_run" /\ x.op = req[r].op /\ x.run = req[r].run
                             => WellFormed(x, r, Len(runs'))
    BY <1>10, <1>0 DEF Push
  <2> HIDE DEF WellFormed
  <2> QED
    BY <2>1, <2>2, <2>3, GoesOn
<1>11. CASE LedgerMap(r)
  <2>1. UNCHANGED store /\ ledger' \in Seq(Entries)
    BY <1>11, AppendedEntry DEF LedgerMap, Actions
  <2>2. CASE req[r].op = "import"
    <3>1. Go(r, "lock_runs")
      BY <1>11, <2>2 DEF LedgerMap
    <3>2. \A x \in Handlers : x.pc = "lock_runs" /\ x.op = req[r].op /\ x.run = req[r].run
                               => WellFormed(x, r, Len(runs'))
      BY <1>0, <2>1, <2>2 DEF store
    <3> HIDE DEF WellFormed
    <3> QED
      BY <2>1, <3>1, <3>2, StoreStays, GoesOn
  <2>3. CASE req[r].op # "import"
    <3> HIDE DEF WellFormed
    <3> QED
      BY <1>11, <2>1, <2>3, Ends DEF LedgerMap
  <2> QED
    BY <2>2, <2>3
<1>12. CASE LedgerRun(r) \/ LedgerRevert(r) \/ LedgerMapRevert(r)
  <2>1. PICK action \in Actions :
          /\ AppendAudit(r, action) /\ UNCHANGED store
          /\ req' = [req EXCEPT ![r] = Over(req[r], "answered")]
    BY <1>12 DEF LedgerRun, LedgerRevert, LedgerMapRevert, LedgerLast, Actions
  <2> HIDE DEF WellFormed
  <2> QED
    BY <2>1, AppendedEntry, Ends
<1>13. CASE FindRun(r) \/ LookUpRun(r)
  <2>1. UNCHANGED store /\ ledger' \in Seq(Entries)
    BY <1>13 DEF FindRun, LookUpRun, TypeInv
  <2>2. CASE req' = [req EXCEPT ![r] = Over(req[r], "refused")]
    <3> HIDE DEF WellFormed
    <3> QED
      BY <2>1, <2>2, Ends
  <2>3. CASE req' # [req EXCEPT ![r] = Over(req[r], "refused")]
    <3>1. PICK pc \in {"read_served", "put_doc"} :
            /\ Go(r, pc) /\ req[r].op = "serve"
            /\ pc = "put_doc" => backend = "memory"
      BY <1>0, <1>13, <2>3 DEF FindRun, LookUpRun, Go
    <3>2. \A x \in Handlers : x.pc = pc /\ x.op = req[r].op /\ x.run = req[r].run
                               => WellFormed(x, r, Len(runs'))
      BY <1>0, <2>1, <3>1 DEF store
    <3> HIDE DEF WellFormed
    <3> QED
      BY <2>1, <3>1, <3>2, StoreStays, GoesOn
  <2> QED
    BY <2>2, <2>3
<1>14. CASE ReadServed(r)
  <2> DEFINE pc == "serve"
             a == [req[r] EXCEPT !.pc = pc]
             x == [a EXCEPT !.from = ptr]
  <2>1. /\ req' = [req EXCEPT ![r] = x]
        /\ ledger' \in Seq(Entries) /\ UNCHANGED store
    BY <1>14 DEF ReadServed, TypeInv
  <2>2. ptr \in Ids \cup {NoRun} /\ req[r].pc = "read_served" /\ runs' = runs
    BY <1>14, <2>1 DEF ReadServed, TypeInv, store
  <2>b. pc \in PCs /\ pc = "serve"
    OBVIOUS
  <2> HIDE DEF pc
  <2>a. a \in Handlers /\ a.pc = pc /\ a.op = req[r].op /\ a.run = req[r].run
    BY <1>0, <2>b DEF Handlers
  <2> HIDE DEF a
  <2>3. x \in Handlers /\ x.pc = "serve" /\ x.op = req[r].op /\ x.run = req[r].run
    BY <2>a, <2>b, <2>2 DEF Handlers
  <2> HIDE DEF x
  <2>4. WellFormed(x, r, Len(runs'))
    BY <1>0, <2>2, <2>3 DEF store
  <2> HIDE DEF WellFormed
  <2> QED
    BY <2>1, <2>3, <2>4, StoreStays, HandlerStep
<1>15. CASE LockRuns(r)
  <2> DEFINE pc == IF backend = "postgres" THEN "write" ELSE "put_doc"
             a == [req[r] EXCEPT !.seq = Len(runs) + 1]
             x == [a EXCEPT !.pc = pc]
  <2>1. /\ req' = [req EXCEPT ![r] = x]
        /\ ledger' \in Seq(Entries) /\ UNCHANGED <<backend, runs, sor, ptr, fieldMap>>
    BY <1>15 DEF LockRuns, TypeInv
  <2>2. /\ Len(runs) + 1 \in Nat /\ req[r].pc = "lock_runs" /\ backend \in {"memory", "postgres"}
        /\ pc \in PCs
    BY <1>0, <1>15 DEF LockRuns, TypeInv
  <2>a. a \in Handlers /\ a.op = req[r].op /\ a.run = req[r].run
    BY <1>0, <2>2 DEF Handlers
  <2> HIDE DEF a
  <2>b. pc \in PCs /\ pc = IF backend = "postgres" THEN "write" ELSE "put_doc"
    BY <2>2
  <2> HIDE DEF pc
  <2>3. x \in Handlers /\ x.op = req[r].op /\ x.run = req[r].run /\ x.pc = pc
    BY <2>a, <2>b DEF Handlers
  <2> HIDE DEF x
  <2>4. WellFormed(x, r, Len(runs'))
    BY <1>0, <2>1, <2>2, <2>b, <2>3 DEF store
  <2> HIDE DEF WellFormed
  <2>5. runs' \in Seq(Runs) /\ Len(runs) <= Len(runs') /\ lock' \in Requests \cup {None}
    BY <1>0, <1>15, <2>1 DEF LockRuns
  <2>6. /\ sor' \in Ids \cup {Generated} /\ ptr' \in Ids \cup {NoRun}
        /\ fieldMap' \in [map : MapDocs, by : Requests \cup {None}]
    BY <2>1 DEF TypeInv
  <2> QED
    BY <2>1, <2>3, <2>4, <2>5, <2>6, HandlerStep
<1>16. CASE ListFlagged(r)
  <2> DEFINE x == [req[r] EXCEPT !.pc = "answered", !.flagged = {runs[i].id : i \in Find(ptr)}]
  <2>1. /\ req' = [req EXCEPT ![r] = x]
        /\ ledger' \in Seq(Entries) /\ UNCHANGED store
    BY <1>16 DEF ListFlagged, TypeInv
  <2>2. {runs[i].id : i \in Find(ptr)} \in SUBSET Ids /\ req[r].pc = "list" /\ runs' = runs
    <3>1. \A i \in Find(ptr) : runs[i] \in Runs
      BY <1>0 DEF Find
    <3>2. \A i \in Find(ptr) : runs[i].id \in Ids
      BY <3>1 DEF Runs
    <3> QED
      BY <1>16, <2>1, <3>2 DEF ListFlagged, store
  <2>3. x \in Handlers /\ x.pc = "answered" /\ x.op = req[r].op /\ x.run = req[r].run
    BY <1>0, <2>2 DEF Handlers
  <2> HIDE DEF x
  <2>4. WellFormed(x, r, Len(runs'))
    BY <1>0, <2>2, <2>3 DEF store
  <2> HIDE DEF WellFormed
  <2> QED
    BY <2>1, <2>3, <2>4, StoreStays, HandlerStep
<1>17. CASE ListRuns(r)
  <2> DEFINE pc == IF runs = << >> THEN "answered" ELSE "flag"
             a == [req[r] EXCEPT !.pc = pc]
             x == [a EXCEPT !.todo = Len(runs)]
  <2>1. /\ req' = [req EXCEPT ![r] = x]
        /\ ledger' \in Seq(Entries) /\ UNCHANGED store
    BY <1>17 DEF ListRuns, TypeInv
  <2>2. /\ Len(runs) \in Nat /\ req[r].pc = "list" /\ backend = "memory" /\ runs' = runs
        /\ pc \in {"answered", "flag"} /\ (pc = "flag" => Len(runs) > 0)
    BY <1>0, <1>17, <2>1 DEF ListRuns, store
  <2> HIDE DEF pc
  <2>a. a \in Handlers /\ a.op = req[r].op /\ a.run = req[r].run /\ a.pc = pc
    BY <1>0, <2>2 DEF Handlers
  <2> HIDE DEF a
  <2>3. /\ x \in Handlers /\ x.op = req[r].op /\ x.run = req[r].run /\ x.todo = Len(runs)
        /\ x.pc = pc
    BY <2>a, <2>2 DEF Handlers
  <2> HIDE DEF x
  <2>4. WellFormed(x, r, Len(runs'))
    BY <1>0, <2>2, <2>3 DEF store
  <2> HIDE DEF WellFormed
  <2> QED
    BY <2>1, <2>3, <2>4, StoreStays, HandlerStep
<1>18. CASE FlagRun(r)
  <2> DEFINE flagged == IF runs[req[r].todo].id = ptr THEN req[r].flagged \cup {runs[req[r].todo].id}
                                                      ELSE req[r].flagged
             pc == IF req[r].todo = 1 THEN "answered" ELSE "flag"
             a == [req[r] EXCEPT !.todo = req[r].todo - 1]
             b == [a EXCEPT !.flagged = flagged]
             x == [b EXCEPT !.pc = pc]
  <2>1. /\ req' = [req EXCEPT ![r] = x]
        /\ ledger' \in Seq(Entries) /\ UNCHANGED store
    BY <1>18 DEF FlagRun, TypeInv
  <2>2. /\ req[r].todo \in 1..Len(runs) /\ req[r].todo - 1 \in Nat /\ req[r].pc = "flag"
        /\ pc \in PCs
    BY <1>0, <1>18 DEF FlagRun
  <2> HIDE DEF pc
  <2>3. flagged \in SUBSET Ids
    <3>1. runs[req[r].todo].id \in Ids /\ req[r].flagged \in SUBSET Ids
      <4>1. runs[req[r].todo] \in Runs
        BY <1>0, <2>2
      <4> QED
        BY <1>0, <4>1 DEF Runs, Handlers
    <3> QED
      BY <3>1
  <2> HIDE DEF flagged
  <2>a. a \in Handlers /\ a.op = req[r].op /\ a.run = req[r].run /\ a.todo = req[r].todo - 1
    BY <1>0, <2>2 DEF Handlers
  <2> HIDE DEF a
  <2>b. b \in Handlers /\ b.op = req[r].op /\ b.run = req[r].run /\ b.todo = req[r].todo - 1
    BY <2>a, <2>3 DEF Handlers
  <2> HIDE DEF b
  <2>4. /\ x \in Handlers /\ x.op = req[r].op /\ x.run = req[r].run /\ x.todo = req[r].todo - 1
        /\ x.pc = pc
    BY <2>b, <2>2 DEF Handlers
  <2> HIDE DEF x
  <2>5. WellFormed(x, r, Len(runs'))
    BY <1>0, <2>1, <2>2, <2>4 DEF store, pc
  <2> HIDE DEF WellFormed
  <2> QED
    BY <2>1, <2>4, <2>5, StoreStays, HandlerStep
<1>19. CASE ReadMap(r)
  <2> DEFINE inline == req[r].map # Default
             map == IF inline THEN req[r].map ELSE fieldMap.map
             pc == IF inline /\ map # fieldMap.map THEN "put_map" ELSE "lock_runs"
             a == [req[r] EXCEPT !.map = map]
             x == [a EXCEPT !.pc = pc]
  <2>1. /\ req' = [req EXCEPT ![r] = x]
        /\ ledger' \in Seq(Entries) /\ UNCHANGED store
    BY <1>19 DEF ReadMap, TypeInv
  <2>2. map \in MapDocs /\ pc \in {"put_map", "lock_runs"} /\ req[r].pc = "read_map" /\ runs' = runs
    BY <1>0, <1>19, <2>1 DEF ReadMap, TypeInv, Handlers, store
  <2> HIDE DEF map, pc
  <2>a. a \in Handlers /\ a.op = req[r].op /\ a.run = req[r].run
    BY <1>0, <2>2 DEF Handlers
  <2> HIDE DEF a
  <2>3. x \in Handlers /\ x.op = req[r].op /\ x.run = req[r].run /\ x.pc = pc
    BY <2>a, <2>2 DEF Handlers
  <2> HIDE DEF x
  <2>4. WellFormed(x, r, Len(runs'))
    BY <1>0, <2>2, <2>3
  <2> HIDE DEF WellFormed
  <2> QED
    BY <2>1, <2>3, <2>4, StoreStays, HandlerStep
<1> QED
  BY <1>1, <1>2, <1>3, <1>4, <1>5, <1>6, <1>7, <1>8, <1>9, <1>10, <1>11, <1>12, <1>13,
     <1>14, <1>15, <1>16, <1>17, <1>18, <1>19 DEF Work

LEMMA AbandonKeepsTypes ==
  ASSUME TypeInv, NEW r \in Requests, Abandon(r) PROVE TypeInv'
<1> DEFINE x == Dropped(req[r])
<1>1. req[r] \in Handlers /\ WellFormed(req[r], r, Len(runs)) /\ InFlight(r)
  BY DEF TypeInv, Abandon
<1>2. /\ x \in Handlers /\ x.pc = "abandoned" /\ x.next = req[r].pc
      /\ x.op = req[r].op /\ x.run = req[r].run
  BY <1>1, DroppedFields
<1>3. req' = [req EXCEPT ![r] = x]
  BY DEF Abandon
<1> HIDE DEF x
<1>4. WellFormed(x, r, Len(runs'))
  BY <1>1, <1>2 DEF WellFormed, StandsAt, Abandon, InFlight
<1>5. /\ runs' \in Seq(Runs) /\ Len(runs) <= Len(runs') /\ UNCHANGED backend
      /\ sor' \in Ids \cup {Generated} /\ ptr' \in Ids \cup {NoRun}
      /\ lock' \in Requests \cup {None}
      /\ fieldMap' \in [map : MapDocs, by : Requests \cup {None}]
      /\ ledger' \in Seq(Entries)
  BY DEF Abandon, Unlock, TypeInv
<1> QED
  BY <1>2, <1>3, <1>4, <1>5, HandlerStep

LEMMA StepTypeInv == TypeInv /\ [Next]_vars => TypeInv'
<1> SUFFICES ASSUME TypeInv, [Next]_vars PROVE TypeInv'
  OBVIOUS
<1>1. CASE UNCHANGED vars
  BY <1>1 DEF vars, store, TypeInv, WellFormed
<1>2. ASSUME NEW r \in Requests,
             AskImport(r) \/ AskServe(r) \/ AskRevert(r) \/ AskList(r) \/ AskMap(r) \/ AskMapRevert(r)
      PROVE  TypeInv'
  <2>1. PICK op \in AllOps, pc \in PCs, run \in Ids \cup {NoRun}, map \in MapDocs :
          /\ Ask(r, op, pc, run, map)
          /\ \/ op = "import" /\ pc = "read_map" /\ run = r
             \/ op = "serve" /\ pc = "find_run" /\ run \in Ids
             \/ op = "revert" /\ pc = "drop"
             \/ op = "list" /\ pc = "list"
             \/ op = "map" /\ pc = "put_map"
             \/ op = "map_revert" /\ pc = "drop_map"
    BY <1>2 DEF AskImport, AskServe, AskRevert, AskList, AskMap, AskMapRevert
  <2> QED
    BY <2>1, AskKeepsTypes
<1> QED
  BY <1>1, <1>2, WorkKeepsTypes, AbandonKeepsTypes DEF Next

(* Handlers, runs and entries stay well formed: who makes which call, over *)
(* which store, whatever interleaves or is dropped.                        *)
THEOREM ScheduleTypes == Spec => []TypeInv
BY InitTypeInv, StepTypeInv, PTL DEF Spec
-----------------------------------------------------------------------------
(* The runs of the history.                                                *)

LEMMA InitHistory == Init => HistoryInv
<1> SUFFICES ASSUME Init PROVE HistoryInv
  OBVIOUS
<1>1. TypeInv
  BY InitTypeInv
<1>2. \A r \in Requests : req[r] = Idle
  BY DEF Init
<1>3. CASE runs = << >>
  <2>1. DOMAIN runs = {}
    BY <1>3
  <2> QED
    BY <1>1, <1>2, <2>1, IdleFields DEF HistoryInv, HistoryIsNumbered, Order, Find, Writing
<1>4. CASE runs = <<BootRun>>
  <2>1. DOMAIN runs = {1} /\ Len(runs) = 1 /\ runs[1] = BootRun
    BY <1>4
  <2>2. BootRun.id = Boot /\ BootRun.seq = 1 /\ BootRun.held = TRUE
    BY DEF BootRun
  <2>3. Find(Boot) = {1} /\ \A r \in Requests : Find(r) = {}
    BY <2>1, <2>2 DEF Find
  <2>4. 1 < 1 + MaxDocs
    BY DocsAssumption
  <2>5. HistoryIsNumbered
    BY <2>1, <2>2, <2>3, <2>4 DEF HistoryIsNumbered
  <2> QED
    BY <1>1, <1>2, <2>3, <2>5, IdleFields DEF HistoryInv, Order, Writing
<1> QED
  BY <1>3, <1>4 DEF Init

(* A step of one handler that records no run.                              *)
LEMMA QuietHistory ==
  ASSUME HistoryInv, TypeInv', NEW r \in Requests, UNCHANGED <<backend, runs>>,
         \A q \in Requests : q # r => req'[q] = req[q] /\ (Writing(q) => lock' = q),
         Order(r)'
  PROVE  HistoryInv'
<1>1. HistoryIsNumbered'
  BY DEF HistoryInv, HistoryIsNumbered, Find
<1>2. ASSUME NEW q \in Requests, q # r PROVE Order(q)'
  BY <1>2 DEF HistoryInv, Order, Writing, Stands, Find
<1> QED
  BY <1>1, <1>2 DEF HistoryInv

(* What a step leaves of the handlers that do not take it.                 *)
LEMMA OthersWait ==
  ASSUME TypeInv, NEW r \in Requests, Work(r) \/ Abandon(r)
  PROVE  \A q \in Requests : q # r => req'[q] = req[q]
BY DEF TypeInv, Work, ReadMap, FindRun, ReadServed, LockRuns, WriteRun, PutDoc, PutPointer, Push,
       ServeRun, LookUpRun, DeleteDoc, DropDoc, DropPointer, PutMap, DropMap, LedgerMap,
       LedgerRun, LedgerRevert, LedgerMapRevert, LedgerLast, ListFlagged, ListRuns, FlagRun,
       Abandon, Go

(* What a handler holds after a step.                                      *)
Keeps(r) ==
  /\ req'[r].op = req[r].op /\ req'[r].run = req[r].run
  /\ req'[r].flagged = req[r].flagged
LEMMA GoKeeps ==
  ASSUME TypeInv, NEW r \in Requests, NEW pc, Go(r, pc)
  PROVE  Keeps(r) /\ req'[r].pc = pc /\ req'[r].map = req[r].map /\ req'[r].seq = req[r].seq
BY DEF TypeInv, Handlers, Go, Keeps
LEMMA ReadsKeep ==
  ASSUME TypeInv, NEW r \in Requests
  PROVE  /\ ReadMap(r) => Keeps(r) /\ req'[r].pc \in {"put_map", "lock_runs"}
         /\ ReadServed(r) => Keeps(r) /\ req'[r].pc = "serve"
         /\ LockRuns(r) => /\ Keeps(r) /\ req'[r].map = req[r].map
                           /\ req'[r].pc \in {"write", "put_doc"} /\ req'[r].seq = Len(runs) + 1
         /\ ListRuns(r) => /\ Keeps(r) /\ req'[r].todo = Len(runs)
                           /\ req'[r].pc \in {"flag", "answered"}
BY DEF TypeInv, Handlers, Keeps, ReadMap, ReadServed, LockRuns, ListRuns
LEMMA FlagsKeep ==
  ASSUME TypeInv, NEW r \in Requests
  PROVE  /\ ListFlagged(r) => /\ req'[r].pc = "answered" /\ req'[r].op = req[r].op
                              /\ req'[r].flagged = {runs[i].id : i \in Find(ptr)}
         /\ FlagRun(r) => /\ req'[r].pc = IF req[r].todo = 1 THEN "answered" ELSE "flag"
                          /\ req'[r].op = req[r].op /\ req'[r].todo = req[r].todo - 1
                          /\ req'[r].flagged = IF runs[req[r].todo].id = ptr
                                               THEN req[r].flagged \cup {runs[req[r].todo].id}
                                               ELSE req[r].flagged
<1>1. req[r] \in Handlers /\ req \in [Requests -> Handlers]
  BY DEF TypeInv
<1>2. ASSUME ListFlagged(r)
      PROVE  /\ req'[r].pc = "answered" /\ req'[r].op = req[r].op
             /\ req'[r].flagged = {runs[i].id : i \in Find(ptr)}
  BY <1>1, <1>2 DEF ListFlagged, Handlers
<1>3. ASSUME FlagRun(r)
      PROVE  /\ req'[r].pc = IF req[r].todo = 1 THEN "answered" ELSE "flag"
             /\ req'[r].op = req[r].op /\ req'[r].todo = req[r].todo - 1
             /\ req'[r].flagged = IF runs[req[r].todo].id = ptr
                                  THEN req[r].flagged \cup {runs[req[r].todo].id}
                                  ELSE req[r].flagged
  BY <1>1, <1>3 DEF FlagRun, Handlers
<1> QED
  BY <1>2, <1>3
LEMMA OverKeeps ==
  ASSUME TypeInv, NEW r \in Requests, NEW pc \in {"answered", "refused"},
         req' = [req EXCEPT ![r] = Over(req[r], pc)]
  PROVE  req'[r].pc = pc /\ req'[r].op = "none" /\ req'[r].flagged = req[r].flagged
BY OverFields DEF TypeInv

(* The run recorded is a new one, and takes the next number: its import    *)
(* has held the lock since it took it.                                     *)
LEMMA RecordingHistory ==
  ASSUME HistoryInv, TypeInv', NEW r \in Requests, WriteRun(r) \/ Push(r)
  PROVE  HistoryInv' /\ Find(r) = {} /\ Find(r)' = {Len(runs) + 1}
<1> DEFINE n == Len(runs) + 1
<1>1. /\ TypeInv /\ Len(runs) \in Nat /\ DOMAIN runs = 1..Len(runs)
      /\ HistoryIsNumbered /\ MaxDocs \in Nat \ {0}
  BY DocsAssumption DEF HistoryInv, TypeInv
<1>2. Writing(r) /\ req[r].op = "import" /\ req[r].pc \in {"write", "push"}
  BY DEF WriteRun, Push, Writing, HistoryInv, TypeInv, WellFormed, StandsAt
<1>3. lock = r /\ req[r].seq = n /\ Find(r) = {}
  BY <1>2 DEF HistoryInv, Order, Stands, StandsAt
<1>4. /\ DOMAIN runs' = 1..n /\ n \notin 1..Len(runs)
      /\ \A i \in 1..Len(runs) : runs'[i].id = runs[i].id /\ runs'[i].seq = runs[i].seq
      /\ runs'[n].id = r /\ runs'[n].seq = n
  BY <1>1, <1>3, Recording
<1>5. /\ Find(r)' = {n}
      /\ \A id \in Ids : id # r => Find(id)' = Find(id)
  BY <1>1, <1>3, <1>4 DEF Find
<1>6. ASSUME NEW i \in DOMAIN runs'
      PROVE  runs'[i].seq = i /\ Find(runs[i].id)' = {i}
  <2>1. CASE i = n
    BY <1>3, <1>4, <1>5, <2>1
  <2>2. CASE i # n
    <3>1. i \in 1..Len(runs)
      BY <1>1, <1>4, <2>2
    <3>2. runs[i].id # r
      BY <1>1, <1>3, <3>1 DEF Find
    <3>3. runs[i].id \in Ids
      <4>1. runs[i] \in Runs
        BY <1>1, <3>1 DEF TypeInv
      <4> QED
        BY <4>1 DEF Runs
    <3> QED
      BY <1>1, <1>4, <1>5, <3>1, <3>2, <3>3 DEF HistoryIsNumbered
  <2> QED
    BY <2>1, <2>2
<1>7. ASSUME NEW i \in DOMAIN runs'
      PROVE  runs'[i].held <=> (backend' = "postgres" \/ Len(runs') < i + MaxDocs)
  <2>1. Len(runs') = n /\ i \in 1..n
    BY <1>1, <1>4, Recording
  <2>2. CASE WriteRun(r)
    <3>1. backend = "postgres" /\ backend' = backend
      BY <2>2 DEF HistoryInv, TypeInv, WellFormed, StandsAt, WriteRun
    <3>2. CASE i = n
      BY <1>1, <2>2, <3>1, <3>2, Recording
    <3>3. CASE i # n
      <4>1. i \in DOMAIN runs
        BY <1>1, <2>1, <3>3
      <4>2. runs[i].held
        BY <1>1, <3>1, <4>1 DEF HistoryIsNumbered
      <4> QED
        BY <1>1, <2>2, <3>1, <4>1, <4>2, Recording
    <3> QED
      BY <3>2, <3>3
  <2>3. CASE Push(r)
    <3>1. backend # "postgres" /\ backend' = backend
      BY <2>3 DEF HistoryInv, TypeInv, WellFormed, StandsAt, Push
    <3>2. CASE i = n
      BY <1>1, <2>1, <2>3, <3>1, <3>2, Recording
    <3>3. CASE i # n
      <4>1. i \in DOMAIN runs /\ i \in 1..Len(runs)
        BY <1>1, <2>1, <3>3
      <4>2. runs[i].held <=> Len(runs) < i + MaxDocs
        BY <1>1, <3>1, <4>1 DEF HistoryIsNumbered
      <4>3. runs'[i].held <=> (runs[i].held /\ n < i + MaxDocs)
        BY <1>1, <2>3, <4>1, Recording
      <4>4. n < i + MaxDocs => Len(runs) < i + MaxDocs
        BY <1>1, <4>1
      <4> QED
        BY <2>1, <3>1, <4>2, <4>3, <4>4
    <3> QED
      BY <3>2, <3>3
  <2> QED
    BY <2>2, <2>3
<1>8. HistoryIsNumbered'
  BY <1>6, <1>7 DEF HistoryIsNumbered
<1>9. ASSUME NEW q \in Requests PROVE Order(q)'
  <2>1. Go(r, "ledger_run")
    BY DEF WriteRun, Push, Go
  <2>2. CASE q = r
    <3>1. req'[r].pc = "ledger_run" /\ req'[r].op = "import"
      BY <1>1, <1>2, <2>1, GoKeeps DEF Keeps
    <3> QED
      BY <2>2, <3>1 DEF Order, Writing, Stands, StandsAt
  <2>3. CASE q # r
    <3>1. req'[q] = req[q]
      BY <1>1, <2>1, <2>3 DEF Go, TypeInv
    <3>2. ~Writing(q)
      BY <1>3, <2>3 DEF HistoryInv, Order
    <3> QED
      BY <1>5, <2>3, <3>1, <3>2 DEF HistoryInv, Order, Writing, Stands
  <2> QED
    BY <2>2, <2>3
<1> QED
  BY <1>3, <1>5, <1>8, <1>9 DEF HistoryInv

LEMMA WorkHistory ==
  ASSUME HistoryInv, TypeInv', NEW r \in Requests, Work(r)
  PROVE  HistoryInv'
<1>1. CASE WriteRun(r) \/ Push(r)
  BY <1>1, RecordingHistory
<1>2. CASE ~(WriteRun(r) \/ Push(r))
  <2>1. TypeInv /\ UNCHANGED <<backend, runs>> /\ \A q \in Requests : q # r => req'[q] = req[q]
    <3>1. UNCHANGED <<backend, runs>>
      BY <1>2 DEF Work, ReadMap, FindRun, ReadServed, LockRuns, PutDoc, PutPointer, ServeRun,
         LookUpRun, DeleteDoc, DropDoc, DropPointer, PutMap, DropMap, LedgerMap,
         LedgerRun, LedgerRevert, LedgerMapRevert, LedgerLast, ListFlagged, ListRuns, FlagRun, store
    <3> QED
      BY <3>1, OthersWait DEF HistoryInv
  <2>2. CASE LockRuns(r)
    <3>1. \A q \in Requests : ~Writing(q)
      BY <2>2 DEF LockRuns, HistoryInv, Order
    <3>2. req[r].op = "import" /\ req[r].pc = "lock_runs" /\ Find(r) = {}
      BY <2>2 DEF LockRuns, HistoryInv, TypeInv, WellFormed, StandsAt, Order, Stands
    <3>3. /\ req'[r].op = "import" /\ req'[r].pc \in {"write", "put_doc"}
          /\ req'[r].seq = Len(runs) + 1 /\ lock' = r
      BY <2>1, <2>2, <3>2, ReadsKeep DEF Keeps, LockRuns
    <3>4. Order(r)'
      BY <2>1, <3>2, <3>3 DEF Order, Find
    <3> QED
      BY <2>1, <3>1, <3>4, QuietHistory
  <2>3. CASE ~LockRuns(r)
    <3>1. lock' = lock
      BY <1>2, <2>3 DEF Work, ReadMap, FindRun, ReadServed, PutDoc, PutPointer, ServeRun,
         LookUpRun, DeleteDoc, DropDoc, DropPointer, PutMap, DropMap, LedgerMap,
         LedgerRun, LedgerRevert, LedgerMapRevert, LedgerLast, ListFlagged, ListRuns, FlagRun, store
    <3>2. Order(r)'
      <4>1. CASE LedgerRun(r)
        <5>1. req'[r].pc = "answered"
          BY <2>1, <4>1, OverKeeps DEF LedgerRun, LedgerLast
        <5> QED
          BY <5>1 DEF Order, Writing
      <4>2. CASE ~LedgerRun(r)
        <5>1. Find(r) = {} /\ Find(r)' = {}
          <6>1. req[r].pc \notin {"answered", "abandoned", "ledger_run"}
            BY <1>2, <4>2 DEF Work, ReadMap, FindRun, ReadServed, LockRuns, PutDoc, PutPointer,
               ServeRun, LookUpRun, DeleteDoc, DropDoc, DropPointer, PutMap, DropMap, LedgerMap,
               LedgerRun, LedgerRevert, LedgerMapRevert, LedgerLast, ListFlagged, ListRuns, FlagRun
          <6> QED
            BY <2>1, <6>1 DEF HistoryInv, Order, Stands, StandsAt, Find
        <5>2. CASE PutDoc(r)
          <6>1. Keeps(r) /\ req'[r].pc = "put_pointer" /\ req'[r].seq = req[r].seq
            BY <2>1, <5>2, GoKeeps DEF PutDoc
          <6> QED
            BY <2>1, <3>1, <5>1, <5>2, <6>1 DEF PutDoc, Order, Writing, Keeps, HistoryInv
        <5>3. CASE PutPointer(r)
          <6>1. /\ Keeps(r) /\ req'[r].seq = req[r].seq
                /\ req'[r].pc = IF req[r].op = "serve" THEN "ledger_run" ELSE "push"
            <7> DEFINE pc == IF req[r].op = "serve" THEN "ledger_run" ELSE "push"
            <7>1. Go(r, pc)
              BY <5>3 DEF PutPointer, Go
            <7> HIDE DEF pc
            <7>2. Keeps(r) /\ req'[r].seq = req[r].seq /\ req'[r].pc = pc
              BY <2>1, <7>1, GoKeeps
            <7> QED
              BY <7>2 DEF pc
          <6>2. req[r].op \in {"import", "serve"}
            BY <2>1, <5>3 DEF PutPointer, TypeInv, WellFormed, StandsAt
          <6> QED
            BY <2>1, <3>1, <5>1, <5>3, <6>1, <6>2 DEF PutPointer, Order, Writing, Keeps, HistoryInv
        <5>4. CASE FindRun(r) \/ LookUpRun(r)
          <6>1. CASE req' = [req EXCEPT ![r] = Over(req[r], "refused")]
            BY <2>1, <5>1, <6>1, OverKeeps DEF Order, Writing
          <6>2. CASE Go(r, "read_served")
            BY <2>1, <5>1, <6>2, GoKeeps DEF Order, Writing
          <6>3. CASE LookUpRun(r) /\ Go(r, "put_doc")
            <7>1. req'[r].pc = "put_doc" /\ req'[r].op = "serve"
              BY <2>1, <6>3, GoKeeps DEF Keeps, LookUpRun, TypeInv, WellFormed, StandsAt
            <7> QED
              BY <5>1, <7>1 DEF Order, Writing
          <6> QED
            BY <5>4, <6>1, <6>2, <6>3 DEF FindRun, LookUpRun, Go
        <5>5. CASE ~(PutDoc(r) \/ PutPointer(r) \/ FindRun(r) \/ LookUpRun(r))
          <6>1. req'[r].pc \notin {"write", "push", "put_doc", "put_pointer"}
            <7>1. CASE \E pc \in {"ledger_run", "ledger_revert", "drop_pointer", "ledger_map",
                                  "ledger_map_revert", "lock_runs"} : Go(r, pc)
              BY <2>1, <7>1, GoKeeps
            <7>2. CASE req' = [req EXCEPT ![r] = Over(req[r], "answered")]
              BY <2>1, <7>2, OverKeeps
            <7>3. CASE ReadMap(r) \/ ReadServed(r) \/ ListRuns(r)
              BY <2>1, <7>3, ReadsKeep
            <7>4. CASE ListFlagged(r) \/ FlagRun(r)
              BY <2>1, <7>4, FlagsKeep
            <7>5. CASE ServeRun(r) \/ DeleteDoc(r) \/ DropDoc(r) \/ DropPointer(r) \/ PutMap(r) \/ DropMap(r)
              BY <7>1, <7>5 DEF ServeRun, DeleteDoc, DropDoc, DropPointer, PutMap, DropMap, Go
            <7>6. CASE LedgerMap(r) \/ LedgerRevert(r) \/ LedgerMapRevert(r)
              BY <7>1, <7>2, <7>6 DEF LedgerMap, LedgerRevert, LedgerMapRevert, LedgerLast
            <7> QED
              BY <1>2, <2>3, <4>2, <5>5, <7>3, <7>4, <7>5, <7>6 DEF Work
          <6> QED
            BY <5>1, <6>1 DEF Order, Writing
        <5> QED
          BY <5>2, <5>3, <5>4, <5>5
      <4> QED
        BY <4>1, <4>2
    <3> QED
      BY <2>1, <3>1, <3>2, QuietHistory DEF HistoryInv, Order
  <2> QED
    BY <2>2, <2>3
<1> QED
  BY <1>1, <1>2

(* A request that arrives, and a handler that is dropped.                  *)
Asks(r) == AskImport(r) \/ AskServe(r) \/ AskRevert(r) \/ AskList(r) \/ AskMap(r) \/ AskMapRevert(r)
Arrived(r) ==
  \/ req[r].op = "import" /\ req[r].pc = "read_map"
  \/ req[r].op = "serve" /\ req[r].pc = "find_run"
  \/ req[r].op = "revert" /\ req[r].pc = "drop"
  \/ req[r].op = "list" /\ req[r].pc = "list"
  \/ req[r].op = "map" /\ req[r].pc = "put_map"
  \/ req[r].op = "map_revert" /\ req[r].pc = "drop_map"

LEMMA AskBegins ==
  ASSUME TypeInv, NEW r \in Requests, Asks(r)
  PROVE  /\ UNCHANGED <<store, ledger>> /\ req[r].pc = "idle"
         /\ Arrived(r)' /\ req'[r].flagged = {}
         /\ \A q \in Requests : q # r => req'[q] = req[q]
<1>1. PICK op \in AllOps, pc \in PCs, run \in Ids \cup {NoRun}, map \in MapDocs :
        /\ Ask(r, op, pc, run, map)
        /\ \/ op = "import" /\ pc = "read_map"
           \/ op = "serve" /\ pc = "find_run"
           \/ op = "revert" /\ pc = "drop"
           \/ op = "list" /\ pc = "list"
           \/ op = "map" /\ pc = "put_map"
           \/ op = "map_revert" /\ pc = "drop_map"
  BY DEF Asks, AskImport, AskServe, AskRevert, AskList, AskMap, AskMapRevert
<1> DEFINE x == [Idle EXCEPT !.pc = pc, !.op = op, !.run = run, !.map = map]
<1>2. req' = [req EXCEPT ![r] = x] /\ UNCHANGED <<store, ledger>> /\ req[r].pc = "idle"
  BY <1>1 DEF Ask
<1>3. x.pc = pc /\ x.op = op /\ x.flagged = {}
  BY DEF Idle
<1> HIDE DEF x
<1>4. req'[r] = x /\ \A q \in Requests : q # r => req'[q] = req[q]
  BY <1>2 DEF TypeInv
<1> QED
  BY <1>1, <1>2, <1>3, <1>4 DEF Arrived

LEMMA DropKeeps ==
  ASSUME TypeInv, NEW r \in Requests, Abandon(r)
  PROVE  /\ Keeps(r) /\ req'[r].pc = "abandoned" /\ req'[r].next = req[r].pc
         /\ req'[r].map = req[r].map
         /\ req[r].pc \notin {"idle", "answered", "refused", "abandoned"}
         /\ UNCHANGED <<backend, runs, sor, ptr, fieldMap, ledger>>
         /\ \A q \in Requests : q # r => req'[q] = req[q] /\ (lock = q => lock' = q)
<1>1. req[r] \in Handlers /\ req' = [req EXCEPT ![r] = Dropped(req[r])]
  BY DEF TypeInv, Abandon
<1>2. req'[r] = Dropped(req[r]) /\ \A q \in Requests : q # r => req'[q] = req[q]
  BY <1>1 DEF TypeInv
<1> QED
  BY <1>1, <1>2, DroppedFields DEF Keeps, Abandon, InFlight, Unlock

LEMMA StepHistory == HistoryInv /\ [Next]_vars => HistoryInv'
<1> SUFFICES ASSUME HistoryInv, [Next]_vars PROVE HistoryInv'
  OBVIOUS
<1>1. TypeInv /\ TypeInv'
  BY StepTypeInv DEF HistoryInv
<1>2. CASE UNCHANGED vars
  BY <1>1, <1>2 DEF vars, store, HistoryInv, HistoryIsNumbered, Order, Writing, Stands, Find
<1>3. ASSUME NEW r \in Requests, Asks(r) PROVE HistoryInv'
  <2>1. Find(r)' = {} /\ ~Writing(r)'
    BY <1>1, <1>3, AskBegins
       DEF HistoryInv, Order, Stands, StandsAt, Find, store, Arrived, Writing
  <2> QED
    BY <1>1, <1>3, <2>1, AskBegins, QuietHistory DEF Order, HistoryInv, store
<1>4. ASSUME NEW r \in Requests, Abandon(r) PROVE HistoryInv'
  <2>1. Order(r)'
    BY <1>1, <1>4, DropKeeps DEF HistoryInv, Order, Writing, Stands, StandsAt, Find, Keeps
  <2> QED
    BY <1>1, <1>4, <2>1, DropKeeps, QuietHistory DEF HistoryInv, Order
<1> QED
  BY <1>1, <1>2, <1>3, <1>4, WorkHistory DEF Next, Asks

(* Two imports never take the same number, none is recorded twice, and     *)
(* what is held is what the store says it keeps.                           *)
THEOREM HistoryNumbered == Spec => []HistoryIsNumbered
<1>1. HistoryInv => HistoryIsNumbered
  BY DEF HistoryInv
<1> QED
  BY InitHistory, StepHistory, <1>1, PTL DEF Spec
-----------------------------------------------------------------------------
(* The runs and the ledger.                                                *)

(* A run once in the history stays in it.                                  *)
LEMMA RunsStay ==
  ASSUME TypeInv, [Next]_vars, NEW i \in DOMAIN runs
  PROVE  i \in DOMAIN runs' /\ runs'[i].id = runs[i].id /\ runs'[i].map = runs[i].map
<1>1. CASE \E r \in Requests : WriteRun(r) \/ Push(r)
  <2>1. PICK r \in Requests : WriteRun(r) \/ Push(r)
    BY <1>1
  <2>2. /\ Len(runs) \in Nat /\ DOMAIN runs = 1..Len(runs) /\ DOMAIN runs' = 1..(Len(runs) + 1)
        /\ \A j \in 1..Len(runs) : runs'[j].id = runs[j].id /\ runs'[j].map = runs[j].map
    BY <2>1, Recording DEF TypeInv
  <2> QED
    BY <2>2
<1>2. CASE ~ \E r \in Requests : WriteRun(r) \/ Push(r)
  <2>1. runs' = runs
    BY <1>2 DEF Next, vars, store, Work, AskImport, AskServe, AskRevert, AskList, AskMap,
         AskMapRevert, Ask, ReadMap, FindRun, ReadServed, LockRuns, PutDoc, PutPointer, ServeRun,
         LookUpRun, DeleteDoc, DropDoc, DropPointer, PutMap, DropMap, LedgerMap,
         LedgerRun, LedgerRevert, LedgerMapRevert, LedgerLast, ListFlagged, ListRuns, FlagRun, Abandon
  <2> QED
    BY <2>1
<1> QED
  BY <1>1, <1>2

LEMMA EntryAppended ==
  ASSUME NEW e \in Entries, ledger \in Seq(Entries), ledger' = Append(ledger, e)
  PROVE  /\ DOMAIN ledger' = 1..(Len(ledger) + 1) /\ DOMAIN ledger = 1..Len(ledger)
         /\ Len(ledger) \in Nat /\ ledger'[Len(ledger) + 1] = e
         /\ \A n \in DOMAIN ledger : ledger'[n] = ledger[n]
         /\ \A action \in Actions, q \in Requests :
              Entered(action, q)' = IF e.action = action /\ e.by = q
                                    THEN Entered(action, q) \cup {Len(ledger) + 1}
                                    ELSE Entered(action, q)
<1>1. /\ DOMAIN ledger' = 1..(Len(ledger) + 1) /\ DOMAIN ledger = 1..Len(ledger)
      /\ Len(ledger) \in Nat /\ ledger'[Len(ledger) + 1] = e
      /\ \A n \in DOMAIN ledger : ledger'[n] = ledger[n]
  OBVIOUS
<1> QED
  BY <1>1 DEF Entered

(* A handler that has named a run before the step has still.               *)
LEMMA NamedStays ==
  ASSUME LedgerInv, [Next]_vars, NEW q \in Requests, req'[q].run = req[q].run, Named(q)
  PROVE  Find(req[q].run)' # {}
<1>1. PICK i \in DOMAIN runs : runs[i].id = req[q].run
  BY DEF LedgerInv, Accounts, Find
<1>2. i \in DOMAIN runs' /\ runs'[i].id = runs[i].id
  BY RunsStay DEF LedgerInv, HistoryInv
<1> QED
  BY <1>1, <1>2 DEF Find

(* A handler's step that makes no SCHEDULE_REPLACED entry.                 *)
LEMMA QuietLedger ==
  ASSUME LedgerInv, [Next]_vars, NEW r \in Requests, req[r].pc # "answered",
         \A q \in Requests : q # r => req'[q] = req[q],
         Owes(r, "ledger_run") => Owes(r, "ledger_run")',
         Named(r)' => Find(req[r].run)' # {},
         \/ UNCHANGED ledger
         \/ \E e \in Entries : ledger' = Append(ledger, e) /\ e.action # "SCHEDULE_REPLACED",
         \/ UNCHANGED runs
         \/ (WriteRun(r) \/ Push(r)) /\ Owes(r, "ledger_run")'
  PROVE  LedgerInv'
<1>1. HistoryInv /\ HistoryInv' /\ TypeInv /\ TypeInv'
  BY StepHistory DEF LedgerInv, HistoryInv
<1>2. /\ \A q \in Requests : Entered("SCHEDULE_REPLACED", q)' = Entered("SCHEDULE_REPLACED", q)
      /\ \A n \in DOMAIN ledger' : ledger'[n].action = "SCHEDULE_REPLACED"
           => n \in DOMAIN ledger /\ ledger'[n] = ledger[n]
  <2>1. CASE UNCHANGED ledger
    BY <2>1 DEF Entered
  <2>2. CASE ~ UNCHANGED ledger
    <3>1. "SCHEDULE_REPLACED" \in Actions
      BY DEF Actions
    <3> QED
      BY <1>1, <2>2, <3>1, EntryAppended DEF TypeInv
  <2> QED
    BY <2>1, <2>2
<1>3. ASSUME NEW q \in Requests PROVE Accounts(q)'
  <2>1. CASE q = r
    BY <1>2, <2>1 DEF LedgerInv, Accounts
  <2>2. CASE q # r
    <3>1. req'[q] = req[q]
      BY <2>2
    <3>2. Named(q)' => Find(req[q].run)' # {}
      BY <3>1, NamedStays DEF Named
    <3> QED
      BY <1>2, <3>1, <3>2 DEF LedgerInv, Accounts
  <2> QED
    BY <2>1, <2>2
<1>4. ASSUME NEW n \in DOMAIN ledger', ledger'[n].action = "SCHEDULE_REPLACED"
      PROVE  Find(ledger[n].run)' # {}
  <2>1. n \in DOMAIN ledger /\ ledger'[n] = ledger[n]
    BY <1>2, <1>4
  <2>2. PICK i \in DOMAIN runs : runs[i].id = ledger[n].run
    BY <1>4, <2>1 DEF LedgerInv, RunsAreLedgered, Find
  <2>3. i \in DOMAIN runs' /\ runs'[i].id = runs[i].id
    BY <1>1, RunsStay
  <2> QED
    BY <2>1, <2>2, <2>3 DEF Find
<1>5. ASSUME NEW i \in DOMAIN runs', NEW q \in Requests, q = runs'[i].id
      PROVE  Owes(q, "ledger_run")' \/ Cardinality(Entered("SCHEDULE_REPLACED", q)') = 1
  <2>1. CASE q = r /\ ~ UNCHANGED runs
    BY <2>1
  <2>2. CASE q # r \/ UNCHANGED runs
    <3>1. i \in DOMAIN runs /\ runs[i].id = q
      <4>1. CASE UNCHANGED runs
        BY <1>5, <4>1
      <4>2. CASE ~ UNCHANGED runs
        BY <1>1, <1>5, <2>2, <4>2, Recording DEF TypeInv
      <4> QED
        BY <4>1, <4>2
    <3>2. q # Boot
      OBVIOUS
    <3>3. Owes(q, "ledger_run") \/ Cardinality(Entered("SCHEDULE_REPLACED", q)) = 1
      BY <3>1, <3>2 DEF LedgerInv, RunsAreLedgered
    <3>4. Owes(q, "ledger_run") => Owes(q, "ledger_run")'
      BY DEF Owes
    <3> QED
      BY <1>2, <3>3, <3>4
  <2> QED
    BY <2>1, <2>2
<1>6. RunsAreLedgered'
  <2>1. \A i \in DOMAIN runs' : runs'[i].id # Boot => runs'[i].id \in Requests
    <3>1. \A i \in DOMAIN runs' : runs'[i] \in Runs
      BY <1>1 DEF TypeInv
    <3> QED
      BY <3>1 DEF Runs
  <2> QED
    BY <1>4, <1>5, <2>1 DEF RunsAreLedgered
<1> QED
  BY <1>1, <1>3, <1>6 DEF LedgerInv

LEMMA InitLedger == Init => LedgerInv
<1> SUFFICES ASSUME Init PROVE LedgerInv
  OBVIOUS
<1>1. HistoryInv
  BY InitHistory
<1>2. DOMAIN ledger = {} /\ \A r \in Requests : req[r].pc = "idle"
  BY IdleFields DEF Init
<1>3. \A i \in DOMAIN runs : runs[i].id = Boot
  BY DEF Init, BootRun
<1> QED
  BY <1>1, <1>2, <1>3 DEF LedgerInv, RunsAreLedgered, Accounts, Named, Entered

LEMMA LedgerRunStep ==
  ASSUME LedgerInv, [Next]_vars, NEW r \in Requests, LedgerRun(r)
  PROVE  LedgerInv'
<1>1. HistoryInv /\ HistoryInv' /\ TypeInv /\ TypeInv'
  BY StepHistory DEF LedgerInv, HistoryInv
<1>2. PICK e \in Entries : /\ ledger' = Append(ledger, e) /\ e.action = "SCHEDULE_REPLACED"
                           /\ e.by = r /\ e.run = req[r].run
  <2>1. "SCHEDULE_REPLACED" \in Actions
    BY DEF Actions
  <2> QED
    BY <1>1, <2>1, AppendedEntry DEF LedgerRun, LedgerLast
<1>3. /\ UNCHANGED runs /\ req'[r].pc = "answered"
      /\ \A q \in Requests : q # r => req'[q] = req[q]
  BY <1>1, OverKeeps, OthersWait DEF LedgerRun, LedgerLast, Work, store
<1> DEFINE k == Len(ledger) + 1
<1>4. /\ DOMAIN ledger' = DOMAIN ledger \cup {k} /\ ledger'[k] = e
      /\ \A n \in DOMAIN ledger : n # k /\ ledger'[n] = ledger[n]
      /\ Entered("SCHEDULE_REPLACED", r)' = {k}
      /\ \A q \in Requests : q # r =>
           Entered("SCHEDULE_REPLACED", q)' = Entered("SCHEDULE_REPLACED", q)
  <2>1. "SCHEDULE_REPLACED" \in Actions
    BY DEF Actions
  <2>2. Entered("SCHEDULE_REPLACED", r) = {}
    BY DEF LedgerInv, Accounts, LedgerRun, LedgerLast
  <2> QED
    BY <1>1, <1>2, <2>1, <2>2, EntryAppended DEF TypeInv
<1> HIDE DEF k
<1>5. ASSUME NEW q \in Requests PROVE Accounts(q)'
  <2>1. CASE q = r
    BY <1>3, <2>1 DEF Accounts, Named
  <2>2. CASE q # r
    BY <1>3, <1>4, <2>2 DEF LedgerInv, Accounts, Named, Find
  <2> QED
    BY <2>1, <2>2
<1>6. ASSUME NEW n \in DOMAIN ledger', ledger'[n].action = "SCHEDULE_REPLACED"
      PROVE  Find(ledger[n].run)' # {}
  <2>1. CASE n = k
    <3>1. Find(req[r].run) # {}
      BY DEF LedgerInv, Accounts, Named, LedgerRun, LedgerLast
    <3> QED
      BY <1>2, <1>3, <1>4, <2>1, <3>1 DEF Find
  <2>2. CASE n # k
    <3>1. n \in DOMAIN ledger /\ ledger'[n] = ledger[n]
      BY <1>4, <2>2
    <3>2. Find(ledger[n].run) # {}
      BY <1>6, <3>1 DEF LedgerInv, RunsAreLedgered
    <3> QED
      BY <1>3, <3>1, <3>2 DEF Find
  <2> QED
    BY <2>1, <2>2
<1>7. ASSUME NEW i \in DOMAIN runs', NEW q \in Requests, q = runs'[i].id
      PROVE  Owes(q, "ledger_run")' \/ Cardinality(Entered("SCHEDULE_REPLACED", q)') = 1
  <2>1. CASE q = r
    BY <1>4, <2>1, FS_Singleton
  <2>2. CASE q # r
    BY <1>3, <1>4, <1>7, <2>2 DEF LedgerInv, RunsAreLedgered, Owes
  <2> QED
    BY <2>1, <2>2
<1>8. \A i \in DOMAIN runs' : runs'[i].id # Boot => runs'[i].id \in Requests
  <2>1. \A i \in DOMAIN runs' : runs'[i] \in Runs
    BY <1>1 DEF TypeInv
  <2> QED
    BY <2>1 DEF Runs
<1>9. RunsAreLedgered'
  BY <1>6, <1>7, <1>8 DEF RunsAreLedgered
<1> QED
  BY <1>1, <1>5, <1>9 DEF LedgerInv

(* Every other step of a handler.                                          *)
LEMMA WorkLedger ==
  ASSUME LedgerInv, [Next]_vars, NEW r \in Requests, Work(r) PROVE LedgerInv'
<1>1. /\ TypeInv /\ TypeInv' /\ req[r].pc # "answered" /\ req[r].pc # "abandoned"
      /\ \A q \in Requests : q # r => req'[q] = req[q]
  <2>1. req[r].pc # "answered" /\ req[r].pc # "abandoned"
    BY DEF Work, ReadMap, FindRun, ReadServed, LockRuns, WriteRun, PutDoc, PutPointer, Push,
       ServeRun, LookUpRun, DeleteDoc, DropDoc, DropPointer, PutMap, DropMap, LedgerMap,
       LedgerRun, LedgerRevert, LedgerMapRevert, LedgerLast, ListFlagged, ListRuns, FlagRun
  <2> QED
    BY <2>1, StepTypeInv, OthersWait DEF LedgerInv, HistoryInv
<1>2. CASE LedgerRun(r)
  BY <1>2, LedgerRunStep
<1>3. CASE WriteRun(r) \/ Push(r)
  <2>1. Go(r, "ledger_run") /\ UNCHANGED ledger
    BY <1>3 DEF WriteRun, Push, Go
  <2>2. Keeps(r) /\ req'[r].pc = "ledger_run" /\ req[r].run = r
    BY <1>1, <1>3, <2>1, GoKeeps DEF WriteRun, Push, TypeInv, WellFormed, StandsAt
  <2>3. Find(r)' # {}
    BY <1>3, StepHistory, <1>1, RecordingHistory DEF LedgerInv
  <2>4. Find(req[r].run)' # {}
    BY <2>2, <2>3 DEF Find, Keeps
  <2> QED
    BY <1>1, <1>3, <2>1, <2>2, <2>4, QuietLedger DEF Owes
<1>4. CASE ~(LedgerRun(r) \/ WriteRun(r) \/ Push(r))
  <2>1. UNCHANGED runs /\ req[r].pc # "ledger_run"
    BY <1>4 DEF Work, ReadMap, FindRun, ReadServed, LockRuns, PutDoc, PutPointer, ServeRun,
       LookUpRun, DeleteDoc, DropDoc, DropPointer, PutMap, DropMap, LedgerMap,
       LedgerRun, LedgerRevert, LedgerMapRevert, LedgerLast, ListFlagged, ListRuns, FlagRun, store
  <2>2. \/ UNCHANGED ledger
        \/ \E e \in Entries : ledger' = Append(ledger, e) /\ e.action # "SCHEDULE_REPLACED"
    <3>1. CASE \E action \in Actions \ {"SCHEDULE_REPLACED"} : AppendAudit(r, action)
      BY <1>1, <3>1, AppendedEntry
    <3>2. CASE LedgerMap(r) \/ LedgerRevert(r) \/ LedgerMapRevert(r)
      BY <3>1, <3>2 DEF LedgerMap, LedgerRevert, LedgerMapRevert, LedgerLast, Actions
    <3> QED
      BY <1>4, <3>2 DEF Work, ReadMap, FindRun, ReadServed, LockRuns, PutDoc, PutPointer, ServeRun,
         LookUpRun, DeleteDoc, DropDoc, DropPointer, PutMap, DropMap, ListFlagged, ListRuns, FlagRun
  <2>3. Named(r)' => Find(req[r].run)' # {}
    <3> USE <1>1, <2>1
    <3>1. CASE FindRun(r) \/ LookUpRun(r)
      <4>1. CASE req' = [req EXCEPT ![r] = Over(req[r], "refused")]
        BY <4>1, OverKeeps DEF Named
      <4>2. CASE Holds(req[r].run) /\ \E pc \in {"read_served", "put_doc"} : Go(r, pc)
        <5>1. req'[r].run = req[r].run
          BY <4>2, GoKeeps DEF Keeps
        <5> QED
          BY <4>2, <5>1 DEF Holds, Find
      <4> QED
        BY <3>1, <4>1, <4>2 DEF FindRun, LookUpRun, Go
    <3>2. CASE ReadServed(r) \/ ServeRun(r) \/ ((PutDoc(r) \/ PutPointer(r)) /\ req[r].op = "serve")
      <4>1. Named(r)
        BY <3>2 DEF ReadServed, ServeRun, PutDoc, PutPointer, Named
      <4>2. CASE ReadServed(r)
        BY <4>1, <4>2, ReadsKeep, NamedStays DEF Keeps
      <4>3. CASE \E pc \in {"ledger_run", "put_pointer"} : Go(r, pc)
        BY <4>1, <4>3, GoKeeps, NamedStays DEF Keeps
      <4> QED
        BY <3>2, <4>2, <4>3 DEF ServeRun, PutDoc, PutPointer, Go
    <3>3. CASE (PutDoc(r) \/ PutPointer(r)) /\ req[r].op # "serve"
      <4>1. \E pc \in {"put_pointer", "push"} : Go(r, pc)
        BY <3>3 DEF PutDoc, PutPointer, Go
      <4> QED
        BY <3>3, <4>1, GoKeeps DEF Keeps, Named
    <3>4. CASE ReadMap(r) \/ LockRuns(r) \/ ListRuns(r) \/ ListFlagged(r) \/ FlagRun(r)
      <4>1. /\ req'[r].pc \in {"put_map", "lock_runs", "write", "put_doc", "flag", "answered"}
            /\ req'[r].op = req[r].op /\ (req'[r].pc = "put_doc" => req[r].op = "import")
        BY <3>4, ReadsKeep, FlagsKeep DEF Keeps, LockRuns, TypeInv, WellFormed, StandsAt
      <4> QED
        BY <4>1 DEF Named
    <3>5. CASE DeleteDoc(r) \/ DropDoc(r) \/ DropPointer(r) \/ PutMap(r) \/ DropMap(r)
               \/ LedgerMap(r) \/ LedgerRevert(r) \/ LedgerMapRevert(r)
      <4>1. CASE \E pc \in {"ledger_revert", "drop_pointer", "ledger_map", "ledger_map_revert",
                            "lock_runs"} : Go(r, pc)
        BY <4>1, GoKeeps DEF Named
      <4>2. CASE req' = [req EXCEPT ![r] = Over(req[r], "answered")]
        BY <4>2, OverKeeps DEF Named
      <4>3. CASE DeleteDoc(r) \/ DropDoc(r) \/ DropPointer(r) \/ PutMap(r) \/ DropMap(r)
        BY <4>1, <4>3 DEF DeleteDoc, DropDoc, DropPointer, PutMap, DropMap, Go
      <4>4. CASE LedgerMap(r) \/ LedgerRevert(r) \/ LedgerMapRevert(r)
        BY <4>1, <4>2, <4>4 DEF LedgerMap, LedgerRevert, LedgerMapRevert, LedgerLast
      <4> QED
        BY <3>5, <4>3, <4>4
    <3> QED
      BY <1>4, <3>1, <3>2, <3>3, <3>4, <3>5 DEF Work
  <2> QED
    BY <1>1, <2>1, <2>2, <2>3, QuietLedger DEF Owes
<1> QED
  BY <1>2, <1>3, <1>4

LEMMA StepLedger == LedgerInv /\ [Next]_vars => LedgerInv'
<1> SUFFICES ASSUME LedgerInv, [Next]_vars PROVE LedgerInv'
  OBVIOUS
<1>1. HistoryInv /\ HistoryInv' /\ TypeInv
  BY StepHistory DEF LedgerInv, HistoryInv
<1>2. CASE UNCHANGED vars
  BY <1>1, <1>2 DEF vars, store, LedgerInv, RunsAreLedgered, Accounts, Named, Owes, Find, Entered
<1>3. ASSUME NEW r \in Requests, Asks(r) PROVE LedgerInv'
  <2>1. ~Named(r)' /\ ~Owes(r, "ledger_run")
    BY <1>1, <1>3, AskBegins DEF Arrived, Named, Owes
  <2> QED
    BY <1>1, <1>3, <2>1, AskBegins, QuietLedger DEF store
<1>4. ASSUME NEW r \in Requests, Abandon(r) PROVE LedgerInv'
  <2>1. ~Named(r)' /\ (Owes(r, "ledger_run") => Owes(r, "ledger_run")')
    BY <1>1, <1>4, DropKeeps DEF Named, Owes
  <2> QED
    BY <1>1, <1>4, <2>1, DropKeeps, QuietLedger
<1> QED
  BY <1>2, <1>3, <1>4, WorkLedger DEF Next, Asks

(* Every run of the history is on the ledger once, by the request that     *)
(* imported it, or owed by it; no entry names a run the history does not   *)
(* have.                                                                   *)
THEOREM RunsLedgered == Spec => []RunsAreLedgered
<1>1. LedgerInv => RunsAreLedgered
  BY DEF LedgerInv
<1> QED
  BY InitLedger, StepLedger, <1>1, PTL DEF Spec
-----------------------------------------------------------------------------
(* The maps and the ledger.                                                *)

(* What is on the ledger stays on it.                                      *)
LEMMA LedgerGrows ==
  ASSUME TypeInv, [Next]_vars, NEW n \in DOMAIN ledger
  PROVE  n \in DOMAIN ledger' /\ ledger'[n] = ledger[n]
<1>1. CASE UNCHANGED ledger
  BY <1>1
<1>2. CASE \E r \in Requests, action \in Actions : AppendAudit(r, action)
  <2>1. PICK e \in Entries : ledger' = Append(ledger, e)
    BY <1>2, AppendedEntry
  <2> QED
    BY <2>1 DEF TypeInv
<1>3. CASE ~ UNCHANGED ledger
  <2>1. PICK r \in Requests : LedgerMap(r) \/ LedgerRun(r) \/ LedgerRevert(r) \/ LedgerMapRevert(r)
    BY <1>3 DEF Next, vars, store, Work, AskImport, AskServe, AskRevert, AskList, AskMap,
       AskMapRevert, Ask, ReadMap, FindRun, ReadServed, LockRuns, WriteRun, PutDoc, PutPointer,
       Push, ServeRun, LookUpRun, DeleteDoc, DropDoc, DropPointer, PutMap, DropMap,
       ListFlagged, ListRuns, FlagRun, Abandon
  <2> QED
    BY <1>2, <2>1 DEF LedgerMap, LedgerRun, LedgerRevert, LedgerMapRevert, LedgerLast, Actions
<1> QED
  BY <1>1, <1>2, <1>3

(* A handler that owes a map's entry makes it, or is dropped and owes it.  *)
LEMMA OweStays ==
  ASSUME TypeInv, [Next]_vars, NEW r \in Requests, Owes(r, "ledger_map")
  PROVE  \/ Owes(r, "ledger_map")' /\ req'[r].map = req[r].map
         \/ \E n \in Entered("MAP_REPLACED", r)' : ledger'[n].map = req[r].map
<1>1. CASE UNCHANGED req[r]
  BY <1>1 DEF Owes
<1>2. CASE LedgerMap(r)
  <2>1. "MAP_REPLACED" \in Actions
    BY DEF Actions
  <2>2. PICK e \in Entries : /\ ledger' = Append(ledger, e) /\ e.action = "MAP_REPLACED"
                             /\ e.by = r /\ e.map = req[r].map
    BY <1>2, <2>1, AppendedEntry DEF LedgerMap
  <2>3. /\ Len(ledger) + 1 \in Entered("MAP_REPLACED", r)'
        /\ ledger'[Len(ledger) + 1] = e
    BY <2>1, <2>2, EntryAppended DEF TypeInv
  <2> QED
    BY <2>2, <2>3
<1>3. CASE Abandon(r)
  BY <1>3, DropKeeps DEF Owes
<1>4. req[r].pc \in {"ledger_map", "abandoned"}
  BY DEF Owes
<1>5. CASE ~ UNCHANGED req[r]
  <2>1. PICK q \in Requests : Asks(q) \/ Work(q) \/ Abandon(q)
    BY <1>5 DEF Next, vars, Asks
  <2>2. q = r
    BY <1>5, <2>1, AskBegins, OthersWait
  <2>3. ~ Asks(r)
    BY <1>4, AskBegins
  <2>4. Work(r) => LedgerMap(r)
    BY <1>4 DEF Work, ReadMap, FindRun, ReadServed, LockRuns, WriteRun, PutDoc, PutPointer, Push,
       ServeRun, LookUpRun, DeleteDoc, DropDoc, DropPointer, PutMap, DropMap,
       LedgerRun, LedgerRevert, LedgerMapRevert, LedgerLast, ListFlagged, ListRuns, FlagRun
  <2> QED
    BY <1>2, <1>3, <2>1, <2>2, <2>3, <2>4
<1> QED
  BY <1>1, <1>5

LEMMA AccountStays ==
  ASSUME TypeInv, [Next]_vars, NEW map \in MapDocs, MapIsAccountedFor(map)
  PROVE  MapIsAccountedFor(map)'
<1> SUFFICES ASSUME map # Default PROVE MapIsAccountedFor(map)'
  BY DEF MapIsAccountedFor
<1>1. PICK r \in Requests : \/ Owes(r, "ledger_map") /\ req[r].map = map
                            \/ \E n \in Entered("MAP_REPLACED", r) : ledger[n].map = map
  BY DEF MapIsAccountedFor
<1>2. CASE Owes(r, "ledger_map") /\ req[r].map = map
  BY <1>2, OweStays DEF MapIsAccountedFor
<1>3. CASE \E n \in Entered("MAP_REPLACED", r) : ledger[n].map = map
  <2>1. PICK n \in DOMAIN ledger :
          ledger[n].action = "MAP_REPLACED" /\ ledger[n].by = r /\ ledger[n].map = map
    BY <1>3 DEF Entered
  <2>2. n \in Entered("MAP_REPLACED", r)' /\ ledger'[n].map = map
    BY <2>1, LedgerGrows DEF Entered
  <2> QED
    BY <2>2 DEF MapIsAccountedFor
<1> QED
  BY <1>1, <1>2, <1>3

(* The map of a handler that is about to record a run: it had it already,  *)
(* it read the one in effect, or it has just put it on the ledger.         *)
LEMMA ReadStays ==
  ASSUME MapInv, [Next]_vars, NEW r \in Requests, Asks(r) \/ Work(r) \/ Abandon(r)
  PROVE  MapRead(r)'
<1>1. TypeInv
  BY DEF MapInv, HistoryInv
<1> DEFINE Ready == req'[r].pc = "lock_runs" \/ Writing(r)'
<1>2. CASE ReadMap(r)
  <2>1. req'[r].pc = "lock_runs" => req'[r].map = fieldMap.map
    BY <1>1, <1>2 DEF ReadMap, TypeInv, Handlers
  <2>2. req'[r].pc \in {"put_map", "lock_runs"}
    BY <1>1, <1>2, ReadsKeep
  <2>3. fieldMap.map \in MapDocs /\ MapIsAccountedFor(fieldMap.map)
    BY DEF MapInv, MapsAreLedgered, HistoryInv, TypeInv
  <2>4. \A map \in MapDocs : map = fieldMap.map => MapIsAccountedFor(map)'
    BY <1>1, <2>3, AccountStays DEF MapIsAccountedFor
  <2>5. req'[r].pc = "lock_runs" => MapIsAccountedFor(req[r].map)'
    BY <2>1, <2>3, <2>4 DEF MapIsAccountedFor
  <2> QED
    BY <2>2, <2>5 DEF MapRead, Writing
<1>3. CASE LedgerMap(r)
  <2>1. Owes(r, "ledger_map") /\ req[r].map \in MapDocs /\ req[r].map = req[r].map
    BY <1>1, <1>3 DEF LedgerMap, Owes, TypeInv, Handlers
  <2>2. \A map \in MapDocs : map = req[r].map => MapIsAccountedFor(map)'
    BY <1>1, <2>1, AccountStays DEF MapIsAccountedFor
  <2>3. CASE Go(r, "lock_runs")
    <3>1. req'[r].map = req[r].map
      BY <1>1, <2>3, GoKeeps
    <3>2. MapIsAccountedFor(req[r].map)'
      BY <2>1, <2>2, <3>1 DEF MapIsAccountedFor
    <3> QED
      BY <3>2 DEF MapRead
  <2>4. CASE req' = [req EXCEPT ![r] = Over(req[r], "answered")]
    BY <1>1, <2>4, OverKeeps DEF MapRead, Writing
  <2> QED
    BY <1>3, <2>3, <2>4 DEF LedgerMap
<1>4. CASE LockRuns(r) \/ ((PutDoc(r) \/ PutPointer(r)) /\ req[r].op = "import")
  <2>1. MapIsAccountedFor(req[r].map) /\ req[r].map \in MapDocs
    BY <1>4, <1>1 DEF MapInv, MapRead, Writing, LockRuns, PutDoc, PutPointer, TypeInv, Handlers
  <2>2. req'[r].map = req[r].map
    <3>1. CASE LockRuns(r)
      BY <1>1, <3>1, ReadsKeep
    <3>2. CASE \E pc \in PCs : Go(r, pc)
      BY <1>1, <3>2, GoKeeps
    <3> QED
      BY <1>4, <3>1, <3>2 DEF PutDoc, PutPointer, Go
  <2>3. \A map \in MapDocs : map = req[r].map => MapIsAccountedFor(map)'
    BY <1>1, <2>1, AccountStays DEF MapIsAccountedFor
  <2>4. MapIsAccountedFor(req[r].map)'
    BY <2>1, <2>2, <2>3 DEF MapIsAccountedFor
  <2> QED
    BY <2>4 DEF MapRead
<1>5. CASE /\ ~(ReadMap(r) \/ LedgerMap(r) \/ LockRuns(r))
           /\ ~((PutDoc(r) \/ PutPointer(r)) /\ req[r].op = "import")
  <2>1. ~ Ready
    <3>1. CASE \E pc \in {"ledger_run", "ledger_revert", "drop_pointer", "ledger_map",
                          "ledger_map_revert", "read_served"} : Go(r, pc)
      BY <1>1, <3>1, GoKeeps DEF Writing
    <3>2. CASE \E pc \in {"answered", "refused"} : req' = [req EXCEPT ![r] = Over(req[r], pc)]
      BY <1>1, <3>2, OverKeeps DEF Writing
    <3>3. CASE ReadServed(r) \/ ListRuns(r) \/ ListFlagged(r) \/ FlagRun(r)
      BY <1>1, <3>3, ReadsKeep, FlagsKeep DEF Writing
    <3>4. CASE \E pc \in {"put_doc", "put_pointer"} : Go(r, pc) /\ req[r].op # "import"
      BY <1>1, <3>4, GoKeeps DEF Keeps, Writing
    <3>5. CASE Asks(r)
      BY <1>1, <3>5, AskBegins DEF Arrived, Writing
    <3>6. CASE Abandon(r)
      BY <1>1, <3>6, DropKeeps DEF Writing
    <3>7. CASE FindRun(r) \/ LookUpRun(r)
      <4>1. req[r].op = "serve"
        BY <1>1, <3>7 DEF FindRun, LookUpRun, TypeInv, WellFormed, StandsAt
      <4> QED
        BY <3>1, <3>2, <3>4, <3>7, <4>1 DEF FindRun, LookUpRun, Go
    <3>8. CASE (PutDoc(r) \/ PutPointer(r)) /\ req[r].op # "import"
      <4>1. req[r].op = "serve"
        BY <1>1, <3>8 DEF PutDoc, PutPointer, TypeInv, WellFormed, StandsAt
      <4> QED
        BY <3>1, <3>4, <3>8, <4>1 DEF PutDoc, PutPointer, Go
    <3>9. CASE WriteRun(r) \/ Push(r) \/ ServeRun(r) \/ DeleteDoc(r) \/ DropDoc(r) \/ DropPointer(r)
               \/ PutMap(r) \/ DropMap(r)
      BY <3>1, <3>9 DEF WriteRun, Push, ServeRun, DeleteDoc, DropDoc, DropPointer, PutMap, DropMap, Go
    <3>10. CASE LedgerRun(r) \/ LedgerRevert(r) \/ LedgerMapRevert(r)
      BY <3>2, <3>10 DEF LedgerRun, LedgerRevert, LedgerMapRevert, LedgerLast
    <3> HIDE DEF Ready
    <3> QED
      BY <1>5, <3>3, <3>5, <3>6, <3>7, <3>8, <3>9, <3>10 DEF Work
  <2> QED
    BY <2>1 DEF MapRead
<1> QED
  BY <1>2, <1>3, <1>4, <1>5

(* The map in effect after a step is the one before it, the default, or    *)
(* one whose author owes the entry.                                        *)
LEMMA EffectStays ==
  ASSUME MapInv, [Next]_vars PROVE MapIsAccountedFor(fieldMap.map)'
<1>1. TypeInv /\ fieldMap.map \in MapDocs /\ MapIsAccountedFor(fieldMap.map)
  BY DEF MapInv, MapsAreLedgered, HistoryInv, TypeInv
<1>2. CASE UNCHANGED fieldMap
  <2>1. \A map \in MapDocs : map = fieldMap.map => MapIsAccountedFor(map)'
    BY <1>1, AccountStays DEF MapIsAccountedFor
  <2> QED
    BY <1>1, <1>2, <2>1 DEF MapIsAccountedFor
<1>3. CASE \E r \in Requests : PutMap(r)
  <2>1. PICK r \in Requests : PutMap(r)
    BY <1>3
  <2>2. req'[r].pc = "ledger_map" /\ req'[r].map = req[r].map /\ fieldMap'.map = req[r].map
    BY <1>1, <2>1, GoKeeps DEF PutMap
  <2> QED
    BY <2>2 DEF MapIsAccountedFor, Owes
<1>4. CASE \E r \in Requests : DropMap(r)
  BY <1>4 DEF DropMap, MapIsAccountedFor
<1>5. CASE ~ UNCHANGED fieldMap
  BY <1>3, <1>4, <1>5 DEF Next, vars, store, Work, AskImport, AskServe, AskRevert, AskList, AskMap,
     AskMapRevert, Ask, ReadMap, FindRun, ReadServed, LockRuns, WriteRun, PutDoc, PutPointer,
     Push, ServeRun, LookUpRun, DeleteDoc, DropDoc, DropPointer, LedgerMap,
     LedgerRun, LedgerRevert, LedgerMapRevert, LedgerLast, ListFlagged, ListRuns, FlagRun, Abandon
<1> QED
  BY <1>2, <1>5

(* So is each map of the history: a run is recorded with its author's.     *)
LEMMA HistoryMapsStay ==
  ASSUME MapInv, [Next]_vars, NEW i \in DOMAIN runs'
  PROVE  MapIsAccountedFor(runs[i].map)'
<1>1. TypeInv
  BY DEF MapInv, HistoryInv
<1>2. PICK map \in MapDocs : runs'[i].map = map /\ MapIsAccountedFor(map)
  <2>1. CASE i \in DOMAIN runs
    <3>1. runs[i].map \in MapDocs
      <4>1. runs[i] \in Runs
        BY <1>1, <2>1 DEF TypeInv
      <4> QED
        BY <4>1 DEF Runs
    <3>2. MapIsAccountedFor(runs[i].map)
      BY <2>1 DEF MapInv, MapsAreLedgered
    <3> QED
      BY <1>1, <2>1, <3>1, <3>2, RunsStay
  <2>2. CASE i \notin DOMAIN runs
    <3>1. runs' # runs
      BY <2>2
    <3>2. PICK r \in Requests : WriteRun(r) \/ Push(r)
      BY <3>1 DEF Next, vars, store, Work, AskImport, AskServe, AskRevert, AskList, AskMap,
         AskMapRevert, Ask, ReadMap, FindRun, ReadServed, LockRuns, PutDoc, PutPointer, ServeRun,
         LookUpRun, DeleteDoc, DropDoc, DropPointer, PutMap, DropMap, LedgerMap,
         LedgerRun, LedgerRevert, LedgerMapRevert, LedgerLast, ListFlagged, ListRuns, FlagRun, Abandon
    <3>3. i = Len(runs) + 1 /\ runs'[i].map = req[r].map
      BY <1>1, <2>2, <3>2, Recording DEF TypeInv
    <3>4. req[r].map \in MapDocs /\ MapIsAccountedFor(req[r].map)
      BY <1>1, <3>2 DEF TypeInv, Handlers, MapInv, MapRead, Writing, WriteRun, Push
    <3> QED
      BY <3>3, <3>4
  <2> QED
    BY <2>1, <2>2
<1>3. MapIsAccountedFor(map)'
  BY <1>1, <1>2, AccountStays
<1> QED
  BY <1>2, <1>3 DEF MapIsAccountedFor

LEMMA StepMaps == MapInv /\ [Next]_vars => MapInv'
<1> SUFFICES ASSUME MapInv, [Next]_vars PROVE MapInv'
  OBVIOUS
<1>1. HistoryInv' /\ TypeInv
  BY StepHistory DEF MapInv, HistoryInv
<1>2. MapsAreLedgered'
  BY EffectStays, HistoryMapsStay DEF MapsAreLedgered
<1>3. ASSUME NEW r \in Requests PROVE MapRead(r)'
  <2>1. CASE UNCHANGED req[r]
    <3>1. CASE req[r].pc = "lock_runs" \/ Writing(r)
      <4>1. req[r].map \in MapDocs /\ MapIsAccountedFor(req[r].map)
        BY <1>1, <3>1 DEF TypeInv, Handlers, MapInv, MapRead
      <4>2. \A map \in MapDocs : map = req[r].map => MapIsAccountedFor(map)'
        BY <1>1, <4>1, AccountStays DEF MapIsAccountedFor
      <4>3. MapIsAccountedFor(req[r].map)'
        BY <2>1, <4>1, <4>2 DEF MapIsAccountedFor
      <4> QED
        BY <4>3 DEF MapRead
    <3>2. CASE ~(req[r].pc = "lock_runs" \/ Writing(r))
      BY <2>1, <3>2 DEF MapRead, Writing
    <3> QED
      BY <3>1, <3>2
  <2>2. CASE ~ UNCHANGED req[r]
    <3>1. PICK q \in Requests : Asks(q) \/ Work(q) \/ Abandon(q)
      BY <2>2 DEF Next, vars, Asks
    <3>2. q = r
      BY <1>1, <2>2, <3>1, AskBegins, OthersWait
    <3> QED
      BY <3>1, <3>2, ReadStays
  <2> QED
    BY <2>1, <2>2
<1> QED
  BY <1>1, <1>2, <1>3 DEF MapInv

LEMMA InitMaps == Init => MapInv
<1> SUFFICES ASSUME Init PROVE MapInv
  OBVIOUS
<1>1. HistoryInv
  BY InitHistory
<1>2. fieldMap.map = Default /\ \A i \in DOMAIN runs : runs[i].map = Default
  BY DEF Init, BootRun
<1>3. \A r \in Requests : req[r].pc = "idle"
  BY IdleFields DEF Init
<1> QED
  BY <1>1, <1>2, <1>3 DEF MapInv, MapsAreLedgered, MapIsAccountedFor, MapRead, Writing

(* A field map in effect, and a map any run of the history was read with,  *)
(* is on the ledger, or owed by the request that stored it.                *)
THEOREM MapsLedgered == Spec => []MapsAreLedgered
<1>1. MapInv => MapsAreLedgered
  BY DEF MapInv
<1> QED
  BY InitMaps, StepMaps, <1>1, PTL DEF Spec
-----------------------------------------------------------------------------
(* The schedule of record and the served pointer.                          *)

(* Where a handler's step can lead, and what it makes of its flags.        *)
LEMMA Moves ==
  ASSUME TypeInv, NEW r \in Requests, Asks(r) \/ Work(r) \/ Abandon(r)
  PROVE  /\ req'[r].pc = "put_pointer" => PutDoc(r)
         /\ req'[r].pc = "list" => Asks(r)
         /\ req'[r].pc = "flag" => ListRuns(r) \/ FlagRun(r)
         /\ \/ req'[r].flagged = {} \/ req'[r].flagged = req[r].flagged
            \/ ListFlagged(r) \/ FlagRun(r)
<1> DEFINE Plain == /\ req'[r].pc \notin {"put_pointer", "list", "flag"}
                    /\ req'[r].flagged = req[r].flagged
<1>1. CASE \E pc \in PCs \ {"put_pointer", "list", "flag"} : Go(r, pc)
  BY <1>1, GoKeeps DEF Keeps
<1>2. CASE \E pc \in {"answered", "refused"} : req' = [req EXCEPT ![r] = Over(req[r], pc)]
  BY <1>2, OverKeeps
<1>3. CASE ReadMap(r) \/ ReadServed(r) \/ LockRuns(r) \/ ListRuns(r)
  BY <1>3, ReadsKeep DEF Keeps
<1>4. CASE ListFlagged(r) \/ FlagRun(r)
  BY <1>4, FlagsKeep
<1>5. CASE PutDoc(r)
  BY <1>5, GoKeeps DEF PutDoc, Keeps
<1>6. CASE Asks(r)
  BY <1>6, AskBegins DEF Arrived
<1>7. CASE Abandon(r)
  BY <1>7, DropKeeps DEF Keeps
<1>8. CASE FindRun(r) \/ LookUpRun(r)
  BY <1>1, <1>2, <1>8 DEF FindRun, LookUpRun, Go
<1>9. CASE WriteRun(r) \/ PutPointer(r) \/ Push(r) \/ ServeRun(r) \/ DeleteDoc(r) \/ DropDoc(r)
           \/ DropPointer(r) \/ PutMap(r) \/ DropMap(r)
  BY <1>1, <1>9 DEF WriteRun, PutPointer, Push, ServeRun, DeleteDoc, DropDoc, DropPointer,
     PutMap, DropMap, Go
<1>10. CASE LedgerMap(r) \/ LedgerRun(r) \/ LedgerRevert(r) \/ LedgerMapRevert(r)
  BY <1>1, <1>2, <1>10 DEF LedgerMap, LedgerRun, LedgerRevert, LedgerMapRevert, LedgerLast
<1> HIDE DEF Plain
<1> QED
  BY <1>3, <1>4, <1>5, <1>6, <1>7, <1>8, <1>9, <1>10 DEF Work

(* The schedule of record is written by these.                             *)
LEMMA ScheduleStays ==
  ASSUME NEW r \in Requests, Asks(r) \/ Work(r) \/ Abandon(r),
         ~(WriteRun(r) \/ PutDoc(r) \/ PutPointer(r) \/ ServeRun(r) \/ DeleteDoc(r)),
         ~(DropDoc(r) \/ DropPointer(r))
  PROVE  UNCHANGED <<sor, ptr>>
BY DEF Asks, Work, store, AskImport, AskServe, AskRevert, AskList, AskMap, AskMapRevert, Ask,
       ReadMap, FindRun, ReadServed, LockRuns, Push, LookUpRun, PutMap, DropMap, LedgerMap,
       LedgerRun, LedgerRevert, LedgerMapRevert, LedgerLast, ListFlagged, ListRuns, FlagRun, Abandon

(* Over PostgreSQL the pointer moves with the document.                    *)
LEMMA PgFollows ==
  ASSUME TypeInv, NEW r \in Requests, Asks(r) \/ Work(r) \/ Abandon(r),
         backend = "postgres", Follows, \A q \in Requests : OneFlag(q)
  PROVE  Follows' /\ \A q \in Requests : OneFlag(q)'
<1>1. req[r] \in Handlers /\ WellFormed(req[r], r, Len(runs)) /\ runs \in Seq(Runs)
  BY DEF TypeInv
<1>2. ~(PutDoc(r) \/ PutPointer(r) \/ DropDoc(r) \/ DropPointer(r) \/ FlagRun(r))
  BY <1>1 DEF WellFormed, StandsAt, PutDoc, PutPointer, DropDoc, DropPointer, FlagRun
<1>3. Follows'
  <2>1. CASE WriteRun(r) \/ ServeRun(r)
    <3>1. req[r].run \in Ids
      BY <1>1, <2>1 DEF WriteRun, ServeRun, WellFormed, StandsAt
    <3> QED
      BY <2>1, <3>1 DEF WriteRun, ServeRun, Follows
  <2>2. CASE DeleteDoc(r)
    BY <2>2 DEF DeleteDoc, Follows
  <2>3. CASE ~(WriteRun(r) \/ ServeRun(r) \/ DeleteDoc(r))
    BY <1>2, <2>3, ScheduleStays DEF Follows
  <2> QED
    BY <2>1, <2>2, <2>3
<1>4. OneFlag(r)'
  <2>1. CASE ListFlagged(r)
    <3>1. req'[r].flagged = {runs[i].id : i \in Find(ptr)}
      BY <2>1, FlagsKeep
    <3>2. req'[r].flagged = {} \/ req'[r].flagged = {ptr}
      BY <3>1 DEF Find
    <3>3. req'[r].flagged \subseteq Ids
      <4>1. \A i \in DOMAIN runs : runs[i] \in Runs
        BY <1>1
      <4> QED
        BY <3>1, <4>1 DEF Find, Runs
    <3> QED
      BY <3>2, <3>3 DEF OneFlag
  <2>2. CASE ~ListFlagged(r)
    BY <1>2, <2>2, Moves DEF OneFlag
  <2> QED
    BY <2>1, <2>2
<1>5. \A q \in Requests : q # r => req'[q] = req[q]
  BY AskBegins, OthersWait
<1> QED
  BY <1>3, <1>4, <1>5 DEF OneFlag

(* In memory, what a serve or a revert has begun to write stays begun, and *)
(* then its entry tells.                                                   *)
LEMMA DisturbedStays ==
  ASSUME LedgerInv, [Next]_vars, backend = "memory", Undisturbed'
  PROVE  Undisturbed
<1>1. HistoryInv /\ TypeInv
  BY DEF LedgerInv, HistoryInv
<1>2. \A n \in DOMAIN ledger :
        /\ ledger[n].action # "SCHEDULE_REVERTED"
        /\ ledger[n].action = "SCHEDULE_REPLACED" => ledger[n].run = ledger[n].by
  BY <1>1, LedgerGrows DEF Undisturbed
<1>3. ASSUME NEW r \in Requests,
             \/ req[r].op = "serve" /\ req[r].pc \notin {"find_run", "read_served", "serve", "put_doc"}
             \/ req[r].op = "revert" /\ req[r].pc # "drop"
      PROVE  FALSE
  <2>1. req[r].pc \in PCs /\ WellFormed(req[r], r, Len(runs))
    BY <1>1 DEF TypeInv, Handlers
  <2>2. CASE UNCHANGED req[r]
    BY <1>3, <2>2 DEF Undisturbed
  <2>3. CASE PutPointer(r) \/ DropPointer(r)
    <3>1. PICK pc \in {"ledger_run", "ledger_revert"} : Go(r, pc)
      BY <1>3, <2>1, <2>3 DEF PutPointer, DropPointer, Go, WellFormed, StandsAt
    <3>2. req'[r].op = req[r].op /\ req'[r].pc = pc
      BY <1>1, <3>1, GoKeeps DEF Keeps
    <3> QED
      BY <1>3, <3>1, <3>2 DEF Undisturbed
  <2>4. CASE LedgerRun(r) /\ req[r].op = "serve"
    <3>1. req[r].run # r
      BY <2>4 DEF LedgerInv, Accounts, Named, HistoryInv, Order, Stands, StandsAt, LedgerRun, LedgerLast
    <3>2. "SCHEDULE_REPLACED" \in Actions
      BY DEF Actions
    <3>3. PICK e \in Entries : /\ ledger' = Append(ledger, e) /\ e.action = "SCHEDULE_REPLACED"
                               /\ e.by = r /\ e.run = req[r].run
      BY <1>1, <2>4, <3>2, AppendedEntry DEF LedgerRun, LedgerLast
    <3>4. Len(ledger) + 1 \in DOMAIN ledger' /\ ledger'[Len(ledger) + 1] = e
      BY <1>1, <3>3, EntryAppended DEF TypeInv
    <3> QED
      BY <3>1, <3>3, <3>4 DEF Undisturbed
  <2>5. CASE LedgerRevert(r)
    <3>1. "SCHEDULE_REVERTED" \in Actions
      BY DEF Actions
    <3>2. PICK e \in Entries : ledger' = Append(ledger, e) /\ e.action = "SCHEDULE_REVERTED"
      BY <1>1, <2>5, <3>1, AppendedEntry DEF LedgerRevert, LedgerLast
    <3>3. Len(ledger) + 1 \in DOMAIN ledger' /\ ledger'[Len(ledger) + 1] = e
      BY <1>1, <3>2, EntryAppended DEF TypeInv
    <3> QED
      BY <3>2, <3>3 DEF Undisturbed
  <2>6. CASE ~ UNCHANGED req[r]
    <3>1. PICK q \in Requests : Asks(q) \/ Work(q) \/ Abandon(q)
      BY <2>6 DEF Next, vars, Asks
    <3>2. q = r
      BY <1>1, <2>6, <3>1, AskBegins, OthersWait
    <3>3. ~Asks(r) /\ ~Abandon(r)
      BY <1>1, <1>3, <2>1, AskBegins DEF Abandon, WellFormed
    <3>4. CASE req[r].op = "serve"
      BY <1>3, <2>1, <2>3, <2>4, <3>1, <3>2, <3>3, <3>4
         DEF WellFormed, StandsAt, Work, ReadMap, FindRun, ReadServed, LockRuns, WriteRun, PutDoc,
         Push, ServeRun, LookUpRun, DeleteDoc, DropDoc, DropPointer, PutMap, DropMap, LedgerMap,
         LedgerRevert, LedgerMapRevert, LedgerLast, ListFlagged, ListRuns, FlagRun
    <3>5. CASE req[r].op = "revert"
      BY <1>3, <2>1, <2>3, <2>5, <3>1, <3>2, <3>3, <3>5
         DEF WellFormed, StandsAt, Work, ReadMap, FindRun, ReadServed, LockRuns, WriteRun, PutDoc,
         PutPointer, Push, ServeRun, LookUpRun, DeleteDoc, DropDoc, PutMap, DropMap, LedgerMap,
         LedgerRun, LedgerMapRevert, LedgerLast, ListFlagged, ListRuns, FlagRun
    <3> QED
      BY <1>3, <3>4, <3>5
  <2> QED
    BY <2>2, <2>6
<1> QED
  BY <1>2, <1>3 DEF Undisturbed

LEMMA MemoryStep ==
  ASSUME LedgerInv, LedgerInv', [Next]_vars, backend = "memory", Undisturbed, Undisturbed',
         MemoryFollows, NEW r \in Requests, Asks(r) \/ Work(r) \/ Abandon(r)
  PROVE  MemoryFollows'
<1>1. /\ HistoryInv /\ TypeInv /\ req[r] \in Handlers /\ WellFormed(req[r], r, Len(runs))
      /\ TypeInv' /\ runs \in Seq(Runs) /\ Len(runs) \in Nat
  BY DEF LedgerInv, HistoryInv, TypeInv
<1>2. \A q \in Requests : q # r => req'[q] = req[q]
  BY <1>1, AskBegins, OthersWait
(* Who is at a write is an import, and holds the lock alone.               *)
<1>3. \A q \in Requests : req[q].pc = "put_pointer" => Writing(q) /\ lock = q
  <2>1. ASSUME NEW q \in Requests, req[q].pc = "put_pointer"
        PROVE  Writing(q) /\ lock = q
    <3>1. req[q].op = "import"
      BY <1>1, <2>1 DEF TypeInv, WellFormed, StandsAt, Undisturbed
    <3> QED
      BY <1>1, <2>1, <3>1 DEF Writing, HistoryInv, Order
  <2> QED
    BY <2>1
<1>4. CASE PutDoc(r)
  <2>1. Keeps(r) /\ req'[r].pc = "put_pointer"
    BY <1>1, <1>4, GoKeeps DEF PutDoc
  <2>2. req[r].op = "import" /\ req[r].run = r
    BY <1>1, <1>4, <2>1 DEF Keeps, Undisturbed, PutDoc, WellFormed, StandsAt
  <2>3. lock = r
    BY <1>1, <1>4, <2>2 DEF PutDoc, Writing, HistoryInv, Order
  <2>4. \A q \in Requests : req'[q].pc = "put_pointer" => q = r
    BY <1>2, <1>3, <2>3
  <2>5. sor' = r
    BY <1>4, <2>2 DEF PutDoc
  <2>6. \A q \in Requests : Listing(q)'
    <3>1. UNCHANGED <<runs, ptr>>
      BY <1>4 DEF PutDoc
    <3>2. Listing(r)'
      BY <2>1 DEF MemoryFollows, Listing, OneFlag, Keeps
    <3> QED
      BY <1>2, <3>1, <3>2 DEF MemoryFollows, Listing, OneFlag
  <2> QED
    BY <2>1, <2>4, <2>5, <2>6 DEF MemoryFollows
<1>5. CASE PutPointer(r)
  <2>1. req[r].op = "import" /\ req[r].run = r /\ req[r].pc = "put_pointer"
    BY <1>1, <1>5 DEF PutPointer, WellFormed, StandsAt, Undisturbed
  <2>2. Go(r, "push")
    BY <1>5, <2>1 DEF PutPointer, Go
  <2>3. Keeps(r) /\ req'[r].pc = "push"
    BY <1>1, <2>2, GoKeeps
  <2>4. lock = r /\ sor = r /\ Find(r) = {}
    BY <1>1, <1>3, <2>1 DEF MemoryFollows, HistoryInv, Order, Stands, StandsAt
  <2>5. sor' = r /\ ptr' = r /\ runs' = runs
    BY <1>5, <2>1, <2>4 DEF PutPointer
  <2>6. \A q \in Requests : req'[q].pc # "put_pointer"
    BY <1>2, <1>3, <2>3, <2>4
  <2>7. \A q \in Requests : Listing(q)'
    <3>1. \A j \in 1..Len(runs) : runs[j].id # r
      BY <1>1, <2>4 DEF Find
    <3>2. \A q \in Requests : req[q].pc = "flag" => req[q].todo \in 1..Len(runs)
      BY <1>1 DEF TypeInv, WellFormed
    <3>3. Listing(r)'
      BY <2>3 DEF MemoryFollows, Listing, OneFlag, Keeps
    <3>4. ASSUME NEW q \in Requests, q # r PROVE Listing(q)'
      <4>1. req'[q] = req[q] /\ OneFlag(q) /\ (req[q].pc = "list" => req[q].flagged = {})
        BY <1>2, <3>4 DEF MemoryFollows, Listing
      <4>2. req[q].pc = "flag" => \A j \in 1..req[q].todo : j \in 1..Len(runs)
        BY <1>1, <3>2
      <4> QED
        BY <2>5, <3>1, <4>1, <4>2 DEF Listing, OneFlag
    <3> QED
      BY <3>3, <3>4
  <2> QED
    BY <2>5, <2>6, <2>7 DEF MemoryFollows, Follows
<1>6. CASE ~(PutDoc(r) \/ PutPointer(r))
  <2>1. UNCHANGED <<sor, ptr>>
    <3>1. ~(WriteRun(r) \/ ServeRun(r) \/ DeleteDoc(r) \/ DropPointer(r))
      BY <1>1 DEF WriteRun, ServeRun, DeleteDoc, DropPointer, WellFormed, StandsAt, Undisturbed
    <3>2. ~DropDoc(r)
      <4>1. SUFFICES ASSUME DropDoc(r) PROVE FALSE
        OBVIOUS
      <4>2. Keeps(r) /\ req'[r].pc = "drop_pointer" /\ req[r].op = "revert"
        BY <1>1, <4>1, GoKeeps DEF DropDoc, WellFormed, StandsAt
      <4> QED
        BY <4>2 DEF Keeps, Undisturbed
    <3> QED
      BY <1>6, <3>1, <3>2, ScheduleStays
  <2>2. req[r].pc # "put_pointer" /\ req'[r].pc # "put_pointer"
    <3>1. req'[r].pc # "put_pointer"
      BY <1>1, <1>6, Moves
    <3>2. ~Abandon(r)
      BY DEF Abandon
    <3>3. Asks(r) => req[r].pc = "idle"
      BY <1>1, AskBegins
    <3>4. Work(r) => req[r].pc # "put_pointer"
      BY <1>6 DEF Work, ReadMap, FindRun, ReadServed, LockRuns, WriteRun, Push, ServeRun,
         LookUpRun, DeleteDoc, DropDoc, DropPointer, PutMap, DropMap, LedgerMap, LedgerRun,
         LedgerRevert, LedgerMapRevert, LedgerLast, ListFlagged, ListRuns, FlagRun
    <3> QED
      BY <3>1, <3>2, <3>3, <3>4
  <2>3. ASSUME NEW j \in 1..Len(runs)
        PROVE  runs'[j].id = runs[j].id
    BY <1>1, RunsStay
  <2>4. ASSUME NEW q \in Requests, q # r PROVE Listing(q)'
    <3>1. req'[q] = req[q] /\ Listing(q)
      BY <1>2, <2>4 DEF MemoryFollows
    <3>2. req[q].pc = "flag" => req[q].todo \in 1..Len(runs)
      BY <1>1 DEF TypeInv, WellFormed
    <3>3. req[q].pc = "flag" => \A j \in 1..req[q].todo : runs'[j].id = runs[j].id
      BY <1>1, <2>3, <3>2
    <3> QED
      BY <2>1, <3>1, <3>3 DEF Listing, OneFlag
  <2>5. Listing(r)'
    <3>1. Listing(r) /\ ~ListFlagged(r)
      BY DEF MemoryFollows, ListFlagged
    <3>2. CASE FlagRun(r)
      <4> DEFINE t == req[r].todo
      <4>1. t \in 1..Len(runs) /\ req[r].pc = "flag" /\ runs' = runs
        BY <1>1, <3>2 DEF FlagRun, WellFormed, store
      <4>2. /\ req'[r].todo = t - 1 /\ req'[r].pc # "list"
            /\ req'[r].flagged = IF runs[t].id = ptr THEN req[r].flagged \cup {runs[t].id}
                                 ELSE req[r].flagged
        BY <1>1, <3>2, FlagsKeep
      <4>3. runs[t].id \in Ids /\ t \in Nat /\ 1 <= t
        <5>1. runs[t] \in Runs
          BY <1>1, <4>1
        <5> QED
          BY <1>1, <4>1, <5>1 DEF Runs
      <4>4. 1..(t - 1) \subseteq 1..t /\ t \in 1..t /\ t \notin 1..(t - 1)
        BY <4>3
      <4>5. CASE runs[t].id = ptr
        <5>1. req[r].flagged = {}
          BY <3>1, <4>1, <4>4, <4>5 DEF Listing
        <5>2. req'[r].flagged = {runs[t].id}
          BY <4>2, <4>5, <5>1
        <5>3. \A j \in 1..(t - 1) : j \in DOMAIN runs /\ j # t
          BY <1>1, <4>1, <4>4
        <5>4. Find(runs[t].id) = {t}
          BY <1>1, <4>1 DEF HistoryInv, HistoryIsNumbered
        <5>5. \A j \in 1..(t - 1) : runs[j].id # ptr
          BY <4>5, <5>3, <5>4 DEF Find
        <5> HIDE DEF t
        <5> QED
          BY <2>1, <4>1, <4>2, <4>3, <5>2, <5>5 DEF Listing, OneFlag
      <4>6. CASE runs[t].id # ptr
        <5>1. req'[r].flagged = req[r].flagged
          BY <4>2, <4>6
        <5> HIDE DEF t
        <5>2. req[r].flagged # {} => \A j \in 1..t : runs[j].id # ptr
          BY <3>1, <4>1 DEF Listing, t
        <5> QED
          BY <2>1, <3>1, <4>1, <4>2, <4>4, <5>1, <5>2 DEF Listing, OneFlag
      <4> QED
        BY <4>5, <4>6
    <3>3. CASE ListRuns(r)
      <4>1. req[r].flagged = {} /\ req'[r].flagged = req[r].flagged
        BY <1>1, <3>1, <3>3, ReadsKeep DEF Listing, ListRuns, Keeps
      <4> QED
        BY <4>1 DEF Listing, OneFlag
    <3>4. CASE ~(FlagRun(r) \/ ListRuns(r))
      <4>1. req'[r].pc # "flag" /\ OneFlag(r)'
        BY <1>1, <3>1, <3>4, Moves DEF Listing, OneFlag
      <4>2. req'[r].pc = "list" => req'[r].flagged = {}
        BY <1>1, Moves, AskBegins
      <4> QED
        BY <4>1, <4>2 DEF Listing
    <3> QED
      BY <3>2, <3>3, <3>4
  <2>6. (\A q \in Requests : req'[q].pc # "put_pointer") => Follows'
    BY <1>2, <2>1, <2>2 DEF MemoryFollows, Follows
  <2> QED
    BY <1>2, <2>1, <2>2, <2>4, <2>5, <2>6 DEF MemoryFollows
<1> QED
  BY <1>4, <1>5, <1>6

LEMMA StepPointer == PointerInv /\ [Next]_vars => PointerInv'
<1> SUFFICES ASSUME PointerInv, [Next]_vars PROVE PointerInv'
  OBVIOUS
<1>1. LedgerInv /\ LedgerInv' /\ TypeInv
  BY StepLedger DEF PointerInv, LedgerInv, HistoryInv
<1>2. CASE UNCHANGED vars
  BY <1>1, <1>2 DEF vars, store, PointerInv, Undisturbed, MemoryFollows, Follows, Listing, OneFlag
<1>3. ASSUME NEW r \in Requests, Asks(r) \/ Work(r) \/ Abandon(r) PROVE PointerInv'
  <2>1. UNCHANGED backend
    BY <1>3 DEF Asks, Work, store, AskImport, AskServe, AskRevert, AskList, AskMap, AskMapRevert,
       Ask, ReadMap, FindRun, ReadServed, LockRuns, WriteRun, PutDoc, PutPointer, Push, ServeRun,
       LookUpRun, DeleteDoc, DropDoc, DropPointer, PutMap, DropMap, LedgerMap, LedgerRun,
       LedgerRevert, LedgerMapRevert, LedgerLast, ListFlagged, ListRuns, FlagRun, Abandon
  <2>2. backend = "postgres" => Follows' /\ \A q \in Requests : OneFlag(q)'
    BY <1>1, <1>3, PgFollows DEF PointerInv
  <2>3. backend = "memory" /\ Undisturbed' => MemoryFollows'
    BY <1>1, <1>3, DisturbedStays, MemoryStep DEF PointerInv
  <2> QED
    BY <1>1, <2>1, <2>2, <2>3 DEF PointerInv
<1> QED
  BY <1>2, <1>3 DEF Next, Asks

LEMMA InitPointer == Init => PointerInv
<1> SUFFICES ASSUME Init PROVE PointerInv
  OBVIOUS
<1>1. LedgerInv
  BY InitLedger
<1>2. \A r \in Requests : req[r].pc = "idle" /\ req[r].flagged = {}
  BY IdleFields DEF Init
<1>3. Follows
  BY DEF Init, Follows
<1> QED
  BY <1>1, <1>2, <1>3 DEF PointerInv, MemoryFollows, Listing, OneFlag

(* Between a handler's writes aside, the pointer names the run whose       *)
(* document is served, and a listing flags one run at most: over           *)
(* PostgreSQL always, in memory while only imports write.                  *)
THEOREM PointerFollows == Spec => []PointerFollowsDoc
<1>1. PointerInv => PointerFollowsDoc
  <2> SUFFICES ASSUME PointerInv, backend = "postgres" \/ OnlyImports
               PROVE  /\ PointerNamesServedDoc
                      /\ \A r \in Requests : Cardinality(req[r].flagged) <= 1
    BY DEF PointerFollowsDoc
  <2>1. backend = "postgres" \/ (backend = "memory" /\ Undisturbed)
    BY DEF PointerInv, LedgerInv, HistoryInv, TypeInv, OnlyImports, Undisturbed
  <2>2. PointerNamesServedDoc
    BY <2>1 DEF PointerInv, MemoryFollows, Follows, PointerNamesServedDoc, BetweenWrites
  <2>3. ASSUME NEW r \in Requests PROVE Cardinality(req[r].flagged) <= 1
    <3>1. OneFlag(r)
      BY <2>1 DEF PointerInv, MemoryFollows, Listing
    <3>2. Cardinality({}) = 0 /\ \A id \in Ids : Cardinality({id}) = 1
      BY FS_EmptySet, FS_Singleton
    <3> QED
      BY <3>1, <3>2 DEF OneFlag
  <2> QED
    BY <2>2, <2>3
<1> QED
  BY InitPointer, StepPointer, <1>1, PTL DEF Spec
-----------------------------------------------------------------------------
(* The store over PostgreSQL and the register of runs.                     *)

HistoryIds == [i \in DOMAIN runs |-> runs[i].id]

LEMMA HistoryIdsSeq ==
  ASSUME TypeInv
  PROVE  HistoryIds \in Seq(Ids) /\ Len(HistoryIds) = Len(runs)
         /\ \A i \in 1..Len(runs) : HistoryIds[i] = runs[i].id
<1>1. runs \in Seq(Runs) /\ DOMAIN runs = 1..Len(runs) /\ Len(runs) \in Nat
  BY DEF TypeInv
<1>2. \A i \in 1..Len(runs) : runs[i].id \in Ids
  <2>1. \A i \in 1..Len(runs) : runs[i] \in Runs
    BY <1>1
  <2> QED
    BY <2>1 DEF Runs
<1>3. HistoryIds \in [1..Len(runs) -> Ids]
  BY <1>1, <1>2 DEF HistoryIds
<1> QED
  BY <1>1, <1>3 DEF HistoryIds

LEMMA CommitAppends ==
  ASSUME TypeInv, TypeInv', NEW r \in Requests, WriteRun(r)
  PROVE  HistoryIds' = Append(HistoryIds, r)
<1>1. /\ Len(runs) \in Nat /\ Len(runs') = Len(runs) + 1 /\ runs'[Len(runs) + 1].id = r
      /\ \A i \in 1..Len(runs) : runs'[i].id = runs[i].id
  BY Recording DEF TypeInv
<1>2. /\ HistoryIds \in Seq(Ids) /\ Len(HistoryIds) = Len(runs)
      /\ \A i \in 1..Len(runs) : HistoryIds[i] = runs[i].id
  BY HistoryIdsSeq
<1>3. /\ HistoryIds' \in Seq(Ids) /\ Len(HistoryIds') = Len(runs')
      /\ \A i \in 1..Len(runs') : HistoryIds'[i] = runs'[i].id
  <2>1. runs' \in Seq(Runs) /\ DOMAIN runs' = 1..Len(runs') /\ Len(runs') \in Nat
    BY DEF TypeInv
  <2>2. \A i \in 1..Len(runs') : runs'[i].id \in Ids
    <3>1. \A i \in 1..Len(runs') : runs'[i] \in Runs
      BY <2>1
    <3> QED
      BY <3>1 DEF Runs
  <2>3. HistoryIds' \in [1..Len(runs') -> Ids]
    BY <2>1, <2>2 DEF HistoryIds
  <2> QED
    BY <2>1, <2>3 DEF HistoryIds
<1> DEFINE a == HistoryIds
           b == HistoryIds'
<1> HIDE DEF a, b
<1>4. /\ a \in Seq(Ids) /\ b \in Seq(Ids) /\ Len(a) = Len(runs) /\ Len(b) = Len(a) + 1
      /\ b[Len(a) + 1] = r /\ \A i \in 1..Len(a) : b[i] = a[i]
  BY <1>1, <1>2, <1>3 DEF a, b
<1>5. b = Append(a, r)
  BY <1>4
<1> QED
  BY <1>5 DEF a, b

(* Over PostgreSQL recording a run and serving it is one step of the       *)
(* register, serving an earlier run and serving none are others, and no    *)
(* other call of any handler, nor its loss, touches history, document or   *)
(* pointer.                                                                *)
THEOREM RunsImplementRegister == Spec => ImplementsRegister
<1>1. Init => Register!Init
  <2> SUFFICES ASSUME Init PROVE Register!Init
    OBVIOUS
  <2>1. CASE backend = "postgres" /\ runs = <<BootRun>>
    <3>1. [i \in DOMAIN runs |-> runs[i].id] = <<Boot>>
      BY <2>1 DEF BootRun
    <3> QED
      BY <2>1, <3>1 DEF Init, Register!Init, Pg
  <2>2. CASE backend # "postgres" \/ runs = << >>
    <3>1. runs = << >> => [i \in DOMAIN runs |-> runs[i].id] = << >>
      OBVIOUS
    <3> QED
      BY <2>2, <3>1 DEF Init, Register!Init, Pg
  <2> QED
    BY <2>1, <2>2 DEF Init
<1>2. LedgerInv /\ [Next]_vars =>
        [Register!Commit \/ Register!Serve \/ Register!Clear]_<<
          IF Pg THEN [i \in DOMAIN runs |-> runs[i].id] ELSE << >>,
          IF Pg THEN sor ELSE Generated, IF Pg THEN ptr ELSE NoRun>>
  <2> SUFFICES ASSUME LedgerInv, [Next]_vars
               PROVE  \/ Register!Commit \/ Register!Serve \/ Register!Clear
                      \/ UNCHANGED <<IF Pg THEN [i \in DOMAIN runs |-> runs[i].id] ELSE << >>,
                                     IF Pg THEN sor ELSE Generated, IF Pg THEN ptr ELSE NoRun>>
    OBVIOUS
  <2>1. HistoryInv /\ TypeInv /\ TypeInv'
    BY StepTypeInv DEF LedgerInv, HistoryInv
  <2>2. UNCHANGED backend
    BY DEF Next, Work, vars, store, AskImport, AskServe, AskRevert, AskList, AskMap, AskMapRevert,
       Ask, ReadMap, FindRun, ReadServed, LockRuns, WriteRun, PutDoc, PutPointer, Push, ServeRun,
       LookUpRun, DeleteDoc, DropDoc, DropPointer, PutMap, DropMap, LedgerMap, LedgerRun,
       LedgerRevert, LedgerMapRevert, LedgerLast, ListFlagged, ListRuns, FlagRun, Abandon
  <2>3. CASE ~Pg
    BY <2>2, <2>3 DEF Pg
  <2>4. CASE Pg /\ \E r \in Requests : WriteRun(r)
    <3>1. PICK r \in Requests : WriteRun(r)
      BY <2>4
    <3>2. HistoryIds' = Append(HistoryIds, r)
      BY <2>1, <3>1, CommitAppends
    <3>3. Find(r) = {} /\ r \in Ids
      BY <2>1, <3>1, RecordingHistory
    <3>4. r \notin Register!Recorded
      BY <2>4, <3>3 DEF Register!Recorded, Find
    <3>5. Register!Commit
      BY <2>2, <2>4, <3>1, <3>2, <3>3, <3>4
         DEF WriteRun, Pg, Register!Commit, Register!Served, HistoryIds
    <3> QED
      BY <3>5
  <2>5. CASE Pg /\ \E r \in Requests : ServeRun(r)
    <3>1. PICK r \in Requests : ServeRun(r)
      BY <2>5
    <3>2. Find(req[r].run) # {}
      BY <3>1 DEF LedgerInv, Accounts, Named, ServeRun
    <3>3. req[r].run \in Register!Recorded
      BY <2>5, <3>2 DEF Register!Recorded, Find
    <3>4. Register!Serve
      BY <2>2, <2>5, <3>1, <3>3 DEF ServeRun, Pg, Register!Serve, Register!Served
    <3> QED
      BY <3>4
  <2>6. CASE Pg /\ \E r \in Requests : DeleteDoc(r)
    BY <2>2, <2>6 DEF DeleteDoc, Pg, Register!Clear
  <2>7. CASE Pg /\ ~ \E r \in Requests : WriteRun(r) \/ ServeRun(r) \/ DeleteDoc(r)
    <3>1. UNCHANGED <<runs, sor, ptr>>
      <4>1. \A r \in Requests : ~(PutDoc(r) \/ PutPointer(r) \/ Push(r) \/ DropDoc(r) \/ DropPointer(r))
        <5>1. \A r \in Requests : WellFormed(req[r], r, Len(runs)) /\ backend = "postgres"
          BY <2>1, <2>7 DEF TypeInv, Pg
        <5> QED
          BY <5>1 DEF WellFormed, StandsAt, PutDoc, PutPointer, Push, DropDoc, DropPointer
      <4> QED
        BY <2>7, <4>1 DEF Next, Work, vars, store, AskImport, AskServe, AskRevert, AskList, AskMap,
           AskMapRevert, Ask, ReadMap, FindRun, ReadServed, LockRuns, LookUpRun, PutMap, DropMap,
           LedgerMap, LedgerRun, LedgerRevert, LedgerMapRevert, LedgerLast, ListFlagged, ListRuns,
           FlagRun, Abandon
    <3> QED
      BY <2>2, <3>1 DEF Pg
  <2> QED
    BY <2>3, <2>4, <2>5, <2>6, <2>7
<1> QED
  BY InitLedger, StepLedger, <1>1, <1>2, PTL DEF Spec, ImplementsRegister, Register!Spec
=============================================================================
