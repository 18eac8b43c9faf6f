---------------------------- MODULE ScheduleRuns ----------------------------
(***************************************************************************)
(* The schedule imports ("runs") of one hull, the schedule of record they  *)
(* serve, and the handlers that write them: the import of an XER export,   *)
(* serving an earlier run, reverting to the generated register, storing    *)
(* and reverting the field map, and listing the runs.  A handler is a      *)
(* sequence of store calls; other handlers run between two of them.        *)
(*                                                                         *)
(* A store call over PostgreSQL is one transaction.  The in-memory store   *)
(* keeps the runs, the schedule of record and the served pointer under     *)
(* three locks: an import holds the runs' write lock for all of its        *)
(* writes, serving an old run and reverting take the other two locks one   *)
(* after the other and nothing else, and other threads run in between.     *)
(*                                                                         *)
(* A run is named by the request that imported it; the document of a run   *)
(* is named by the run.  Nothing but the trait's tests sets a schedule of  *)
(* record that is no run's, and that call is not modelled.                 *)
(***************************************************************************)
EXTENDS Integers, Sequences, FiniteSets

CONSTANTS
  Backends,    \* the stores the server may be started on
  Requests,    \* the requests ever made, each served by one handler run
  Ops,         \* what they may ask for
  Maps,        \* the field maps a client may post
  MaxDocs,     \* how many runs the in-memory store keeps the document of
  Boot,        \* the run loaded at boot, when there is one
  Generated,   \* the document served when there is no schedule of record
  NoRun,       \* no run is served
  Default,     \* the field map in effect when none is stored
  None         \* no request

AllOps == {"import", "serve", "revert", "list", "map", "map_revert"}
Ids == Requests \cup {Boot}

ASSUME BackendAssumption == Backends \subseteq {"memory", "postgres"}
ASSUME OpsAssumption == Ops \subseteq AllOps
ASSUME DocsAssumption == MaxDocs \in Nat \ {0}
ASSUME NamesAssumption ==
  /\ Boot \notin Requests /\ None \notin Requests
  /\ Generated \notin Ids /\ NoRun \notin Ids /\ Default \notin Maps

VARIABLES
  backend,    \* the implementation of Repositories the server runs on
  runs,       \* every import, oldest first: its id, seq, map, is its document held
  sor,        \* whose document the schedule of record is
  ptr,        \* the served pointer
  lock,       \* who holds the hull's runs: the write lock, the advisory lock
  fieldMap,   \* the stored field map and who stored it
  ledger,     \* the hull's schedule and field-map entries, oldest first
  req         \* each request's handler: where it is and what it holds

store == <<backend, runs, sor, ptr, lock, fieldMap>>
vars == <<store, ledger, req>>

EndPcs == {"answered", "refused", "abandoned"}
ReadPcs == {"read_map", "find_run", "read_served"}
StorePcs == {"lock_runs", "put_doc", "put_pointer", "push", "write",
             "serve", "drop", "drop_pointer", "put_map", "drop_map"}
LedgerPcs == {"ledger_run", "ledger_revert", "ledger_map", "ledger_map_revert"}
PCs == {"idle", "list", "flag"} \cup EndPcs \cup ReadPcs \cup StorePcs \cup LedgerPcs

(* What a handler holds: the run it is about, the field map it reads or    *)
(* stores, the seq it took, the run it saw served, how many listed runs it *)
(* has still to flag and those it flagged.  The last is a history          *)
(* variable: the call an abandoned handler was about to make.              *)
Idle == [pc |-> "idle", op |-> "none", run |-> NoRun, map |-> Default,
         seq |-> 0, from |-> NoRun, todo |-> 0,
         flagged |-> {}, next |-> "idle"]

\* A handler that is over holds nothing but what it answered.
Over(h, pc) == [Idle EXCEPT !.pc = pc, !.flagged = h.flagged]

Go(r, pc) == req' = [req EXCEPT ![r].pc = pc]

InFlight(r) == req[r].pc \notin {"idle"} \cup EndPcs

\* The entry of an action: what the handler holds goes in it.
AppendAudit(r, action) ==
  ledger' = Append(ledger, [action |-> action, by |-> r, run |-> req[r].run,
                            map |-> req[r].map, from |-> req[r].from])

Find(id) == {i \in DOMAIN runs : runs[i].id = id}
Holds(id) == \E i \in Find(id) : runs[i].held
-----------------------------------------------------------------------------
(* A hull starts with no import, or with the one its boot loaded.          *)
BootRun == [id |-> Boot, seq |-> 1, map |-> Default, held |-> TRUE]

Init ==
  /\ backend \in Backends
  /\ \/ runs = << >> /\ sor = Generated /\ ptr = NoRun
     \/ runs = <<BootRun>> /\ sor = Boot /\ ptr = Boot
  /\ lock = None
  /\ fieldMap = [map |-> Default, by |-> None]
  /\ ledger = << >>
  /\ req = [r \in Requests |-> Idle]

\* A request arrives that passes validation.
Ask(r, op, pc, run, map) ==
  /\ op \in Ops
  /\ req[r].pc = "idle"
  /\ req' = [req EXCEPT ![r] = [Idle EXCEPT !.pc = pc, !.op = op,
                                            !.run = run, !.map = map]]
  /\ UNCHANGED <<store, ledger>>

\* An import without an inline map reads the export with the one in effect.
AskImport(r) == \E map \in Maps \cup {Default} : Ask(r, "import", "read_map", r, map)
AskServe(r) == \E id \in Ids : Ask(r, "serve", "find_run", id, Default)
AskRevert(r) == Ask(r, "revert", "drop", NoRun, Default)
AskList(r) == Ask(r, "list", "list", NoRun, Default)
AskMap(r) == \E map \in Maps : Ask(r, "map", "put_map", NoRun, map)
AskMapRevert(r) == Ask(r, "map_revert", "drop_map", NoRun, Default)
-----------------------------------------------------------------------------
(* The reads an import or a serve makes before it writes.  The delta a     *)
(* handler computes against what is served is data, and not modelled.      *)

\* Mutant: an inline map is used for its import and not stored.
ReadMapOneOff(r) ==
  /\ req[r].pc = "read_map"
  /\ req' = [req EXCEPT ![r].pc = "lock_runs",
                        ![r].map = IF req[r].map = Default THEN fieldMap.map
                                                           ELSE req[r].map]
  /\ UNCHANGED <<store, ledger>>

\* The map the export is read with, and whether it is a new one to store.
ReadMap(r) ==
  /\ req[r].pc = "read_map"
  /\ LET inline == req[r].map # Default
         map    == IF inline THEN req[r].map ELSE fieldMap.map
     IN  req' = [req EXCEPT ![r].map = map,
                            ![r].pc = IF inline /\ map # fieldMap.map
                                      THEN "put_map" ELSE "lock_runs"]
  /\ UNCHANGED <<store, ledger>>

\* A run the hull does not have, or whose document was dropped, is refused.
FindRun(r) ==
  /\ req[r].pc = "find_run"
  /\ lock = None \/ backend = "postgres"
  /\ req' = [req EXCEPT ![r] = IF Holds(req[r].run)
                               THEN [req[r] EXCEPT !.pc = "read_served"]
                               ELSE Over(req[r], "refused")]
  /\ UNCHANGED <<store, ledger>>

ReadServed(r) ==
  /\ req[r].pc = "read_served"
  /\ req' = [req EXCEPT ![r].pc = "serve", ![r].from = ptr]
  /\ UNCHANGED <<store, ledger>>
-----------------------------------------------------------------------------
(* Recording a run and serving it.                                         *)

\* The runs are the request's until its last write; the next seq is its own.
LockRuns(r) ==
  /\ req[r].pc = "lock_runs"
  /\ lock = None
  /\ lock' = r
  /\ req' = [req EXCEPT ![r].seq = Len(runs) + 1,
                        ![r].pc = IF backend = "postgres" THEN "write"
                                                          ELSE "put_doc"]
  /\ UNCHANGED <<backend, runs, sor, ptr, fieldMap, ledger>>

NewRun(r) == [id |-> r, seq |-> req[r].seq, map |-> req[r].map, held |-> TRUE]

Unlock(r) == lock' = IF lock = r THEN None ELSE lock

\* PostgreSQL: the run's row and the served document, which names the run,
\* are seen by others when the transaction commits, and its lock goes then.
WriteRun(r) ==
  /\ req[r].pc = "write"
  /\ runs' = Append(runs, NewRun(r))
  /\ sor' = r /\ ptr' = r
  /\ Unlock(r)
  /\ req' = [req EXCEPT ![r].pc = "ledger_run"]
  /\ UNCHANGED <<backend, fieldMap, ledger>>

PutDoc(r) ==
  /\ req[r].pc = "put_doc"
  /\ sor' = req[r].run
  /\ Go(r, "put_pointer")
  /\ UNCHANGED <<backend, runs, ptr, lock, fieldMap, ledger>>

PutPointer(r) ==
  /\ req[r].pc = "put_pointer"
  /\ ptr' = req[r].run
  /\ req' = [req EXCEPT ![r].pc = IF req[r].op = "serve" THEN "ledger_run"
                                                         ELSE "push"]
  /\ UNCHANGED <<backend, runs, sor, lock, fieldMap, ledger>>

\* Mutant: the run just pushed is not counted against the limit.
HeldBeforePush(list) ==
  [i \in DOMAIN list |-> [list[i] EXCEPT !.held = @ /\ Len(list) - 1 < i + MaxDocs]]

\* The documents of the newest MaxDocs runs are kept.
Evicted(list) ==
  [i \in DOMAIN list |-> [list[i] EXCEPT !.held = @ /\ Len(list) < i + MaxDocs]]

Push(r) ==
  /\ req[r].pc = "push"
  /\ runs' = Evicted(Append(runs, NewRun(r)))
  /\ Unlock(r)
  /\ Go(r, "ledger_run")
  /\ UNCHANGED <<backend, sor, ptr, fieldMap, ledger>>
-----------------------------------------------------------------------------
(* Serving an earlier run, and serving none.                               *)

\* Mutant: the document is replaced as one that is no run's.
ServeUnnamed(r) ==
  /\ backend = "postgres"
  /\ req[r].pc = "serve"
  /\ sor' = req[r].run /\ ptr' = NoRun
  /\ req' = [req EXCEPT ![r].pc = "ledger_run"]
  /\ UNCHANGED <<backend, runs, lock, fieldMap, ledger>>

ServeRun(r) ==
  /\ backend = "postgres"
  /\ req[r].pc = "serve"
  /\ sor' = req[r].run /\ ptr' = req[r].run
  /\ req' = [req EXCEPT ![r].pc = "ledger_run"]
  /\ UNCHANGED <<backend, runs, lock, fieldMap, ledger>>

\* The in-memory store looks the run up under the runs' lock and lets go.
\* The document may have been dropped since the handler looked.
LookUpRun(r) ==
  /\ backend = "memory"
  /\ req[r].pc = "serve"
  /\ lock = None
  /\ req' = [req EXCEPT ![r] = IF Holds(req[r].run)
                               THEN [req[r] EXCEPT !.pc = "put_doc"]
                               ELSE Over(req[r], "refused")]
  /\ UNCHANGED <<store, ledger>>

\* Mutant: the document goes and its pointer stays.
DeleteKeepingPointer(r) ==
  /\ backend = "postgres"
  /\ req[r].pc = "drop"
  /\ sor' = Generated
  /\ req' = [req EXCEPT ![r].pc = "ledger_revert"]
  /\ UNCHANGED <<backend, runs, ptr, lock, fieldMap, ledger>>

\* PostgreSQL: the pointer is a column of the document's row.
DeleteDoc(r) ==
  /\ backend = "postgres"
  /\ req[r].pc = "drop"
  /\ sor' = Generated /\ ptr' = NoRun
  /\ req' = [req EXCEPT ![r].pc = "ledger_revert"]
  /\ UNCHANGED <<backend, runs, lock, fieldMap, ledger>>

DropDoc(r) ==
  /\ backend = "memory"
  /\ req[r].pc = "drop"
  /\ sor' = Generated
  /\ Go(r, "drop_pointer")
  /\ UNCHANGED <<backend, runs, ptr, lock, fieldMap, ledger>>

DropPointer(r) ==
  /\ req[r].pc = "drop_pointer"
  /\ ptr' = NoRun
  /\ req' = [req EXCEPT ![r].pc = "ledger_revert"]
  /\ UNCHANGED <<backend, runs, sor, lock, fieldMap, ledger>>
-----------------------------------------------------------------------------
(* The field map.                                                          *)

PutMap(r) ==
  /\ req[r].pc = "put_map"
  /\ fieldMap' = [map |-> req[r].map, by |-> r]
  /\ Go(r, "ledger_map")
  /\ UNCHANGED <<backend, runs, sor, ptr, lock, ledger>>

DropMap(r) ==
  /\ req[r].pc = "drop_map"
  /\ fieldMap' = [map |-> Default, by |-> None]
  /\ Go(r, "ledger_map_revert")
  /\ UNCHANGED <<backend, runs, sor, ptr, lock, ledger>>

LedgerMap(r) ==
  /\ req[r].pc = "ledger_map"
  /\ AppendAudit(r, "MAP_REPLACED")
  /\ IF req[r].op = "import" THEN Go(r, "lock_runs")
     ELSE req' = [req EXCEPT ![r] = Over(req[r], "answered")]
  /\ UNCHANGED store
-----------------------------------------------------------------------------
(* The entries that answer a request, and the listing.                     *)

\* Mutant: the request is answered without its entry.
LedgerNothing(r, pc, action) ==
  /\ req[r].pc = pc
  /\ req' = [req EXCEPT ![r] = Over(req[r], "answered")]
  /\ UNCHANGED <<store, ledger>>

LedgerLast(r, pc, action) ==
  /\ req[r].pc = pc
  /\ AppendAudit(r, action)
  /\ req' = [req EXCEPT ![r] = Over(req[r], "answered")]
  /\ UNCHANGED store

LedgerRun(r) == LedgerLast(r, "ledger_run", "SCHEDULE_REPLACED")
LedgerRevert(r) == LedgerLast(r, "ledger_revert", "SCHEDULE_REVERTED")
LedgerMapRevert(r) == LedgerLast(r, "ledger_map_revert", "MAP_REVERTED")

\* PostgreSQL lists and flags in one statement.
ListFlagged(r) ==
  /\ backend = "postgres"
  /\ req[r].pc = "list"
  /\ req' = [req EXCEPT ![r].pc = "answered",
                        ![r].flagged = {runs[i].id : i \in Find(ptr)}]
  /\ UNCHANGED <<store, ledger>>

\* The in-memory store lists the runs, and then asks of each, newest first,
\* whether it is the served one.
ListRuns(r) ==
  /\ backend = "memory"
  /\ req[r].pc = "list"
  /\ lock = None
  /\ req' = [req EXCEPT ![r].pc = IF runs = << >> THEN "answered" ELSE "flag",
                        ![r].todo = Len(runs)]
  /\ UNCHANGED <<store, ledger>>

FlagRun(r) ==
  /\ req[r].pc = "flag"
  /\ LET id == runs[req[r].todo].id
     IN  req' = [req EXCEPT ![r].todo = @ - 1,
                            ![r].flagged = IF id = ptr THEN @ \cup {id} ELSE @,
                            ![r].pc = IF req[r].todo = 1 THEN "answered" ELSE "flag"]
  /\ UNCHANGED <<store, ledger>>

\* What is left of a dropped handler: what it was about to do, and to what.
Dropped(h) == [Over(h, "abandoned") EXCEPT !.next = h.pc, !.run = h.run,
                                        !.map = h.map, !.op = h.op]

\* Mutant: a transaction that is dropped keeps the hull's lock.
AbandonLocked(r) ==
  /\ backend = "postgres"
  /\ InFlight(r)
  /\ req' = [req EXCEPT ![r] = Dropped(req[r])]
  /\ UNCHANGED <<store, ledger>>

\* A handler over PostgreSQL is dropped at an await when it outlives the
\* request timeout, and returns early when a store call fails; a transaction
\* it had open rolls back.  The in-memory store's calls never suspend.
Abandon(r) ==
  /\ backend = "postgres"
  /\ InFlight(r)
  /\ req' = [req EXCEPT ![r] = Dropped(req[r])]
  /\ Unlock(r)
  /\ UNCHANGED <<backend, runs, sor, ptr, fieldMap, ledger>>

Work(r) ==
  \/ ReadMap(r) \/ FindRun(r) \/ ReadServed(r)
  \/ LockRuns(r) \/ WriteRun(r) \/ PutDoc(r) \/ PutPointer(r) \/ Push(r)
  \/ ServeRun(r) \/ LookUpRun(r) \/ DeleteDoc(r) \/ DropDoc(r) \/ DropPointer(r)
  \/ PutMap(r) \/ DropMap(r) \/ LedgerMap(r)
  \/ LedgerRun(r) \/ LedgerRevert(r) \/ LedgerMapRevert(r)
  \/ ListFlagged(r) \/ ListRuns(r) \/ FlagRun(r)

Next ==
  \E r \in Requests :
    \/ AskImport(r) \/ AskServe(r) \/ AskRevert(r) \/ AskList(r)
    \/ AskMap(r) \/ AskMapRevert(r)
    \/ Work(r)
    \/ Abandon(r)

Spec == Init /\ [][Next]_vars

\* The runtime keeps polling a handler that can run.
FairSpec == Spec /\ \A r \in Requests : WF_vars(Work(r))
-----------------------------------------------------------------------------
(* The history numbers its runs 1, 2, 3, ... in the order they were        *)
(* recorded, lists each once, and holds the documents of the newest        *)
(* MaxDocs of them: two imports never take the same seq, whichever of them *)
(* read the list first.                                                    *)
HistoryIsNumbered ==
  \A i \in DOMAIN runs :
    /\ runs[i].seq = i
    /\ Find(runs[i].id) = {i}
    /\ runs[i].held <=> backend = "postgres" \/ Len(runs) < i + MaxDocs

(* served_run is "which run's document the schedule of record IS", "absent *)
(* when the served schedule is not a run's" - whenever no request is       *)
(* between its writes.                                                     *)
BetweenWrites(r) == req[r].pc \in {"put_pointer", "push", "drop_pointer"}
PointerNamesServedDoc ==
  (\A r \in Requests : ~BetweenWrites(r))
    => sor = IF ptr = NoRun THEN Generated ELSE ptr

\* Nothing but imports has written the in-memory store's schedule.
OnlyImports ==
  /\ \A r \in Requests : req[r].op \notin {"serve", "revert"}
  /\ \A n \in DOMAIN ledger :
       /\ ledger[n].action # "SCHEDULE_REVERTED"
       /\ ledger[n].action = "SCHEDULE_REPLACED" => ledger[n].run = ledger[n].by

(* It is so over PostgreSQL, whatever interleaves and rolls back, and in   *)
(* the in-memory store as long as every writer locks the runs first, as an *)
(* import does.  Under the same conditions a listing, which shows the runs *)
(* "with the served one pointed to", flags one run as served at most,      *)
(* although the in-memory store asks for the flag of each run anew.        *)
PointerFollowsDoc ==
  backend = "postgres" \/ OnlyImports =>
    /\ PointerNamesServedDoc
    /\ \A r \in Requests : Cardinality(req[r].flagged) <= 1

(* An entry is in the ledger, or the handler that owes it is still running *)
(* or was dropped between the store's write and the ledger's.              *)
Owes(r, pc) ==
  \/ req[r].pc = pc
  \/ req[r].pc = "abandoned" /\ req[r].next = pc
Entered(action, r) == {n \in DOMAIN ledger : ledger[n].action = action
                                             /\ ledger[n].by = r}

(* Every run in the history is on the ledger once, as SCHEDULE_REPLACED by *)
(* the request that imported it, unless that request still owes the entry; *)
(* and no entry names a run the history does not have.                     *)
RunsAreLedgered ==
  /\ \A i \in DOMAIN runs :
       LET r == runs[i].id
       IN  r # Boot => \/ Owes(r, "ledger_run")
                       \/ Cardinality(Entered("SCHEDULE_REPLACED", r)) = 1
  /\ \A n \in DOMAIN ledger :
       ledger[n].action = "SCHEDULE_REPLACED" => Find(ledger[n].run) # {}

(* A field map in effect, and a field map an import was read with, is on   *)
(* the ledger as stored, or owed by the request that stored it: "the run's *)
(* map is the document, not a one-off".                                    *)
MapIsAccountedFor(map) ==
  map # Default =>
    \E r \in Requests :
      \/ Owes(r, "ledger_map") /\ req[r].map = map
      \/ \E n \in Entered("MAP_REPLACED", r) : ledger[n].map = map
MapsAreLedgered ==
  /\ MapIsAccountedFor(fieldMap.map)
  /\ \A i \in DOMAIN runs : MapIsAccountedFor(runs[i].map)

(* The schedule store over PostgreSQL implements RunRegister; the          *)
(* in-memory one is not compared with it.                                  *)
Pg == backend = "postgres"
Register == INSTANCE RunRegister
  WITH history <- IF Pg THEN [i \in DOMAIN runs |-> runs[i].id] ELSE << >>,
       doc <- IF Pg THEN sor ELSE Generated,
       run <- IF Pg THEN ptr ELSE NoRun
ImplementsRegister == Register!Spec

(* Every request that starts is answered, refused or dropped: an import    *)
(* that waits for the runs' lock gets it, whatever became of the one that  *)
(* held it.                                                                *)
EveryRequestEnds ==
  \A r \in Requests : InFlight(r) ~> req[r].pc \in EndPcs
=============================================================================
