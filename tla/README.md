# Verification of the WADL platform

WADL ("work authorization decision layer") is a service that tells a shipyard
which work on a hull may proceed. A set of Rust crates under `src/crates/`
keeps a hull's *hazards*, *documents* and imported *schedules*, evaluates
safety *rules* over a graph of coupled compartments, and puts every change on a
hash-chained *ledger*. This directory holds TLA+ models of the parts of it that
are hard to test, the TLC runs that check them and proofs that TLAPS checks.

Paths below are relative to `src/crates/`; `PROJECT.json` maps every definition
to the lines it models.

- [The system](#the-system)
- [The modules](#the-modules)
- [The runs](#the-runs)
- [Bounds](#bounds)
- [Fairness, failures and atomicity](#fairness-failures-and-atomicity)
- [What is proved](#what-is-proved)
- [Where the code and its documents disagree](#where-the-code-and-its-documents-disagree)
- [Not modelled](#not-modelled)
- [The plan](#the-plan)

## The system

A request reaches an axum handler of `wadl-api` on a tokio worker thread. The
handler validates it and makes a *sequence of store calls*, each awaited, and
handlers of other requests run between any two of them. The store is one of two
implementations of the `Repositories` trait (`wadl-store/src/repo.rs`):

- `memory.rs`: maps behind one lock each. A call does not suspend, but other
  threads run between two locks that it takes one after the other. It is lost
  when the process ends, and filled before the server starts to serve.
- `pg_repo.rs`: PostgreSQL, a transaction per call, rolled back when the handler
  is dropped. Advisory locks serialise what must not interleave.

`hardening.rs` refuses a request when no permit of its semaphore is free and
drops a handler that outlives the request timeout, at whatever `await` it is.

Each component, its state, its operations, and what would make it wrong:

| component | state | operations | what must hold, and why it is hard |
|---|---|---|---|
| Hazard register (`handlers.rs` 1480–1668, 3263–3447; both stores) | recorded hazards with their ends; in memory, clearances by key | raise, clear, import a log, read at an instant | what is live is what was raised and not cleared, and all of it is on the ledger. A check, a write and a ledger entry are three calls; the two stores record a clearance differently |
| Audit ledger (`ledger.rs`, `append_audit` of both stores) | entries of all hulls in one table, an advisory lock per hull | append, list, verify | one unforked chain per hull, visible in order; an edit of what is hashed is reported. Appends overlap, roll back, and share a sequence; not all that is stored is hashed |
| Schedule runs and field map (`schedule_door.rs`, `schedule.rs`, stores) | history of runs, schedule of record, served pointer, field map | import, serve an earlier run, revert, list, set and revert the map | the pointer names the run whose document is served; runs are numbered without gap or repeat; whatever a run was read with is on the ledger. In memory three locks guard what is one fact |
| Hull documents (`handlers.rs` 2086–3249, `yard_clock.rs`, `rule_table.rs`) | one document of each of nine kinds; the rule table's signature | import, revert, sign | what is stored is on the ledger; a signature is of the table that carries it. Store and ledger are two calls, a signature is four |
| Document loader (`documents.rs`, `wadl-cli/src/load_docs.rs`, `bin/serve.rs`) | none of its own | take a directory of files in order | a load that stops says exactly what it left behind |
| P6 ingest (`wadl-ingest`) | tables read so far, the lookups and the report of one import | read lines, resolve rows through the field map, serve, exclude or quarantine tasks, join logic | no row vanishes; logic joins what is served; the earliest reading of a wall time that names two. Four passes over three lists, sections in any order, a clock with gaps and folds |
| Cascade traversal (`wadl-engine/src/traversal.rs`) | a queue, a visited set, the hits | breadth-first walk from a hazard's space | all that is exposed, at its smallest depth, once per coupling type, by a path the hull has. Three limits on depth, cycles, two edges for a symmetric coupling |
| Decision engine (`evaluate.rs`, `rules.rs`, `decision.rs`, `hazard.rs`) | none: pure | evaluate a space at an instant | the most severe rule decides; holds end on a clock or by clearance |
| Executability and viable windows (`wadl-issues/src/lib.rs`, `rule_table.rs` 123–147) | none: pure, after two reads | verdict over a window; earliest window | "exact, not sampled"; what is proposed is open, what is passed over was shut. Two reads that others come between; holds priced at the refusal |
| Rule-table documents (`wadl-engine/src/rule_table.rs`, `wadl-api/src/rule_table.rs`) | cells and compiled entries of the table committed | import, preview, export, revert, read the findings | an id names one reading for good; export is the inverse of import; what the door names as moved moves. Dates are cells of the yard's clock; clock, table and hull are read apart, and others commit between |
| Mitigation (`wadl-mitigate`) | none: pure | candidates, what each frees and shuts, a plan of several, the hull's levers | an option offered works; a lever's effect is what asking the whole hull shows. Holds run into each other, effects are looked for near the change only |
| Issue board, conflicts (`wadl-issues`, `handlers.rs` 640–760, 1200–1330) | none: pure | derive, list a day's conflicts | what one board calls held is an issue on the other; no conflicting pair is lost |
| Packages and readiness (`wadl-plan`) | none: pure | topology, stranded hours, governing constraint, roll-ups | a cycle is reported, an hour is counted once, upstream and downstream are each other's mirror |
| Proposals, decisions, acknowledgements (`handlers.rs` 1010–1480, 3440–3780) | ledger entries, and nothing else | decide, acknowledge, propose, withdraw, list | a record says what the server read and not what it was sent; a status does not turn because others acted. Hazards, bookings, schedule and ledger are read apart |
| Hardening (`hardening.rs`) | permits of a semaphore, a timer per request | admit, refuse, time out | permits come back; a dropped handler leaves what the others can live with |
| Civil time (`wadl-domain/src/civil.rs`) | none: pure | offset, local time, its inverse, watches | gaps and folds of daylight time |
| Permits (`wadl-domain/src/permit.rs`) | a status | the lifecycle's transitions | the flat status admits what the type admits |
| Geometry, zones (`wadl-engine/src/geometry.rs` and its neighbours) | none: pure | derive vertical couplings, audit zones | every deck crossing is found |
| Identity, roles (`auth.rs`, `roles.rs`, `scope.rs`) | none | admit or refuse | order of refusals |
| Operator's commands (`wadl-cli`, `pg_bootstrap.rs`) | none | bootstrap, verify, bundle | a statement applied twice changes nothing |
| Web client (`shell-web`) | views | | |

How they interact: hazards and rules feed the engine through `engine_inputs`;
the engine's walk decides which spaces a rule reaches; executability, the
search for a window, mitigation and the boards call the engine; the boards join
its decisions with the activities of the schedule served and with packages;
every door that writes appends to the ledger, and the ledger is the only record
of proposals, decisions and acknowledgements. A field map decides how the next
schedule import is read, the yard's clock how its times and the dates of a rule
table are. The rule table and the compartment, zone and coupling registers
decide what the engine evaluates.

## The modules

| module | models | state and actions |
|---|---|---|
| `HazardRegister` | the three doors of the hazard register over either store | `rows` are the stored hazards in order of insertion, `cleared` the in-memory clearances by key, `ledger` the hull's entries, `req[r]` the local variables of a request's handler. One action per store call: `CheckRaise`, `RaiseRow`, `LedgerRaise`, `CheckImport`, `LedgerSummary`, `ClearRows`, `LedgerClear`, with `Ask…` for arrival, `Tick` for the clock and `Abandon` |
| `HazardFacts` | what the register promises: facts that open, end once and stay ended | implemented by `HazardRegister` over PostgreSQL |
| `AuditLedger` | `append_audit` | `table` is the committed rows of all hulls, `nextSeq` the sequence, `lock` the advisory locks, `tx[r]` a transaction. Statement by statement in PostgreSQL, one step in memory |
| `LedgerVerify` | `verify_chain`, `build_chain` and the edits an auditor worries about | operators over the chains `AuditLedger` writes; `Hashed` is what of an entry its digest covers |
| `ScheduleRuns` | the six requests of the schedule and field-map doors | `runs`, `sor` (whose document is served), `ptr` (the served pointer), `lock`, `fieldMap`, `ledger`, `req[r]`. In memory an import's three writes, a serve's and a revert's two are separate steps, as their locks are |
| `RunRegister` | what the trait promises of runs: a growing history, document and pointer moved together | implemented by `ScheduleRuns` over PostgreSQL |
| `HullDocuments` | nine document doors and their reverts, the signature, the loader | `docs`, `raised`, `ledger`, `req[r]` |
| `CascadeWalk` | `cascade_from` | the code's own `queue`, `visited` and `hits`, and the edges of the place being expanded still to be looked at. A step is one dequeue or one edge |
| `ViableWindow` | `engine_inputs`, `evaluate`, `executability`, `earliest_viable_window` | `rules` and `hazards` are what the handler read, `cursor` and `jumps` the search's own variables; `CommitTable` and `ClearHazard` are other requests between the two reads |
| `Engine` | `evaluate` for any space: binding of rules to a date, work type and category, the cascade, holds and their clocks, the trace and its state; the seed's table | operators |
| `Mitigation` | `wadl-mitigate`: candidates, `settled_wait`, variants, the effect of one, the combined plan, `assess`, `triage`, `leverage` | operators, on `Engine` |
| `IssueBoard` | `executability`, `derive`, `hot_vs_flammable` of `wadl-issues` | operators, on `Mitigation` |
| `Packages`, `Readiness` | `wadl-plan`: segments, `held_by`, stranding, the governing constraint; the roll-up to zones, decks and ship | operators |
| `HullWorld` | what `wadl-api`'s handlers read a hull as: bookings, the world options are computed against, a space under its category's rules | operators, on the three above |
| `HullBoards` | every board of the hull, and acting on one | `hull`, `now`, `reply` (the board served), `taken` (the option acted on). One action per route that reads; `TakeDischarge` and `TakeWait` do what an option says |
| `Desk` | `record_decision`, `acknowledge_issue`, `propose_schedule_change`, `withdraw_schedule_proposal`, the issues and the proposals read back | `past`, every version of what moves of the hull; `ledger`; `req[r]`. One action per read or append of a handler - the hazards, the bookings, a board's rows and their logic are each a read of its own - with `ReplaceSchedule`, `RaiseHazard` and `ClearHazard` between them |
| `CivilTime` | `civil.rs`: dates, daylight rules, `local`, `to_utc` and its two notes, the clock's validation | operators |
| `XerIngest` | `parse_xer` and `ingest` with `field_map.rs` | `line`, `current`, `tables`, `cellCount` while reading; `ctx` (the lookups), `codeOf`, `absent` and `report` while resolving. One action per kind of line, then per kind of row |
| `RuleTable` | the rule table's compiler and doors | `clock`, `at` (the wall clock), `doc` (cells and entries committed), `sheet` (what a sitting edits), `req[r]` (a request at a door), `named` (history: what each id has meant). A request asks (`AskTable`, `AskImport`: it reads the clock), reads the table (`ReadTable`; `Export`), reads the hull (`ReadHull`; `get_rule_table`) and answers (`Preview`, `Commit`); between its steps come others, `Edit`, `revert_rule_table`, `import_yard_clock` and `Tick` |

`MC…` modules give TLC its constants. `…Proofs` modules hold the theorems.

Correspondences worth knowing when reading a module next to the code:

- `backend` is a variable that no step changes: the store is chosen at start.
  A run checks both stores unless its cfg's `Backends` names one.
- A handler is `req[r]`, a record of what its local variables hold across an
  `await`, with `pc` the call it makes next. A request that is refused by
  validation changes nothing and does not arrive. A handler that is over forgets
  what it held, but for what a property asks of it; fields kept only for that
  are called history variables where they are declared.
- A request is given a name, and what it stores carries the name. This takes the
  place of row ids and contents.
- Instants are numbers. In `HazardRegister` the clock advances by `Tick` and two
  requests may read the same instant. Elsewhere a unit is a minute. The code counts milliseconds; instants given to a
  model are whole minutes, and then so is every one derived from them, the slide's
  "at least a minute" included.
- `ViableWindow` is of one space, the activity's own. Which spaces a rule reaches
  it from is the result of `CascadeWalk`; here a rule names them (`reach`). Of a
  rule's scope only its effective range is kept: a table's rules are those bound
  to the activity's work. `Engine` has the whole of both, for `Mitigation` and
  what follows; `CascadeWalk` has the walk over *every* order of the edges, and
  `Engine` in the order they are stored in.
- `bearing_on` in `ViableWindow` and `Engine` is PostgreSQL's. What the in-memory
  store does with a hazard raised again is the matter of `HazardRegister`.
- A board of `HullBoards` is one atomic read; a handler of `Desk` is not, and
  keeps which version of the hull each of its reads saw (`AsRead` puts together
  the hull it computes with).
- In `RuleTable` table, clock and document change under a request; the hull's
  hazards and activities, which a request reads once, stay as they are.
- In `XerIngest` and `RuleTable` a cell is a value. What it says as a wall time,
  a number or a placard, and its lower-case spelling, are constants of the
  instance: characters are not modelled, what follows from them is.
- SHA-256 is taken to be free of collisions: a digest is the tuple of what was
  hashed. So is a minted version id: it is the reading it was minted from.

## The runs

Runs that pass:

| run | asks | shows |
|---|---|---|
| `hazard` | every interleaving of three requests on each store, with clocks, a seeded hazard, dropped handlers, a log that lists a key twice | `RegisterIsLedgered`: each row is on the ledger as raised, once, or owed by a handler that is running or was dropped, and over PostgreSQL so is each end. `DuplicatesOverlap`: a fact is stored twice only by requests that overlapped. `MemoryEndsForGood`: in memory, where clearances go by key, a row reads as ended without a clearance of its own only behind earlier rows of its key that one closed, and then no later row of the key is served or ever cleared. `PastReadsAreStable`: a read of an instant that has passed does not change, except as a request that read the clock before it may still change it. `ImplementsFacts`: over PostgreSQL the register is `HazardFacts` |
| `ledger` | three appends on two hulls over each store, from an empty ledger and from a format-1 chain | `VerificationIsExact`: each hull's chain verifies from end to end, across the change of format, and a chain with one entry altered, renamed, re-versioned, renumbered, given another subject, removed, moved or repeated verifies exactly when what was hashed reads as written, or as a prefix of it. So number, subject and a format-1 actor may change unseen, and nothing else may. `CommitInOrder`: a reader that saw an entry never finds an older one later. `EveryAppendEnds` |
| `schedule` | three imports, serves, reverts and listings | `HistoryIsNumbered`; `PointerFollowsDoc` (over PostgreSQL always, in memory as long as only imports write), a listing's one served flag included; `RunsAreLedgered`; `ImplementsRegister` |
| `schedule_ends` | two requests of every kind, field maps included, under fairness | `MapsAreLedgered`: a map in effect, and a map a run was read with, is on the ledger or owed. `EveryRequestEnds`: waiting for the hull's lock ends whatever became of its holder |
| `documents` | three requests among all doors, reverts, signatures and loads | `DocumentsAreLedgered`, a signature's entry included; `LedgerSaysWhatIsStored` (the last entry of a kind tells what is stored, but for the two races it names); `LoadReportIsHonest` |
| `cascade` | every graph of up to six couplings, every order of edges | `WalkIsExact`, `HitsAreShallowest`: the hits are the ends of allowed walks, all of them, once per type, at the smallest depth |
| `windows` | tables, registers, windows and instants, with a commit or a clearance between the reads | `VerdictIsExact`: the few instants looked at decide the window, and the first refusal found is the first. `AnswersAreTrue`: a window proposed is open to its end; each start passed over was shut, or held as priced (a hazard's end, on file for a later instant, cuts short a hold the search takes for its full length); gated work does wait for a clearance; no window is answered when none before the horizon was passed over, or when the tries ran out. `JumpsAreHolds`: every slide is paid for by a hold of its own that has run out. `TailIsEnough`: what was not read does not matter |
| `boards` | every board of 303 hulls at six instants, and what an option says done | `OptionsOpen`: a wait offered is the first instant the space opens by itself, and whoever takes an option finds it open. `LeverageIsWhole`: what a lever frees and shuts is what asking every space before and after shows, and no space's option is missing. `PlansAreNeeded`: a plan opens its space and no action of it is idle, but for the wait where a hazard to be discharged held the space on a clock as well. `BoardsAgree`: held on one board is an issue on the other, though they judge by different rules. `HoursAddUp`: nothing booked is lost or counted twice; held upstream and stranded downstream mirror each other. `ConflictsCoverPaths`: every hot-against-flammable pair of `wadl-issues` is on the route's board or counted as dropped |
| `desk` | two requests that decide, acknowledge, propose, withdraw or read, step by step, while hazards and the schedule change | `RecordsWereTrue`: a record says what the server's reads showed, never what it was sent. The option and its effect were on offer, the issue on the board, the window the activity's, the verdict the engine's, for hazards, bookings, rows and logic each of some moment between the asking and the entry, in the order they are read - not all of one moment, as the code does not see to that. `OpenUntilMoved`: a proposal is open until a schedule moves its activity to another day. `LatestWordIsShown`: what was entered before a reading began is in what it shows |
| `ingest` | 3,087 exports, maps and clocks, line by line and row by row | `NothingIsSilent`: each row of tasks and logic is served, excluded or refused, once, and a field the map names in vain is said (where every type has a name). `LogicIsWhole`: logic joins served work only, and all of it (where a task has one id and one code). `WindowsAreHonest`: a window served reads on the yard's wall as the file says; a reading that names no instant, or two, is noted, and of two the first is taken where daylight time is ahead. `HoursAreLabor`: material and equipment book no hours (where a resource is listed once). All but the account of rows are of files that head each section once |
| `ruletable` | two requests to export, read, preview or commit, step by step, while the sheet is edited a cell or a row at a time (what a table takes, and seventeen edits it refuses), a table is reverted, the clock is changed and a midnight passes; clocks that go ahead in summer and behind in winter | `VersionsNameOneReading`: an id never comes to name a second reading. `ExportReadsBack`: on a clock that springs forward, the export of what is in effect compiles to it, ids and all. `FiringIsReported`: a line in any space's trace is from a row the door reports to fire there. `MovedIsExact`: the spaces an import names are those whose state differs between the table it found and the one it brings, at the instant the hull was read, whatever was committed, reverted or signed since; when the table found was read on the import's clock |

Each property was also run against a mutated definition (the operators under
`Mutant:` comments, listed in `PROJECT.json`), which breaks it. The run that
shows a disagreement, `documents_signed`, is in
[a section of its own](#where-the-code-and-its-documents-disagree).

`CHECK_DEADLOCK FALSE` is set in every cfg: a run's requests
are finite, a walk ends and an answer is given once, so that every model stops. That nothing stops early is what `EveryAppendEnds`, `EveryRequestEnds`,
`WalkIsExact` and `NothingIsSilent` say.

## Bounds

| constant | value | why it is enough |
|---|---|---|
| `Requests` | 3 (2 with all six schedule requests, and at the desk) | the races in these protocols are between a check and a write of one handler and one other; a third lets a clearance follow two raises, an import evict what a serve looked up, a signature meet a commit and a revert |
| `Keys`, `Logs`, `Seeds` | two keys, the log `<<a, a, b>>`, one seeded hazard on `a` | a log that repeats a key, names one already live and one that is not |
| `MaxNow` | 2 | an instant before, at and after a clearance |
| `Hulls`, `Actors`, `Contents`, `Subjects` (ledger) | 2, 2, 1, 1 | a shared sequence with two chains; entries of different actors, with a subject and without. Two appends of the same content are the harder case: nothing but the chain tells them apart |
| `MaxDocs` | 1 (12 in the code, `memory.rs` 460) | eviction at the second run |
| `Doors`, `Hashes`, `Lines` | all eight, 2, 1 | two tables to confuse |
| `Compartments`, `Types`, `MaxEdges`, `Hops`, `TopDepth` | 3, 2, 6, {2, 3}, 4 | cycles, a space reached by both types, reaches of 3 and 2 below and above the bound; six edges hold a symmetric pair on each side and more |
| `Tables` | rows like R03, R04, R06, R07 of the seed, and a table with effective ranges | a hold from the raise, one from the end, one with no clock, a warning only; a rule that comes into force and one that lapses |
| `Registers` | any two hazards of three kinds in two spaces, raised at 0–2, standing or ended at 3; three coatings | two holds that follow each other, a raise inside a window, a hazard ended before its hold runs out |
| `MaxJumps` | 2 (32 in the code) | both ends of the search: an answer with tries left and one without |
| `MaxHold`, horizon | 3, 6 | windows of no length and of 2 that end before, at and after the horizon |
| `AsOfs`, `Instants` (windows) | {2, 4}, {1, 4} | a clearance before, at and after the instant asked about |
| `SettleCap` | 4 on the boards, 3 at the desk (32 in the code) | more than the instants at which the holds on three hazards can run out, and it is only past that many that a wait is missed (`OptionsAlwaysOpen`) |
| `ListLimit`, `PairCap` | 2 (6 in the code), 1 (200) | lists cut short and lists that are not |
| hulls of `boards` | four spaces on a ring of couplings with a chord; one to three of nine hazards of the five kinds, some recorded to end or to come; the seed's table, one with categories and dates, and one that holds a coating on a clock and until it is looked to; six activities, three orders, five packages, a loop and a lost upstream among them | every kind of option for some hull, a plan of two actions, a space reached by two couplings, a table that warns and one that lapses. Instants lie on both sides of each hold's end and in a second day |
| `MaxEvents` (desk) | 3 requests and changes together | one request over a hull that changes twice, at any two of its reads, so that no moment is the one it read; two requests over one that changes once. The ledger starts with an acknowledgement, a proposal and a decision, so that a third party's word is there |
| `DayLength` | 1000 | a move by hours, and one to another day |
| `Inputs` (ingest) | two tasks in twelve variants each with logic between them and sections in two orders; seventeen wall times as start, finish or actual on six clocks; maps that name fields, codes and resources, in vain or not; lines out of place; a section headed twice, a task, a code or a resource given twice, a type without a name, a resource without an id | each reason to exclude or refuse, alone and beside another; every gap and fold of northern, southern, half-hour and last-Sunday rules, of a clock whose daylight time is behind, and a clock with none; for each condition a property makes, a file that breaks it |
| `MaxCells`, `MaxDepth` | 120 (20,000,000), 8 (32) | a document one row short of the limit and one over it; a WBS that loops |
| `Clocks`, `WallClock` (rule table) | one an hour east with daylight time ahead in summer, one with daylight time behind in winter, ending at a midnight; half an hour before midnight UTC and an hour after | the nights daylight time begins and ends; a midnight the clock skips, which is read as the day before's; the table's day begun at the yard and not in UTC. Four rows of ids that read as none, or as one nobody minted |
| `MaxEvents` (rule table) | 3 edits, requests, reverts and clocks together | an import overtaken by a commit, by a revert or by another clock between any two of its steps; a row changed and brought in; a sheet exported, changed, brought in. Hulls begin with the seed's table or with one committed on either clock |

Distinct states found: `hazard` 272,072, `ledger` 67,793, `schedule` 25,750,
`schedule_ends` 11,302, `documents` 468,182, `cascade` 115,578, `windows`
553,676, `boards` 37,596, `desk` 111,777, `ingest` 55,620, `ruletable` 47,534.

The symmetry sets permute requests, hashes or compartments that no constant
tells apart, and are used in runs without liveness properties only.

## Fairness, failures and atomicity

`FairSpec` assumes weak fairness of a handler's own steps: tokio keeps polling a
handler that can make progress, and PostgreSQL gives an advisory lock to a
waiter once it is free. Arrival, the clock and failures are not fair. Nothing
is assumed of a handler after it is dropped.

- Over PostgreSQL a step is a store call, that is, a committed transaction; in
  `AuditLedger` and for the import of a run it is a statement, because there a
  lock is held across statements. `Abandon` and `Rollback` stand for the timeout,
  a lost connection and a failing call alike: the handler ends where it is, and
  an open transaction leaves nothing.
- In memory a step is what a thread does under one lock. Calls do not suspend,
  so a handler is never dropped *inside* one, and no in-memory call on a hull in
  scope fails; the timeout needs a suspended handler and does not occur.
- PostgreSQL's READ COMMITTED is modelled by letting a statement see what is
  committed when it starts.
- In `Desk` a step is one read or one append, of the store calls its handlers make
  in turn. A handler that is dropped there is
  one that takes no further step, since all it leaves behind is its last append.
- In `HullBoards` a board is read at once. What its reads miss of each other is
  the matter of `Desk` and `ViableWindow`.
- In `RuleTable` the reads of the clock, the table and the hull and the write are
  steps of their own. The entry that follows the write is the matter of
  `HullDocuments`.
- `XerIngest` has one actor: a parse is a call.

## What is proved

`tlapm` checks these for every value of the constants that the modules'
assumptions allow: any number of requests, hulls, hazards and rules, any window.

**`AuditLedgerProofs`** (`ChainsLink`, `CommitsInOrder`, `LedgerTypes`,
`ExactVerification`). The
chain alone is not inductive: a commit inserts an entry that was computed two
statements before. The invariant adds `TxKnows`: a transaction that holds the
hull's lock, and has read, has read the digest of the last committed entry,
and the number it drew lies above every entry of its hull. The lock makes it
stable: no other transaction commits on the hull while it is held.
`LinkedGrows` says that a chain extended above its last entry is a chain.

`ExactVerification` is of the chain an auditor is handed. It lists a hull's
entries by their rank among the hull's numbers; that every place is taken once
is counted out (`PlacesInOrder`, `EveryPlaceTaken`), and from `Linked` each
entry carries the digest of the one before (`ChainInOrder`). `VerifyMeans` then
turns `verify_chain`'s first break into a statement about places. A digest is
the tuple of what was hashed, the empty one where nothing came before, so two
digests are equal only if what was hashed was (`SameDigest`, `DigestsDiffer`),
and each kind of edit has a lemma that names the place at which it shows: the
edited entry itself, or the one after it, whose previous digest is another
(`OutOfPlace`). A removal shows unless it is of the newest entry. The other half is
that nothing else is looked at (`RecordVerifies`): entries that agree in what is
hashed, or as many of them from the first, verify, whatever their number or subject,
or in format 1 their actor, has become.

**`HazardRegisterProofs`** (`RegisterTypes`, `RegisterLedgered`,
`EndsForGood`, `RegisterImplementsFacts`, `PastReadsStable`,
`OnlyOverlapsDuplicate`). The invariant adds `Accounts`: the
rows a handler holds as its own are its own, not yet on the record for what it
is about to record, and no two handlers hold the same row for the same entry.
From it follow the accounts between register and ledger. That the register
implements `HazardFacts` is then a case for each action: `RaiseRow` opens a
fact, `ClearRows` ends the open facts of a key, all others leave the list of
facts alone.

`EndsForGood` is of the memory's clearances by key. Its invariant (`FirstNamed`)
says that a row named by a clearance reads as ended, that a key has a clearance only
if one named a row of it, and that of the rows of a key the ones named come first: a
raise adds a row after them (`RaiseKeepsNamed`), and a clearance names all that are
live, or none if the key had one before (`ClearKeepsNamed`).

`PastReadsStable` and `OnlyOverlapsDuplicate` are of its reads. A read of
the past can move only by the handler `EndsOnce` speaks of: a row's end changes
once, and to the instant that handler read off the clock. For the duplicates the
invariant adds `Looked`: what a raising handler saw when it looked is a prefix
of the rows, and every open row of a key it is about to store was written by
another, after it looked. So a second row of a fact has an author that was
running when the first was written.

**`SearchProofs`** is of the two searches.

*Viable windows* (`WindowTypes`, `ExactVerdict`, `TrueAnswers`,
`ReadsEnough`, `TriesArePaid`). Two lemmas carry it. `LinesReachBack`: a line of the trace at an
instant is there at every instant back to its hazard's raise, so a refusal can
only begin at a raise and the instants looked at decide the window. `LinesLast`:
a line stays until its clock runs out, unless its hazard is ended on the way.
Hence from the window tried on, until the governing hold clears, every window is
shut, or the hazard's end was on file for a later instant when the hold was priced
(`HeldUntilClear`), and that is what `HeldAsPriced` says of a start. The invariant says that the windows from the planned
start up to the cursor have been found shut, and that while rules and hazards
are being read nothing has been tried or answered. `ReadsEnough` rests on
`LongestHold`: the tail is an end-anchored hold that none exceeds. `TriesArePaid`
counts the holds that have run out by the cursor (`HoldsRunOut`): a jump goes to
the instant the governing hold runs out, and that hold has run out from then on
(`ClockStays`) and had not before (`JumpPays`). It needs
finite tables and registers (`WindowAssumption`).

*The cascade* (`WalkTypes`, `HitsAreDistinct`, `ExactWalk`, `ShallowestHits`).
Completeness is the part that is not plain: a pair is marked visited when it is
first met, so an edge can be passed over because its end is a hit already, and
that hit could be too deep to stand for it. The invariant says why it is not
(`InOrder`): places are queued by depth, none above the one being expanded, and
no hit lies more than a hop below it. With it, each place reached is queued,
being expanded, or covered (`Pending`), and when the walk ends all are covered.
No coupling carries anything at the depth bytes saturate at (`CarriedBelowTop`),
so saturation loses nothing. `ShallowestHits` compares with walks defined by
their length, a function of the length that is recursive. That there is such a
function, and that it holds the ends of walks and no others, goes by the least
length at which it would not (`Least`, `EndsExist`); and the least depth at which
an end would not be a hit contradicts the walk's completeness at the depth
before (`ShallowIsCovered`, `EndsAreHit`).

**`ScheduleRunsProofs`** (`ScheduleTypes`, `HistoryNumbered`, `RunsLedgered`,
`MapsLedgered`, `PointerFollows`, `RunsImplementRegister`). The types say which
request makes which call over which store, of a dropped handler the call it was
at. `Order` carries the numbering: an import between taking the hull's lock and
its last write *has* the lock, so that the number it took is still the next; and
no run is in the history before its import is past that write. `Accounts` adds
what the entries need: a handler that has found a run may go on counting on it,
for runs are never removed, and a request has no entry before it is answered.
`MapRead` does the same for field maps: whatever map an import is about to be
recorded with is accounted for already. Over PostgreSQL pointer and document
move in one step. In memory the condition is that no serve and no revert has
begun to write (`Undisturbed`), which stays false once it is false
(`DisturbedStays`): until the entry is made the handler shows it, from then on
the ledger. While it is true, the pointer lags the document by one write of the
import that holds the lock, and moves to later runs only, so that a listing that
has flagged a run finds no earlier one served.

**`HullDocumentsProofs`** (`DocumentTypes`, `DocumentsLedgered`, `LedgerTells`,
`LoadsHonest`): everything the passing run checks. A request that has stored a
document either owes its entry - also after it was dropped or refused at the
ledger's call - or has made it, and that is stable (`AccountedStays`); the
document, and every copy a signature in PostgreSQL holds of it, is accounted for
in this way (`RecordInv`). What the last entry says needs more: for each kind
there is a last writer, and whoever else owes an entry, or has made one after
the writer's, owed it when the writer wrote (`LastWriter`), unless nothing was
written or an older table was written back (`Told`). A load has listed all it
stored but the file it is at, and a file is at most one call from being listed
(`StoredListed`).

**`DeskProofs`** (`DeskTypes`, `RecordsTrue`, `StaysOpen`, `LatestShown`). What a
handler read is stale when it writes; the invariant (`Sound`) says how stale it
can be. Whatever a request holds was read between its arrival and now, in the order it
reads: an option is of the offers of one version's hazards with the bookings of the
same or a later one, a key is of the board of such hazards and bookings and of rows
and logic read after them, a verdict of hazards read after the window it is
measured from, and an answer's rows are judged by a schedule and by entries that
were there while it was read. Versions and entries are only
added, so what was so of them stays so (`SoundKept`), and each action needs to
be looked at for its own request alone. Engine, assessment and board are left as
they are: nothing depends on what they answer, only on what they are asked.
`LatestShown` rests on `LastWord`: of the entries about a subject, the last one
known at the join is shown.

**`EngineProofs`** is of what rests on the engine alone, the rule table and the
boards. It begins with what they share.

*The engine.* Filters of the model are written as sequences put end to end; of
these it is proved, from the library's definition, that they hold what the parts
hold and nothing else (`Flat`, `Picked`). `found`, the hits of a walk after each
place, is a recursive function whose values stay in a set that every step keeps
(`Runs`, `Computed`), so a walk's hits and the paths to a space are sequences of
the hull's couplings (`CascadeType`, `PathsType`). Then a trace is a sequence of
lines, a state permits work just when no line refuses it (`PermitsExact`: the
board's decision and the quantifier the other models use are one), fewer rules
leave fewer lines (`FewerRules`), and a line that stands at an instant stood at
every instant back to its hazard's raise (`StoodBefore`).

*The rule table* (`TableFaithful`, `OneReading`, `FiringReported`,
`SheetsInOrder`, `ExportsReadBack`, `MovesAreExact`). An id is
*faithful* to a row if it was minted from what the row reads, or is a seed's
row's own. What `settle_versions` returns is faithful whatever it is given
(`SettledIsFaithful`), what the store has came from it, and an export, a
recompilation under another clock and a revert keep it so; two faithful ids that
are equal name one reading. `FiringReported`: a line is of some hazard and
row, and both stand where the door's report looks (`FiresThere`, `Unfound`):
the report walks from every hazard it was given, live or over, and a line is of
a live one. It needs that a row whose hold is anchored says so
(`hold_from`), which is part of the table's invariant.

What a sheet compiles to is the matter of `SheetInv`: what lies on the
desk is a sheet; what is stored is what its rows compile to on the clock it
was committed on; and a request at the door (`AtTheDoor`) has what its text compiled
to on the clock it read (`Brings`), the table in effect of a document there was,
on that clock (`Found`), and the spaces counted between the two at the instant it
read the hull (`Counted`). Nothing another request does disturbs this, since it is
of what the request holds. `TableInv` adds that every id named is faithful.
`RowReadsBack` is the round trip of one row, a column at a time;
a date is
kept by the door only if the calendar gives it back, and what is left is that the
instant it is read as lies in that day on the yard's wall (`MidnightOf`, `DateRead`). That is so where daylight time is ahead of standard time, and
`SpringsForward` is just that. A table in effect then reads back because it was
read: its entries are *clean*, that is such as a row compiles to, its ids no
row's blank (`TableReadsBack`, `SeedReadsBack`, `InEffectInOrder`).
`MovesAreExact`: an import compares the table it found with the one it brings, and
where the clock it read is that of the table found, the engine has these very rows. The two sides
are then read over one window, as long as the longer of the two tails, and each is
served over its own; what ended before its own tail leaves no line
(`SameStates`).

*The boards* (`BoardsServed`, `BoardsAlwaysAgree`, `ConflictsCovered`,
`OptionsAlwaysOpen`, `LeverageAlwaysWhole`, `PlansAlwaysNeeded`,
`HoursAlwaysAddUp`). That a board is of the hull and instant as they are, and
that whoever took an option found its space open, is the invariant (`BoardsInv`).
Agreement is then of two judgements of one space: the readiness board decides
under the rules of the space's category, the issue board under all of them, and
what fewer rules refuse more rules refuse (`HeldIsRefused`). For work planned over
the instant, the line that refuses it now stood at the later of the window's
start and the hazard's raise, which is one of the instants executability looks
at (`RefusedWithin`); the order the hazards were raised in does not enter.
`ConflictsCovered` puts each pair that `hot_vs_flammable` finds among the route's
pairs (`ConflictsFound`), which are finitely many (`PairsFinite`); what is not
listed of them is what the route says it dropped.

`OptionsAlwaysOpen` is about waiting. The clock of a line that refuses the space
lies ahead of it (`AheadOf`); where no hazard's end lies ahead the clock does not
move and the line stands until it, for ever if there is none (`Stands`). So a
refused space is shut until the last of its clocks (`Expiry`, `ShutUntil`), which
`blocking_expiry` returns. What is known after *n* passes of `settled_wait`
(`Known`, kept by each in `KnownPass`) is that the space is shut until the instant
arrived at, that what was settled on opens it, and that more than *n* different
expiries have been passed: as no two passes wait for the same one, the passes can
run out only where there are more expiries than passes. That is an exception the
property states; the code calls its 32 a backstop (`lib.rs` 477–479), and it is
one up to 32 expiries. For the reader who then waits, fewer hazards bear on the
later instant (`WaitOpens`: needs rules without dates and an instant not before
the one asked about, which is why each pass must lie ahead); for the one who
discharges a hazard, it bears on nothing from the moment it ends when no hold
outlasts an end (`DischargeOpens`).

`LeverageAlwaysWhole`: only spaces within reach of a change are asked, so the proof
is that no other can change. Every walk of a hazard is a walk of couplings, never
longer than the longest of their reaches (`CascadeIs`, `FurthestReach`); `reach`
holds the places so many hops from its seeds (`SeenRuns`); so a hazard says nothing
of a space out of reach of where it lies (`WalkStays`, `OutOfReach`), nor does a
coupling cut of a space no walk through it comes to (`CutElsewhere`,
`ChangesNear`). Levers are merged by `key`, and two actions of one key are the
same thing to do (`SameKey`), with the same effect (`SameEffect`).

`PlansAlwaysNeeded` is about a plan as it grows (`Growing`, kept by a pass in
`GrowsKeeps`): each hazard it discharges holds the space, with no clock, at some
instant up to the plan's wait, and its wait is the instant a clock runs out whose
line stood when the plan began. Leave one discharge out, and its line stands
still; leave the wait out, and the line on a clock does
(`StillBarred`, `EachIsNeeded`), unless the discharge of the same hazard answers
it too. That exception is `HeldBothWays`, found by proving: see
[below](#where-the-code-and-its-documents-disagree).

`HoursAlwaysAddUp` needs that a sum over a set does not depend on the order the
fold takes its elements in. `Sums` is the function that adds an element at a time,
recursive over sets by their size (`SumExists`); two such sums agree (`SumsAgree`),
and one over parts that share nothing is the sum of the parts' (`SumsSplit`,
`SumsParts`). A space's hours are then those held or workable (`HeldOrWorked`),
zones and decks are partitions of the register (`GroupsAre`), and what is booked is
in a space of the register or unattributed (`BoardAddsUp`). For a package's segments
the walks up and down are recursive functions that run out of steps; that they
mirror each other (`FoundUpstream`, `FoundDownstream`, `PackageMirrors`) holds where
no chain comes round to itself, which the analysis reports as a fault.

**`XerIngestProofs`** (`IngestsInOrder`, `NothingAlwaysSilent`, `LogicAlwaysWhole`,
`WindowsAlwaysHonest`, `HoursAlwaysLabor`): everything its run checks. The properties
speak of the export's own lines, the state of what was made of them; the invariant
that joins the two is `Read`: a section's rows are the whole ones of its lines, in
their order, and its fields are those of the last header above. So, where a section
is headed once, a row says what its line does (`RowsSay`), and what is proved of
rows holds of lines.

`Told` is the account. The rows that became rows of a table and those refused are
the rows read (`TasksBalance`, `PredsBalance`); of those resolved so far each is in
one list (`ListedOnce`), and no two refusals are of one line (`Apart`), whatever
order `ByRow` puts them in at the end, for that is a permutation (`Reordered`). An id
that was resolved is known by its code or by why it has none (`Known`), so that of
the logic rows done, those that join two served activities are the relationships
(`Logical`). That needs one id and one code to a task: a second row of an id takes
the first one's place in `codeOf`. A field the map names in vain is unresolved by
the very search the survey makes (`FieldFound`, `FieldSeen`, `SlotFound`).

`WindowsAlwaysHonest` is arithmetic first. Of a wall time only two instants can come
out, one by each offset, and each does when its own offset is in force at it
(`InstantsAre`); `to_utc` tries them in turn, and the four outcomes are no instant,
one, the other, or two (`WallIsRead`). Then every note is of some row's dates, and each
activity is dated as its row (`WindowsTold`), so that a note about a row can only say
what that row's reading did (`NotedOf`).

`HoursAlwaysLabor`: what is looked up once, before the first task, is a sum for each
task over the assignments that are not haulage (`AssignmentsSay`), a sum that does
not depend on the order the rows stand in, and no activity has other hours than its
task's (`HoursTold`). The last record of a resource decides what it is; where there
is one, that is what the file says (`ResourcesAre`, `KindIs`).

The assumptions are the named `ASSUME`s of the modules: stores, keys, requests
and sentinels are distinct; a ledger starts from linked chains; tables and
registers are functions to rules and hazards of the declared shape (an
end-anchored hold has a length, as the rule table's door requires); the ledger's
numbers are numbers,
the desk starts from a hull and a ledger, and of a hull the couplings, rules and
hazards are sequences, the activities finitely many, its instants integers (none
of them the sentinel), its rules' states the four there are, a coupling's reach and
a rule's hops numbers; its registers, orders and packages are finite, booked
and remaining hours natural numbers, and the root of a package's segments is none
of them (`HoursAssumption`). Of a sheet, what is blank or garbled is none of the
words and numbers a cell may hold; the yard's clocks are ones its validation admits, and none of them is the sentinel.
An export is a sequence of lines of cells; what a cell says as a wall time is a day and
a minute of it, as a quantity an integer; what is not said is no string and no record.

Checked by TLC only:

- liveness (`EveryAppendEnds`, `EveryRequestEnds`), which is beyond the prover; every
  other property of a passing run is stated by a theorem;
- `SignatureIsOfTheTable` of `HullDocuments`, which the code does not keep: its
  run is to find it violated.

## Where the code and its documents disagree

One disagreement is a run of its own, `documents_signed`: a table committed
between the authority's check and the store's write is served as signed, by a
signature of another hash (`wadl-api/src/rule_table.rs` 1253, against its own
1157–1158 and `wadl-store/src/memory.rs` 448).

The others were met while modelling. A reader of the properties should know
them, because several are why a property has the condition it has.

*Register, schedules, documents*

- In memory a clearance ends a *key* for good: a hazard raised again is stored
  and ledgered, never served, and closable by nothing (`memory.rs` 2014;
  `repo.rs` 572, `memory.rs` 1994 and the raise handler's own advice,
  `handlers.rs` 1553, say otherwise). `MemoryEndsForGood` says when, and that it is
  for good.
- In memory a serve, a revert and an import interleave between two locks, and the
  served pointer can name a run whose document is not served (`memory.rs` 2535,
  against 336–337). `PointerFollowsDoc` names the condition.
- A hazard log refused at a line has raised the lines before it, and no entry
  says so (`documents.rs` 991, against `load_docs.rs` 8–9 and `documents.rs`
  441–442).
- In PostgreSQL a signature writes back the document as it was read, over a
  commit or a revert made since (`pg_repo.rs` 1149). `LedgerSaysWhatIsStored`
  names the exception.
- "A silently altered or removed row breaks the chain" (`ledger.rs` 3–7; and
  `../README.md` 52, "detects tampering"). It is so of what is hashed. An entry's
  `subject_ref` is stored beside the hash (`pg_repo.rs` 2074, `memory.rs` 2915), as
  its migration says: "not trusted - a query narrows with it and then reads the
  detail" (`../migrations/0010_mitigation_decisions.sql` 24–32). The issue board joins
  acknowledgements and decisions by it and reads nothing else of the subject
  (`handlers.rs` 1289), and a withdrawal copies it (3763). An entry's number, and
  the actor of an entry of format 1, are outside the hash too.
- `verify_chain` cannot see the loss of the newest entries of a chain.

*Engine, windows, mitigation, boards*

- The search for a window slides to where the governing hold clears "until a window
  passes" and calls that "the earliest instant the governing holds allow"
  (`wadl-issues/src/lib.rs` 191–200, 214–215). A hold from a hazard's raise is priced
  for its full length (264–272) although the hazard's end may be on file for an
  instant before that, from which on `executability` itself calls the space open: open
  windows are jumped over. (Work of one unit planned at 2; a hazard raised at 1, held
  for three from its raise, its end on file for 3: the search answers 4, and 3 is
  executable.)
  `AnswersAreTrue` allows starts that are `HeldAsPriced`, and no others.
- "`NoWindow`: nothing of this duration fits before the horizon" (207–208, 227). It is
  also answered when the 32 tries run out (279); as each is paid for by a hold,
  a hull with that many on one space suffices, and no "malformed world" is needed
  (246–247).
- Executability is judged by the rules in force and the hazards bearing at the
  instant asked about, and changes with it (`rule_table.rs` 133, against
  `handlers.rs` 237–239 and `tests/activities.rs` 284).
- A discharge is worked out by taking the hazard away; a row whose hold runs from
  the hazard's *end* still holds the space after a real discharge (`wadl-mitigate`
  `lib.rs` 417–423, against "every option offered has been shown to work",
  707–708). `OptionsOpen` takes such rows out of what a discharge promises.
- A wait is priced under the rules of the instant asked about; a row with
  effective dates that begin or lapse during it is missed. That whoever takes an
  option finds the space open is stated of tables without such dates.
- "All of them are needed" (`lib.rs` 374) holds of a plan where no hazard has its
  end recorded in the future, and not of its wait where a hazard holds the space
  both on a clock and until it is looked to: its discharge answers the two, and
  the wait taken for the first is idle. `PlansAreNeeded` makes both exceptions.
- `holds_of` keeps one hold per code, source and hazard, so that a warning can
  hide a suspension of the same code.
- A package's governing constraint counts a warning as one that wants an
  authorization; hours of no package are in no package's total.

*Decisions, acknowledgements, proposals*

- "Superseded" is said to mean that the schedule moved (`handlers.rs` 3493–3494);
  a proposal for an activity without dates is superseded as soon as it is made.
- "An ack can never attach to a finding that is not on the board"
  (`handlers.rs` 1201–1202). Hazards, bookings, the board's rows and their logic are
  each a read of its own, so that a finding can join a hazard of one moment to an
  activity of a later one: an acknowledgement can attach to what no board served
  at any one moment, and a decision's recorded option can be on offer at none.
  `RecordsWereTrue` and `OpenUntilMoved` speak of the moments the reads were made.

*Ingest and civil time*

- A second section, or a second header, of one table with its columns in another
  order makes the earlier rows read by the later header (against `xer.rs` 8–11). What
  the properties say of cells is of files where this does not happen (`HeadedOnce`).
- A finding about a wall-clock time stays for a row that is quarantined later.
- The survey of user-defined fields falls back to an id as a name where the
  resolution does not, and does not look at the table a field belongs to.
  `NothingIsSilent` is of exports whose types have names.
- A task id given twice: logic joins the later, hours are counted for both
  (`LogicIsWhole` is of exports whose tasks have an id and a code each).
- A resource listed twice is what its last row says (`xer.rs` 385 inserts over the
  earlier one), with nothing said of it: an assignment of steel can count as labor.
  `HoursAreLabor` is of exports that list a resource once.
- An instant in a gap of daylight time is read as documented (`civil.rs`
  448–449) at the minute of the transition only, and a clock whose daylight time
  is *behind* its standard time resolves an overlap to the later reading, not
  the earlier (446–447). `WindowsAreHonest` says of every clock that the reading
  is one of the two and noted, and of clocks with daylight time ahead that it is the
  first.

*Rule table*

- A commit's `moved_spaces`, on the ledger and in its answer, are told between the
  table it brings and the one it read (`wadl-api/src/rule_table.rs` 1047, 1128): if
  another commit or a revert falls between the read and the write, the table replaced
  is not the one compared with. `MovedIsExact` is of the table read.
- "The versions in force are the stored entries'" (`wadl-api/src/rule_table.rs`
  455): for dated rows, with a clock changed after the commit, the table served
  and previewed is compiled afresh and gets new ids, while the store goes on
  applying the old entries. `MovedIsExact` is of the clock the table was
  committed on.
- `moved` judges a space under any work; the deck plan judges it by its category.
- "Cells are what the door exports back" (`memory.rs` 414–415), but rows that did
  not compile are not exported.
- "`compile(parse(export(set)))` is the identity" (`wadl-engine/src/rule_table.rs`
  11, 787) is not so of a clock whose daylight time is behind its standard time and
  changes at midnight: a midnight it skips is exported as the day before, and a
  re-import of the untouched sheet mints a new version. `ExportReadsBack` is of clocks
  that spring forward.
- An unknown hazard kind in a row whose hops are "n/a" is reported as not compiled
  and not refused.

## Not modelled

- **Characters**: decoding, quoting and formatting of XER, CSV and JSON, encodings,
  canonical hashes. A cell is a value; what a reader of it accepts is a constant.
- **Wording**: the text of traces, findings and advice, labels and prose columns.
- **Ranking and crowding**: the order options are listed in, and the count of work
  in a space; the cache a run is loaded into.
- **Gas readings** and the thresholds they meet, but for the states they lead to in
  `Engine`.
- **Identity and tenancy**: a request arrives in scope or not at all. Models are of
  one hull, except the ledger, where hulls share a table.
- **The semaphore and the timer**: only their effect, a dropped handler.
- **Watches, shift windows and the day's start** of `civil.rs`.
- **Coverage findings** of the ingest; the saturating ordinals of a table's rows.
- **The permit lifecycle**: types and transitions that no handler drives.
- **Overflow** of instants, dates and hours: they are `i64` in the code and numbers
  here. An instant of the years a hull lives is far from its ends.
- **Geometry and zones**: vertical couplings are taken as derived.
- **Reconciliation and budgets**, **the operator's commands**, **the web client**,
  routing and serialisation.

## The plan

Done, in this order: `HazardRegister` and `HazardFacts`; `AuditLedger` and
`LedgerVerify`; `ScheduleRuns` and `RunRegister`; `HullDocuments`; `CascadeWalk`;
`ViableWindow`; `Engine`, `Mitigation`, `IssueBoard`, `Packages` and `Readiness`,
composed in `HullWorld` and `HullBoards`; `Desk` over the same world;
`CivilTime` and `XerIngest`; `RuleTable` over `CivilTime` and `Engine`. Proofs
of everything the passing runs check but liveness.

Next modules:

1. `Hardening`: permits and timers around an abstract handler. Permits in use
   never exceed the limit and all come back.
2. `PermitLifecycle`: the typestate and the flat status, as a refinement.
3. Watches and shifts: they tile a day, the repeated hour included.
4. Geometry and zones: derived vertical edges, the zone audit.
5. Compositions: the hazard register over the ledger's transactions; the engine's
   reads over the register.
