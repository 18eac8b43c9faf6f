---------------------------- MODULE HullDocuments ----------------------------
(***************************************************************************)
(* The documents of one hull - its registers, books, charts, clock and     *)
(* rule table - and everything that replaces them: the doors of the API,   *)
(* their reverts, the safety authority's signature on the rule table, and  *)
(* the loader that takes a directory of files at boot or from the command  *)
(* line.  A handler is a sequence of store calls; others run between two.  *)
(*                                                                         *)
(* A door refuses a body with an error before it writes anything, and a    *)
(* dry run answers without writing: neither changes the state, and only    *)
(* the requests that pass are modelled.  A document is named by the        *)
(* request that stored it; of a rule table its hash is kept, because a     *)
(* signature is of a hash.  The field map's door is in ScheduleRuns.       *)
(***************************************************************************)
EXTENDS Integers, Sequences, FiniteSets

CONSTANTS
  Backends,     \* the stores the server may be started on
  Requests,     \* the requests ever made, each served by one handler run
  Doors,        \* the documents the requests may import, revert and sign
  Hashes,       \* the hashes of the rule tables there are
  Directories,  \* the sets of files a load may find
  Lines,        \* how many lines a hazard log has
  None          \* no request, no hash

\* The loader's order: the register before what names its spaces.
LoadOrder == <<"yard_clock", "p6_field_map", "compartment_register",
               "zone_register", "geometry_register", "coupling_register",
               "hazard_log">>
Files == {LoadOrder[i] : i \in DOMAIN LoadOrder}
First(files) ==
  LoadOrder[CHOOSE i \in DOMAIN LoadOrder :
              LoadOrder[i] \in files /\ \A j \in 1..(i - 1) : LoadOrder[j] \notin files]
Kinds == (Files \ {"hazard_log"}) \cup {"budget_book", "manning_book", "rule_table"}

ASSUME BackendAssumption == Backends \subseteq {"memory", "postgres"}
ASSUME DoorsAssumption == Doors \subseteq Kinds \ {"p6_field_map"}
ASSUME FilesAssumption == \A dir \in Directories : dir \subseteq Files /\ dir # {}
ASSUME LinesAssumption == Lines \in Nat \ {0}
ASSUME NamesAssumption == None \notin Requests \cup Hashes

VARIABLES
  backend,   \* the implementation of Repositories the server runs on
  docs,      \* the document stored of each kind
  raised,    \* the hazards raised from logs: by which load, of which line
  ledger,    \* the hull's document entries, oldest first
  req        \* each request's handler: where it is and what it holds

vars == <<backend, docs, raised, ledger, req>>

Unsigned == [by |-> None, table |-> None, seq |-> 0]
NoDoc == [by |-> None, table |-> None, signoff |-> Unsigned]

EndPcs == {"answered", "refused", "abandoned"}
PCs == {"idle", "put", "drop", "ledger", "read_table", "ledger_sign", "sign",
        "write_back", "file", "line"} \cup EndPcs

(* What a handler holds: the kind and the rule table it is about, the rule *)
(* table it read, the seq of its entry; for a load the files still to come,*)
(* the line it is at and the lines it will report.  The last three are     *)
(* history variables: who owed an entry about the same kind when it wrote, *)
(* the kinds a load has stored, the call it was dropped or refused at.     *)
Idle == [pc |-> "idle", op |-> "none", kind |-> "none", table |-> None,
         copy |-> NoDoc, seq |-> 0, files |-> {}, line |-> 0,
         lines |-> << >>, met |-> {}, stored |-> {}, next |-> "none"]

Go(r, pc) == req' = [req EXCEPT ![r].pc = pc]

(* A handler that is over keeps what the properties ask about it: a load   *)
(* all it did, one that still owes an entry what the entry was about.      *)
Over(h, pc) ==
  IF h.op = "load" \/ (h.pc = "ledger" /\ pc # "answered")
  THEN [h EXCEPT !.pc = pc, !.next = h.pc]
  ELSE [Idle EXCEPT !.pc = pc, !.met = h.met, !.copy = h.copy]
End(r, pc) == req' = [req EXCEPT ![r] = Over(req[r], pc)]
InFlight(r) == req[r].pc \notin {"idle"} \cup EndPcs

\* r has written a document of kind k and its entry is still to come, or
\* never will: the handler was dropped, or the ledger's call failed.
Owes(r, k) ==
  /\ req[r].kind = k
  /\ \/ req[r].pc = "ledger"
     \/ req[r].pc \in {"refused", "abandoned"} /\ req[r].next = "ledger"

AppendAudit(r, action) ==
  ledger' = Append(ledger, [action |-> action, by |-> r, kind |-> req[r].kind,
                            table |-> req[r].table])
-----------------------------------------------------------------------------
Init ==
  /\ backend \in Backends
  /\ docs = [k \in Kinds |-> NoDoc]
  /\ raised = {}
  /\ ledger = << >>
  /\ req = [r \in Requests |-> Idle]

(* The in-memory store's documents are loaded before the server serves,    *)
(* and a refused load ends the process; a load into PostgreSQL is a        *)
(* process of its own beside the server.                                   *)
Serving ==
  backend = "postgres" \/ \A r \in Requests : req[r].op = "load" => req[r].pc = "answered"
Booting == backend = "postgres" \/ \A r \in Requests : req[r].pc = "idle"

Ask(r, op, pc, kind, table) ==
  /\ Serving
  /\ kind \in Doors
  /\ req[r].pc = "idle"
  /\ req' = [req EXCEPT ![r] = [Idle EXCEPT !.pc = pc, !.op = op,
                                            !.kind = kind, !.table = table]]
  /\ UNCHANGED <<backend, docs, raised, ledger>>

Import(r, kind) == Ask(r, "import", "put", kind, None)
Revert(r, kind) == Ask(r, "revert", "drop", kind, None)

import_zones(r) == Import(r, "zone_register")
import_budgets(r) == Import(r, "budget_book")
import_manning(r) == Import(r, "manning_book")
import_geometry(r) == Import(r, "geometry_register")
import_register(r) == Import(r, "compartment_register")
import_couplings(r) == Import(r, "coupling_register")
import_yard_clock(r) == Import(r, "yard_clock")
import_rule_table(r) == \E h \in Hashes : Ask(r, "import", "put", "rule_table", h)

revert_zones(r) == Revert(r, "zone_register")
revert_budgets(r) == Revert(r, "budget_book")
revert_manning(r) == Revert(r, "manning_book")
revert_geometry(r) == Revert(r, "geometry_register")
revert_register(r) == Revert(r, "compartment_register")
revert_couplings(r) == Revert(r, "coupling_register")
revert_yard_clock(r) == Revert(r, "yard_clock")
revert_rule_table(r) == Revert(r, "rule_table")

\* The authority posts the hash of the table they read.
sign_rule_table(r) ==
  \E h \in Hashes : Ask(r, "sign", "read_table", "rule_table", h)

load_docs(r) ==
  /\ Booting
  /\ req[r].pc = "idle"
  /\ \E dir \in Directories :
       req' = [req EXCEPT ![r] = [Idle EXCEPT !.pc = "file", !.op = "load",
                                              !.files = dir]]
  /\ UNCHANGED <<backend, docs, raised, ledger>>
-----------------------------------------------------------------------------
(* Storing and discarding a document, and its entry.                       *)

Write(r, doc) ==
  /\ docs' = [docs EXCEPT ![req[r].kind] = doc]
  /\ req' = [req EXCEPT ![r].pc = "ledger",
                        ![r].met = @ \cup {q \in Requests : Owes(q, req[r].kind)},
                        ![r].stored = @ \cup {req[r].kind}]
  /\ UNCHANGED <<backend, raised, ledger>>

NewDoc(r) == [by |-> r, table |-> req[r].table, signoff |-> Unsigned]

\* Mutant: a document is stored when there is none, and not replaced.
PutIfAbsent(r) ==
  /\ req[r].pc = "put"
  /\ Write(r, IF docs[req[r].kind] = NoDoc THEN NewDoc(r) ELSE docs[req[r].kind])

Put(r) ==
  /\ req[r].pc = "put"
  /\ Write(r, NewDoc(r))

Drop(r) ==
  /\ req[r].pc = "drop"
  /\ Write(r, NoDoc)

\* The handler of a load goes on to its next file, or answers.
NextFile(h) ==
  LET left == h.files \ {h.kind}
  IN  [h EXCEPT !.files = left, !.pc = IF left = {} THEN "answered" ELSE "file"]

\* Mutant: only imports are put on the record.
LedgerImport(r) ==
  /\ req[r].pc = "ledger"
  /\ IF req[r].op = "import" THEN AppendAudit(r, "DOCUMENT_REPLACED")
                             ELSE UNCHANGED ledger
  /\ req' = [req EXCEPT ![r] =
       IF req[r].op = "load"
       THEN NextFile([req[r] EXCEPT
              !.lines = Append(@, [kind |-> req[r].kind, seq |-> Len(ledger) + 1])])
       ELSE Over(req[r], "answered")]
  /\ UNCHANGED <<backend, docs, raised>>

ledger_document(r) ==
  /\ req[r].pc = "ledger"
  /\ AppendAudit(r, IF req[r].op = "revert" THEN "DOCUMENT_REVERTED"
                                            ELSE "DOCUMENT_REPLACED")
  /\ req' = [req EXCEPT ![r] =
       IF req[r].op = "load"
       THEN NextFile([req[r] EXCEPT
              !.lines = Append(@, [kind |-> req[r].kind, seq |-> Len(ledger) + 1])])
       ELSE Over(req[r], "answered")]
  /\ UNCHANGED <<backend, docs, raised>>
-----------------------------------------------------------------------------
(* The signature: the table is read and checked, the ledger's entry is     *)
(* appended, and the store is told to put the signature on the document -  *)
(* whichever document that is by then.                                     *)

ReadTable(r) ==
  /\ req[r].pc = "read_table"
  /\ LET doc == docs["rule_table"]
     IN  IF /\ doc # NoDoc
            /\ doc.table = req[r].table
            /\ doc.signoff.table # doc.table
         THEN Go(r, "ledger_sign")
         ELSE End(r, "refused")
  /\ UNCHANGED <<backend, docs, raised, ledger>>

LedgerSign(r) ==
  /\ req[r].pc = "ledger_sign"
  /\ AppendAudit(r, "RULE_TABLE_SIGNED")
  /\ req' = [req EXCEPT ![r].pc = "sign", ![r].seq = Len(ledger) + 1]
  /\ UNCHANGED <<backend, docs, raised>>

SignOff(r) == [by |-> r, table |-> req[r].table, seq |-> req[r].seq]

\* The in-memory store signs the document it finds under one write lock.
SignInPlace(r) ==
  /\ backend = "memory"
  /\ req[r].pc = "sign"
  /\ IF docs["rule_table"] = NoDoc
     THEN End(r, "refused") /\ UNCHANGED docs
     ELSE /\ docs' = [docs EXCEPT !["rule_table"].signoff = SignOff(r)]
          /\ End(r, "answered")
  /\ UNCHANGED <<backend, raised, ledger>>

\* PostgreSQL reads the document in one transaction ...
ReadCopy(r) ==
  /\ backend = "postgres"
  /\ req[r].pc = "sign"
  /\ IF docs["rule_table"] = NoDoc
     THEN End(r, "refused")
     ELSE req' = [req EXCEPT ![r].pc = "write_back",
                             ![r].copy = [docs["rule_table"] EXCEPT !.signoff = SignOff(r)]]
  /\ UNCHANGED <<backend, docs, raised, ledger>>

\* ... and writes it whole, signed, in another.
WriteBack(r) ==
  /\ req[r].pc = "write_back"
  /\ docs' = [docs EXCEPT !["rule_table"] = req[r].copy]
  /\ End(r, "answered")
  /\ UNCHANGED <<backend, raised, ledger>>
-----------------------------------------------------------------------------
(* The loader.                                                             *)

\* The next file is parsed and checked against the register, and refuses
\* the load or is stored; a hazard log is raised line by line.
OpenFile(r) ==
  /\ req[r].pc = "file"
  /\ LET kind == First(req[r].files)
     IN  \E pc \in {"refused", IF kind = "hazard_log" THEN "line" ELSE "put"} :
       req' = [req EXCEPT ![r].kind = kind, ![r].pc = pc,
                          ![r].next = IF pc = "refused" THEN "file" ELSE "none",
                          ![r].line = IF pc = "line" THEN 1 ELSE 0]
  /\ UNCHANGED <<backend, docs, raised, ledger>>

\* A line whose space is not on the register refuses the file; one that is
\* already live is skipped; another is raised.
HazardLine(r) ==
  /\ req[r].pc = "line"
  /\ LET h     == req[r]
         after == [h EXCEPT !.line = @ + 1,
                            !.pc = IF h.line = Lines THEN "ledger" ELSE "line"]
     IN  \/ End(r, "refused") /\ UNCHANGED raised
         \/ req' = [req EXCEPT ![r] = after] /\ UNCHANGED raised
         \/ /\ raised' = raised \cup {<<r, h.line>>}
            /\ req' = [req EXCEPT ![r] = [after EXCEPT !.stored = @ \cup {"hazard_log"}]]
  /\ UNCHANGED <<backend, docs, ledger>>

\* Mutant: a file that cannot be stored is left out and the load goes on.
SkipFile(r) ==
  /\ backend = "postgres"
  /\ req[r].op = "load"
  /\ req[r].pc \in {"put", "line", "ledger"}
  /\ req' = [req EXCEPT ![r] = NextFile(req[r])]
  /\ UNCHANGED <<backend, docs, raised, ledger>>

\* A store call that fails refuses the load at its file.
FailLoad(r) ==
  /\ backend = "postgres"
  /\ req[r].op = "load"
  /\ req[r].pc \in {"put", "line", "ledger"}
  /\ End(r, "refused")
  /\ UNCHANGED <<backend, docs, raised, ledger>>

\* A handler over PostgreSQL is dropped at an await when it outlives the
\* request timeout, or returns early when a store call fails.
Abandon(r) ==
  /\ backend = "postgres"
  /\ InFlight(r)
  /\ End(r, "abandoned")
  /\ UNCHANGED <<backend, docs, raised, ledger>>

Next ==
  \E r \in Requests :
    \/ import_zones(r) \/ import_budgets(r) \/ import_manning(r)
    \/ import_geometry(r) \/ import_register(r) \/ import_couplings(r)
    \/ import_yard_clock(r) \/ import_rule_table(r)
    \/ revert_zones(r) \/ revert_budgets(r) \/ revert_manning(r)
    \/ revert_geometry(r) \/ revert_register(r) \/ revert_couplings(r)
    \/ revert_yard_clock(r) \/ revert_rule_table(r)
    \/ sign_rule_table(r) \/ load_docs(r)
    \/ Put(r) \/ Drop(r) \/ ledger_document(r)
    \/ ReadTable(r) \/ LedgerSign(r) \/ SignInPlace(r) \/ ReadCopy(r) \/ WriteBack(r)
    \/ OpenFile(r) \/ HazardLine(r) \/ FailLoad(r)
    \/ Abandon(r)

Spec == Init /\ [][Next]_vars
-----------------------------------------------------------------------------
EntriesOf(k) == {n \in DOMAIN ledger : ledger[n].kind = k
                                       /\ ledger[n].action # "RULE_TABLE_SIGNED"}

(* A signature cites the entry that put it on the record: by the same      *)
(* authority, of the same hash.                                            *)
SignatureIsLedgered ==
  LET s == docs["rule_table"].signoff
  IN  s # Unsigned =>
        /\ s.seq \in DOMAIN ledger
        /\ ledger[s.seq].action = "RULE_TABLE_SIGNED"
        /\ ledger[s.seq].by = s.by /\ ledger[s.seq].table = s.table

(* "Every door commit and every revert lands here": the document stored of *)
(* a kind is on the ledger, as DOCUMENT_REPLACED by the request that       *)
(* stored it, or that request still owes the entry.  So is the hazard log  *)
(* of a load that raised anything and was answered, and every signature.   *)
DocumentsAreLedgered ==
  /\ \A k \in Kinds :
       docs[k] # NoDoc =>
         \/ Owes(docs[k].by, k)
         \/ \E n \in EntriesOf(k) : /\ ledger[n].action = "DOCUMENT_REPLACED"
                                    /\ ledger[n].by = docs[k].by
                                    /\ ledger[n].table = docs[k].table
  /\ \A p \in raised :
       req[p[1]].pc = "answered" => \E n \in EntriesOf("hazard_log") : ledger[n].by = p[1]
  /\ SignatureIsLedgered

(* What an auditor reads: when nobody owes an entry about a kind, the last *)
(* entry about it says what is stored - unless the request it names still  *)
(* owed its entry when a later one wrote, so that the two are on the       *)
(* record in the opposite order, or a signature in PostgreSQL wrote back   *)
(* an older table.                                                         *)
Says(e, doc) == IF e.action = "DOCUMENT_REVERTED" THEN doc = NoDoc ELSE doc.by = e.by
WroteBack(k) == /\ k = "rule_table" /\ backend = "postgres"
                /\ \E r \in Requests : req[r].copy # NoDoc
LedgerSaysWhatIsStored ==
  \A k \in Kinds :
    (\A r \in Requests : ~Owes(r, k)) /\ EntriesOf(k) # {} =>
      LET last == CHOOSE n \in EntriesOf(k) : \A i \in EntriesOf(k) : i <= n
      IN  \/ Says(ledger[last], docs[k])
          \/ \E w \in Requests : ledger[last].by \in req[w].met
          \/ WroteBack(k)

(* A load that ends reports what it did: each line it prints cites its own *)
(* entry about that document, and a refused load has stored nothing it     *)
(* does not list but, at most, the file that refused it.                   *)
LoadReportIsHonest ==
  \A r \in Requests :
    LET h == req[r]
        listed == {h.lines[i].kind : i \in DOMAIN h.lines}
    IN  h.op = "load" /\ h.pc \in {"answered", "refused"} =>
          /\ \A i \in DOMAIN h.lines :
               LET e == ledger[h.lines[i].seq]
               IN  e.action = "DOCUMENT_REPLACED" /\ e.by = r /\ e.kind = h.lines[i].kind
          /\ h.stored \ listed \subseteq (IF h.pc = "refused" THEN {h.kind} ELSE {})

(* "The table_hash at signing - the document's, or the signature is void": *)
(* a signed table is served as signed without that being looked at again.  *)
SignatureIsOfTheTable ==
  LET doc == docs["rule_table"]
  IN  doc.signoff # Unsigned => doc.signoff.table = doc.table

=============================================================================
