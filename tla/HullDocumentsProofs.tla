------------------------ MODULE HullDocumentsProofs ------------------------
(***************************************************************************)
(* Proofs about HullDocuments, for every number of requests, every set of  *)
(* doors, hashes and directories and logs of any length, over both stores. *)
(***************************************************************************)
EXTENDS HullDocuments, TLAPS

Ops == {"none", "import", "revert", "sign", "load"}
KindsAndFiles == Kinds \cup Files
Tables == Hashes \cup {None}
SignOffs == [by : Requests \cup {None}, table : Tables, seq : Nat]
Docs == [by : Requests \cup {None}, table : Tables, signoff : SignOffs]
ReportLines == [kind : KindsAndFiles \cup {"none"}, seq : Nat]
Handlers ==
  [pc : PCs, op : Ops, kind : KindsAndFiles \cup {"none"}, table : Tables, copy : Docs,
   seq : Nat, files : SUBSET Files, line : Nat, lines : Seq(ReportLines),
   met : SUBSET Requests, stored : SUBSET (KindsAndFiles \cup {"none"}),
   next : PCs \cup {"none"}]
Actions == {"DOCUMENT_REPLACED", "DOCUMENT_REVERTED", "RULE_TABLE_SIGNED"}
Entries == [action : Actions, by : Requests, kind : KindsAndFiles \cup {"none"}, table : Tables]

(* Which requests make a call, and about what.                             *)
WellFormed(h) ==
  /\ h.pc = "idle" => h.op = "none" /\ h.met = {} /\ h.copy = NoDoc
  /\ h.pc = "put" => h.op \in {"import", "load"}
  /\ h.pc = "drop" => h.op = "revert"
  /\ h.pc = "ledger" => h.op \in {"import", "revert", "load"}
  /\ h.pc \in {"read_table", "ledger_sign", "sign", "write_back"} => h.op = "sign"
  /\ h.pc \in {"file", "line"} => h.op = "load"
  /\ h.pc = "file" => h.files # {}
  /\ h.pc = "line" => h.kind = "hazard_log"
  /\ h.pc = "write_back" => h.copy # NoDoc

TypeInv ==
  /\ backend \in {"memory", "postgres"}
  /\ docs \in [Kinds -> Docs]
  /\ raised \subseteq Requests \X Nat
  /\ ledger \in Seq(Entries)
  /\ req \in [Requests -> Handlers]
  /\ \A r \in Requests : WellFormed(req[r])
-----------------------------------------------------------------------------
USE NamesAssumption, BackendAssumption, DoorsAssumption, FilesAssumption, LinesAssumption
USE DEF EndPcs, PCs, Ops

(* A request arrives.                                                      *)
Arrives(r) ==
  \/ import_zones(r) \/ import_budgets(r) \/ import_manning(r)
  \/ import_geometry(r) \/ import_register(r) \/ import_couplings(r)
  \/ import_yard_clock(r) \/ import_rule_table(r)
  \/ revert_zones(r) \/ revert_budgets(r) \/ revert_manning(r)
  \/ revert_geometry(r) \/ revert_register(r) \/ revert_couplings(r)
  \/ revert_yard_clock(r) \/ revert_rule_table(r)
  \/ sign_rule_table(r) \/ load_docs(r)

Works(r) ==
  \/ Put(r) \/ Drop(r) \/ ledger_document(r)
  \/ ReadTable(r) \/ LedgerSign(r) \/ SignInPlace(r) \/ ReadCopy(r) \/ WriteBack(r)
  \/ OpenFile(r) \/ HazardLine(r) \/ FailLoad(r)
  \/ Abandon(r)

LEMMA Names ==
  /\ "rule_table" \in Kinds /\ "hazard_log" \in KindsAndFiles /\ Kinds \subseteq KindsAndFiles
  /\ Files \subseteq KindsAndFiles /\ Doors \subseteq Kinds
BY DEF Kinds, KindsAndFiles, Files, LoadOrder

LEMMA FirstIsFile ==
  ASSUME NEW files \in SUBSET Files, files # {}
  PROVE  First(files) \in KindsAndFiles
<1> DEFINE IsFirst(i) == LoadOrder[i] \in files /\ \A j \in 1..(i - 1) : LoadOrder[j] \notin files
<1>1. DOMAIN LoadOrder = 1..7 /\ \A i \in 1..7 : LoadOrder[i] \in Files
  BY DEF LoadOrder, Files
<1>2. \E i \in 1..7 : LoadOrder[i] \in files
  BY <1>1 DEF Files
<1>3. \E i \in 1..7 : IsFirst(i)
  <2>1. 1..0 = {} /\ 1..1 = {1} /\ 1..2 = {1, 2} /\ 1..3 = {1, 2, 3} /\ 1..4 = {1, 2, 3, 4}
        /\ 1..5 = {1, 2, 3, 4, 5} /\ 1..6 = {1, 2, 3, 4, 5, 6} /\ 1..7 = {1, 2, 3, 4, 5, 6, 7}
    OBVIOUS
  <2>2. CASE LoadOrder[1] \in files
    BY <2>1, <2>2
  <2>3. CASE LoadOrder[1] \notin files /\ LoadOrder[2] \in files
    BY <2>1, <2>3
  <2>4. CASE (\A j \in {1, 2} : LoadOrder[j] \notin files) /\ LoadOrder[3] \in files
    BY <2>1, <2>4
  <2>5. CASE (\A j \in {1, 2, 3} : LoadOrder[j] \notin files) /\ LoadOrder[4] \in files
    BY <2>1, <2>5
  <2>6. CASE (\A j \in {1, 2, 3, 4} : LoadOrder[j] \notin files) /\ LoadOrder[5] \in files
    BY <2>1, <2>6
  <2>7. CASE (\A j \in {1, 2, 3, 4, 5} : LoadOrder[j] \notin files) /\ LoadOrder[6] \in files
    BY <2>1, <2>7
  <2>8. CASE (\A j \in {1, 2, 3, 4, 5, 6} : LoadOrder[j] \notin files) /\ LoadOrder[7] \in files
    BY <2>1, <2>8
  <2> HIDE DEF IsFirst
  <2> QED
    BY <1>2, <2>1, <2>2, <2>3, <2>4, <2>5, <2>6, <2>7, <2>8
<1>4. LoadOrder[CHOOSE i \in DOMAIN LoadOrder : IsFirst(i)] \in Files
  <2> HIDE DEF IsFirst
  <2> QED
    BY <1>1, <1>3
<1> QED
  BY <1>4, Names DEF First

LEMMA Blank ==
  /\ NoDoc \in Docs /\ Unsigned \in SignOffs /\ NoDoc.signoff = Unsigned /\ NoDoc.by = None
  /\ Unsigned.by = None
  /\ Idle \in Handlers /\ Idle.pc = "idle" /\ Idle.op = "none" /\ Idle.kind = "none"
  /\ Idle.met = {} /\ Idle.copy = NoDoc /\ Idle.lines = << >> /\ Idle.stored = {}
  /\ Idle.next = "none"
<1>1. NoDoc \in Docs /\ Unsigned \in SignOffs /\ NoDoc.signoff = Unsigned /\ NoDoc.by = None
      /\ Unsigned.by = None
  BY DEF NoDoc, Unsigned, Docs, SignOffs, Tables
<1>2. << >> \in Seq(ReportLines) /\ 0 \in Nat
  OBVIOUS
<1> HIDE DEF NoDoc
<1> QED
  BY <1>1, <1>2 DEF Idle, Handlers, Tables

(* A handler's step is a step of that handler only.                        *)
Moved(r) ==
  /\ req' \in [Requests -> Handlers]
  /\ \A q \in Requests : q # r => req'[q] = req[q]
LEMMA Moves ==
  ASSUME TypeInv, NEW r \in Requests, NEW h \in Handlers, req' = [req EXCEPT ![r] = h]
  PROVE  Moved(r) /\ req'[r] = h
BY DEF TypeInv, Moved

(* What a handler keeps when it goes on, and when it is over.              *)
Same(r) ==
  /\ req'[r].op = req[r].op /\ req'[r].table = req[r].table
  /\ req'[r].lines = req[r].lines
Keeps(r) ==
  /\ Same(r) /\ req'[r].kind = req[r].kind /\ req'[r].stored = req[r].stored
  /\ req'[r].met = req[r].met /\ req'[r].files = req[r].files

LEMMA GoFields ==
  ASSUME TypeInv, NEW r \in Requests, NEW pc \in PCs, Go(r, pc)
  PROVE  Moved(r) /\ Keeps(r) /\ req'[r].pc = pc /\ req'[r].copy = req[r].copy
<1> DEFINE h == [req[r] EXCEPT !.pc = pc]
<1>0. req[r] \in Handlers
  BY DEF TypeInv
<1>1. h \in Handlers
  BY <1>0 DEF Handlers
<1>2. req' = [req EXCEPT ![r] = h]
  BY DEF Go
<1>3. Moved(r) /\ req'[r] = h
  <2> HIDE DEF h
  <2> QED
    BY <1>1, <1>2, Moves
<1> QED
  BY <1>3 DEF Keeps, Same, TypeInv, Handlers

LEMMA EndFields ==
  ASSUME TypeInv, NEW r \in Requests, NEW pc \in EndPcs, End(r, pc)
  PROVE  /\ Moved(r) /\ req'[r].pc = pc
         /\ req'[r].met = req[r].met /\ req'[r].copy = req[r].copy
         /\ IF req[r].op = "load" \/ (req[r].pc = "ledger" /\ pc # "answered")
            THEN Keeps(r) /\ req'[r].next = req[r].pc
            ELSE req'[r].op = "none" /\ req'[r].next = "none"
<1>0. req[r] \in Handlers
  BY DEF TypeInv
<1>1. CASE req[r].op = "load" \/ (req[r].pc = "ledger" /\ pc # "answered")
  <2> DEFINE a == [req[r] EXCEPT !.pc = pc]
             h == [a EXCEPT !.next = req[r].pc]
  <2>1. a \in Handlers /\ req[r].pc \in PCs
    BY <1>0 DEF Handlers
  <2>2. h \in Handlers
    <3> HIDE DEF a
    <3> QED
      BY <2>1 DEF Handlers
  <2>3. req' = [req EXCEPT ![r] = h]
    BY <1>1 DEF End, Over
  <2>4. Moved(r) /\ req'[r] = h
    <3> HIDE DEF h
    <3> QED
      BY <2>2, <2>3, Moves
  <2> QED
    BY <1>0, <1>1, <2>4 DEF Keeps, Same, Handlers
<1>2. CASE ~(req[r].op = "load" \/ (req[r].pc = "ledger" /\ pc # "answered"))
  <2> DEFINE a == [Idle EXCEPT !.pc = pc]
             b == [a EXCEPT !.met = req[r].met]
             h == [b EXCEPT !.copy = req[r].copy]
  <2>1. a \in Handlers /\ a.pc = pc /\ a.op = "none" /\ a.next = "none"
    BY Blank DEF Handlers
  <2>2. b \in Handlers /\ b.pc = pc /\ b.op = "none" /\ b.next = "none" /\ b.met = req[r].met
    <3> HIDE DEF a
    <3> QED
      BY <1>0, <2>1 DEF Handlers
  <2>3. /\ h \in Handlers /\ h.pc = pc /\ h.op = "none" /\ h.next = "none" /\ h.met = req[r].met
        /\ h.copy = req[r].copy
    <3> HIDE DEF b
    <3> QED
      BY <1>0, <2>2 DEF Handlers
  <2>4. req' = [req EXCEPT ![r] = h]
    BY <1>2 DEF End, Over
  <2>5. Moved(r) /\ req'[r] = h
    <3> HIDE DEF h
    <3> QED
      BY <2>3, <2>4, Moves
  <2> HIDE DEF h
  <2> QED
    BY <1>2, <2>3, <2>5
<1> QED
  BY <1>1, <1>2

LEMMA ArriveFields ==
  ASSUME TypeInv, NEW r \in Requests, Arrives(r)
  PROVE  /\ Moved(r) /\ WellFormed(req'[r]) /\ UNCHANGED <<backend, docs, raised, ledger>>
         /\ req[r].pc = "idle" /\ req'[r].pc \in {"put", "drop", "read_table", "file"}
         /\ req'[r].met = {} /\ req'[r].copy = NoDoc /\ req'[r].lines = << >>
         /\ req'[r].stored = {}
<1>1. CASE load_docs(r)
  <2>1. PICK dir \in Directories :
          req' = [req EXCEPT ![r] = [Idle EXCEPT !.pc = "file", !.op = "load", !.files = dir]]
    BY <1>1 DEF load_docs
  <2> DEFINE a == [Idle EXCEPT !.pc = "file"]
             b == [a EXCEPT !.op = "load"]
             h == [b EXCEPT !.files = dir]
  <2>2. a \in Handlers /\ a.pc = "file" /\ a.met = {} /\ a.copy = NoDoc /\ a.lines = << >>
        /\ a.stored = {}
    BY Blank DEF Handlers
  <2>3. b \in Handlers /\ b.pc = "file" /\ b.met = {} /\ b.copy = NoDoc /\ b.lines = << >>
        /\ b.stored = {} /\ b.op = "load"
    <3> HIDE DEF a
    <3> QED
      BY <2>2 DEF Handlers
  <2>4. h \in Handlers /\ h.pc = "file" /\ h.met = {} /\ h.copy = NoDoc /\ h.lines = << >>
        /\ h.stored = {} /\ h.op = "load" /\ h.files # {}
    <3> HIDE DEF b
    <3>1. dir \in SUBSET Files /\ dir # {}
      OBVIOUS
    <3> QED
      BY <2>3, <3>1 DEF Handlers
  <2>5. req' = [req EXCEPT ![r] = h]
    BY <2>1
  <2> HIDE DEF h
  <2>6. Moved(r) /\ req'[r] = h
    BY <2>4, <2>5, Moves
  <2> QED
    BY <1>1, <2>4, <2>6 DEF load_docs, WellFormed
<1>2. CASE ~load_docs(r)
  <2>1. PICK op \in {"import", "revert", "sign"}, pc \in {"put", "drop", "read_table"},
             kind \in Kinds, table \in Tables :
          /\ Ask(r, op, pc, kind, table)
          /\ \/ op = "import" /\ pc = "put"
             \/ op = "revert" /\ pc = "drop"
             \/ op = "sign" /\ pc = "read_table"
    BY <1>2, Names DEF Arrives, import_zones, import_budgets, import_manning, import_geometry,
       import_register, import_couplings, import_yard_clock, import_rule_table, revert_zones,
       revert_budgets, revert_manning, revert_geometry, revert_register, revert_couplings,
       revert_yard_clock, revert_rule_table, sign_rule_table, Import, Revert, Ask, Tables, Kinds, Files,
       LoadOrder
  <2> DEFINE a == [Idle EXCEPT !.pc = pc]
             b == [a EXCEPT !.op = op]
             c == [b EXCEPT !.kind = kind]
             h == [c EXCEPT !.table = table]
  <2>2. a \in Handlers /\ a.pc = pc /\ a.met = {} /\ a.copy = NoDoc /\ a.lines = << >>
        /\ a.stored = {}
    BY Blank DEF Handlers
  <2>3. b \in Handlers /\ b.pc = pc /\ b.met = {} /\ b.copy = NoDoc /\ b.lines = << >>
        /\ b.stored = {} /\ b.op = op
    <3> HIDE DEF a
    <3> QED
      BY <2>2 DEF Handlers
  <2>4. c \in Handlers /\ c.pc = pc /\ c.met = {} /\ c.copy = NoDoc /\ c.lines = << >>
        /\ c.stored = {} /\ c.op = op
    <3> HIDE DEF b
    <3> QED
      BY <2>3, Names DEF Handlers
  <2>5. h \in Handlers /\ h.pc = pc /\ h.met = {} /\ h.copy = NoDoc /\ h.lines = << >>
        /\ h.stored = {} /\ h.op = op
    <3> HIDE DEF c
    <3> QED
      BY <2>4 DEF Handlers
  <2>6. req' = [req EXCEPT ![r] = h]
    BY <2>1 DEF Ask
  <2> HIDE DEF h
  <2>7. Moved(r) /\ req'[r] = h
    BY <2>5, <2>6, Moves
  <2> QED
    BY <2>1, <2>5, <2>7 DEF Ask, WellFormed
<1> QED
  BY <1>1, <1>2

LEMMA WriteFields ==
  ASSUME TypeInv, NEW r \in Requests, NEW doc, Write(r, doc)
  PROVE  /\ Moved(r) /\ Same(r) /\ req'[r].pc = "ledger" /\ req'[r].kind = req[r].kind
         /\ req'[r].copy = req[r].copy
         /\ req'[r].met = req[r].met \cup {q \in Requests : Owes(q, req[r].kind)}
         /\ req'[r].stored = req[r].stored \cup {req[r].kind}
<1> DEFINE met == req[r].met \cup {q \in Requests : Owes(q, req[r].kind)}
           stored == req[r].stored \cup {req[r].kind}
<1>0. req[r] \in Handlers /\ met \in SUBSET Requests
      /\ stored \in SUBSET (KindsAndFiles \cup {"none"})
  BY DEF TypeInv, Handlers
<1> DEFINE a == [req[r] EXCEPT !.pc = "ledger"]
           b == [a EXCEPT !.met = met]
           h == [b EXCEPT !.stored = stored]
<1>1. req' = [req EXCEPT ![r] = h]
  BY DEF Write
<1> HIDE DEF met, stored
<1>2. a \in Handlers
  BY <1>0 DEF Handlers
<1>3. b \in Handlers
  <2> HIDE DEF a
  <2> QED
    BY <1>0, <1>2 DEF Handlers
<1>4. h \in Handlers
  <2> HIDE DEF b
  <2> QED
    BY <1>0, <1>3 DEF Handlers
<1>5. Moved(r) /\ req'[r] = h
  <2> HIDE DEF h
  <2> QED
    BY <1>1, <1>4, Moves
<1>6. /\ req'[r].pc = "ledger" /\ req'[r].met = met /\ req'[r].stored = stored
      /\ Same(r) /\ req'[r].kind = req[r].kind /\ req'[r].copy = req[r].copy
  BY <1>0, <1>5 DEF Same, Handlers
<1> QED
  BY <1>5, <1>6 DEF met, stored

(* A load reports the entry of a file and goes on.                         *)
LEMMA ReportFields ==
  ASSUME TypeInv, NEW r \in Requests, ledger_document(r), req[r].op = "load"
  PROVE  /\ Moved(r) /\ req'[r].op = "load" /\ req'[r].kind = req[r].kind
         /\ req'[r].met = req[r].met /\ req'[r].copy = req[r].copy
         /\ req'[r].stored = req[r].stored
         /\ req'[r].lines = Append(req[r].lines, [kind |-> req[r].kind, seq |-> Len(ledger) + 1])
         /\ \/ req'[r].pc = "answered"
            \/ req'[r].pc = "file" /\ req'[r].files # {}
<1> DEFINE lines == Append(req[r].lines, [kind |-> req[r].kind, seq |-> Len(ledger) + 1])
           left == req[r].files \ {req[r].kind}
           pc == IF left = {} THEN "answered" ELSE "file"
           a == [req[r] EXCEPT !.lines = lines]
           b == [a EXCEPT !.files = left]
           h == [b EXCEPT !.pc = pc]
<1>0. req[r] \in Handlers /\ ledger \in Seq(Entries)
  BY DEF TypeInv
<1>1. lines \in Seq(ReportLines)
  <2>1. req[r].lines \in Seq(ReportLines) /\ req[r].kind \in KindsAndFiles \cup {"none"}
        /\ Len(ledger) + 1 \in Nat
    BY <1>0 DEF Handlers
  <2> QED
    BY <2>1 DEF ReportLines
<1>2. left \in SUBSET Files /\ pc \in {"answered", "file"} /\ (pc = "file" => left # {})
  BY <1>0 DEF Handlers
<1>3. a \in Handlers /\ a.files = req[r].files /\ a.kind = req[r].kind
  <2> HIDE DEF lines
  <2> QED
    BY <1>0, <1>1 DEF Handlers
<1>4. b \in Handlers
  <2> HIDE DEF a, left
  <2> QED
    BY <1>2, <1>3 DEF Handlers
<1>5. h \in Handlers
  <2> HIDE DEF b, pc
  <2> QED
    BY <1>2, <1>4 DEF Handlers
<1>6. req' = [req EXCEPT ![r] = h]
  <2>1. NextFile(a) = h
    <3> HIDE DEF lines
    <3> QED
      BY <1>3 DEF NextFile
  <2>2. req' = [req EXCEPT ![r] = NextFile(a)]
    <3> HIDE DEF NextFile
    <3> QED
      BY DEF ledger_document
  <2> QED
    BY <2>1, <2>2
<1>7. Moved(r) /\ req'[r] = h
  <2> HIDE DEF h
  <2> QED
    BY <1>5, <1>6, Moves
<1>8. /\ req'[r].pc = pc /\ req'[r].files = left /\ req'[r].lines = lines
      /\ req'[r].op = req[r].op /\ req'[r].kind = req[r].kind /\ req'[r].met = req[r].met
      /\ req'[r].copy = req[r].copy /\ req'[r].stored = req[r].stored
  <2> HIDE DEF lines, left, pc
  <2> QED
    BY <1>0, <1>7 DEF Handlers
<1> QED
  BY <1>2, <1>7, <1>8 DEF lines

LEMMA SignFields ==
  ASSUME TypeInv, NEW r \in Requests, LedgerSign(r)
  PROVE  Moved(r) /\ Keeps(r) /\ req'[r].pc = "sign" /\ req'[r].copy = req[r].copy
         /\ req'[r].seq = Len(ledger) + 1
<1> DEFINE a == [req[r] EXCEPT !.pc = "sign"]
           h == [a EXCEPT !.seq = Len(ledger) + 1]
<1>0. req[r] \in Handlers /\ Len(ledger) + 1 \in Nat
  BY DEF TypeInv
<1>1. a \in Handlers
  BY <1>0 DEF Handlers
<1>2. h \in Handlers
  <2> HIDE DEF a
  <2> QED
    BY <1>0, <1>1 DEF Handlers
<1>3. req' = [req EXCEPT ![r] = h]
  BY DEF LedgerSign
<1>4. Moved(r) /\ req'[r] = h
  <2> HIDE DEF h
  <2> QED
    BY <1>2, <1>3, Moves
<1> QED
  BY <1>0, <1>4 DEF Keeps, Same, Handlers

(* A document signed is the document, but for its signature.               *)
LEMMA Signed ==
  ASSUME NEW doc \in Docs, NEW s \in SignOffs
  PROVE  /\ [doc EXCEPT !.signoff = s] \in Docs /\ [doc EXCEPT !.signoff = s].by = doc.by
         /\ [doc EXCEPT !.signoff = s].table = doc.table
         /\ [doc EXCEPT !.signoff = s].signoff = s
BY DEF Docs

LEMMA SignOffTyped ==
  ASSUME TypeInv, NEW r \in Requests
  PROVE  SignOff(r) \in SignOffs /\ SignOff(r).by = r /\ SignOff(r).seq = req[r].seq
         /\ SignOff(r).table = req[r].table /\ SignOff(r) # Unsigned
<1>1. req[r] \in Handlers
  BY DEF TypeInv
<1>2. SignOff(r) \in SignOffs
  BY <1>1 DEF SignOff, SignOffs, Handlers
<1> QED
  BY <1>2, Blank DEF SignOff

LEMMA CopyFields ==
  ASSUME TypeInv, NEW r \in Requests, ReadCopy(r), docs["rule_table"] # NoDoc
  PROVE  Moved(r) /\ Keeps(r) /\ req'[r].pc = "write_back"
         /\ req'[r].copy = [docs["rule_table"] EXCEPT !.signoff = SignOff(r)]
<1> DEFINE copy == [docs["rule_table"] EXCEPT !.signoff = SignOff(r)]
           a == [req[r] EXCEPT !.pc = "write_back"]
           h == [a EXCEPT !.copy = copy]
<1>0. req[r] \in Handlers
  BY DEF TypeInv
<1>1. copy \in Docs
  <2>1. docs["rule_table"] \in Docs
    BY Names DEF TypeInv
  <2> QED
    BY <2>1, SignOffTyped, Signed
<1>2. a \in Handlers
  BY <1>0 DEF Handlers
<1>3. h \in Handlers
  <2> HIDE DEF a, copy
  <2> QED
    BY <1>1, <1>2 DEF Handlers
<1>4. req' = [req EXCEPT ![r] = h]
  BY DEF ReadCopy
<1>5. Moved(r) /\ req'[r] = h
  <2> HIDE DEF h
  <2> QED
    BY <1>3, <1>4, Moves
<1>6. Keeps(r) /\ req'[r].pc = "write_back" /\ req'[r].copy = copy
  <2> HIDE DEF copy
  <2> QED
    BY <1>0, <1>5 DEF Keeps, Same, Handlers
<1> QED
  BY <1>5, <1>6

LEMMA OpenFields ==
  ASSUME TypeInv, NEW r \in Requests, OpenFile(r)
  PROVE  /\ Moved(r) /\ Same(r) /\ req'[r].met = req[r].met /\ req'[r].copy = req[r].copy
         /\ req'[r].stored = req[r].stored
         /\ \/ req'[r].pc = "refused" /\ req'[r].next = "file"
            \/ req'[r].pc = "put"
            \/ req'[r].pc = "line" /\ req'[r].kind = "hazard_log"
<1>0. req[r] \in Handlers /\ req[r].files \in SUBSET Files /\ req[r].files # {}
  BY DEF TypeInv, WellFormed, OpenFile, Handlers
<1> DEFINE kind == First(req[r].files)
<1>1. kind \in KindsAndFiles
  BY <1>0, FirstIsFile
<1>2. PICK pc \in {"refused", IF kind = "hazard_log" THEN "line" ELSE "put"} :
        req' = [req EXCEPT ![r].kind = kind, ![r].pc = pc,
                           ![r].next = IF pc = "refused" THEN "file" ELSE "none",
                           ![r].line = IF pc = "line" THEN 1 ELSE 0]
  BY DEF OpenFile
<1> DEFINE next == IF pc = "refused" THEN "file" ELSE "none"
           line == IF pc = "line" THEN 1 ELSE 0
           a == [req[r] EXCEPT !.kind = kind]
           b == [a EXCEPT !.pc = pc]
           c == [b EXCEPT !.next = next]
           h == [c EXCEPT !.line = line]
<1>3. req' = [req EXCEPT ![r] = h]
  BY <1>2
<1>4. /\ pc \in {"refused", "line", "put"} /\ next \in {"file", "none"} /\ line \in Nat
      /\ pc = "line" => kind = "hazard_log"
      /\ pc = "refused" => next = "file"
  OBVIOUS
<1> HIDE DEF kind, next, line
<1>5. a \in Handlers
  BY <1>0, <1>1 DEF Handlers
<1>6. b \in Handlers
  <2> HIDE DEF a
  <2> QED
    BY <1>4, <1>5 DEF Handlers
<1>7. c \in Handlers
  <2> HIDE DEF b
  <2> QED
    BY <1>4, <1>6 DEF Handlers
<1>8. h \in Handlers
  <2> HIDE DEF c
  <2> QED
    BY <1>4, <1>7 DEF Handlers
<1>9. Moved(r) /\ req'[r] = h
  <2> HIDE DEF h
  <2> QED
    BY <1>3, <1>8, Moves
<1>10. /\ Same(r) /\ req'[r].met = req[r].met /\ req'[r].copy = req[r].copy
       /\ req'[r].stored = req[r].stored
       /\ req'[r].pc = pc /\ req'[r].kind = kind /\ req'[r].next = next
  BY <1>0, <1>9 DEF Same, Handlers
<1> QED
  BY <1>4, <1>9, <1>10

LEMMA LineFields ==
  ASSUME TypeInv, NEW r \in Requests, HazardLine(r)
  PROVE  \/ End(r, "refused") /\ UNCHANGED raised
         \/ /\ Moved(r) /\ Same(r) /\ req'[r].kind = req[r].kind /\ req'[r].met = req[r].met
            /\ req'[r].copy = req[r].copy /\ req'[r].pc \in {"line", "ledger"}
            /\ \/ UNCHANGED raised /\ req'[r].stored = req[r].stored
               \/ /\ \E n \in Nat : raised' = raised \cup {<<r, n>>}
                  /\ req'[r].stored = req[r].stored \cup {"hazard_log"}
<1> DEFINE pc == IF req[r].line = Lines THEN "ledger" ELSE "line"
           a == [req[r] EXCEPT !.line = req[r].line + 1]
           h == [a EXCEPT !.pc = pc]
           stored == req[r].stored \cup {"hazard_log"}
           g == [h EXCEPT !.stored = stored]
<1>0. req[r] \in Handlers /\ pc \in {"ledger", "line"} /\ req[r].line \in Nat
      /\ req[r].line + 1 \in Nat
  BY DEF TypeInv, Handlers
<1>1. stored \in SUBSET (KindsAndFiles \cup {"none"})
  BY <1>0, Names DEF Handlers
<1>2. a \in Handlers
  BY <1>0 DEF Handlers
<1>3. h \in Handlers
  <2> HIDE DEF a, pc
  <2> QED
    BY <1>0, <1>2 DEF Handlers
<1>4. g \in Handlers
  <2> HIDE DEF h, stored
  <2> QED
    BY <1>1, <1>3 DEF Handlers
<1>5. \/ End(r, "refused") /\ UNCHANGED raised
      \/ req' = [req EXCEPT ![r] = h] /\ UNCHANGED raised
      \/ /\ raised' = raised \cup {<<r, req[r].line>>}
         /\ req' = [req EXCEPT ![r] = g]
  BY DEF HazardLine
<1>6. CASE req' = [req EXCEPT ![r] = h] /\ UNCHANGED raised
  <2>1. Moved(r) /\ req'[r] = h
    <3> HIDE DEF h
    <3> QED
      BY <1>3, <1>6, Moves
  <2>2. /\ Same(r) /\ req'[r].kind = req[r].kind /\ req'[r].met = req[r].met
        /\ req'[r].copy = req[r].copy /\ req'[r].stored = req[r].stored /\ req'[r].pc = pc
    <3> HIDE DEF pc
    <3> QED
      BY <1>0, <2>1 DEF Same, Handlers
  <2> HIDE DEF pc
  <2> QED
    BY <1>0, <1>6, <2>1, <2>2
<1>7. CASE raised' = raised \cup {<<r, req[r].line>>} /\ req' = [req EXCEPT ![r] = g]
  <2>1. Moved(r) /\ req'[r] = g
    <3> HIDE DEF g
    <3> QED
      BY <1>4, <1>7, Moves
  <2>2. /\ Same(r) /\ req'[r].kind = req[r].kind /\ req'[r].met = req[r].met
        /\ req'[r].copy = req[r].copy /\ req'[r].stored = stored /\ req'[r].pc = pc
    <3> HIDE DEF pc, stored
    <3> QED
      BY <1>0, <2>1 DEF Same, Handlers
  <2> HIDE DEF pc
  <2> QED
    BY <1>0, <1>7, <2>1, <2>2
<1> QED
  BY <1>5, <1>6, <1>7
-----------------------------------------------------------------------------
(* Types.                                                                  *)

LEMMA TypedByMover ==
  ASSUME TypeInv, NEW r \in Requests, Moved(r), WellFormed(req'[r]), UNCHANGED backend,
         docs' \in [Kinds -> Docs], raised' \subseteq Requests \X Nat, ledger' \in Seq(Entries)
  PROVE  TypeInv'
<1>1. \A q \in Requests : WellFormed(req'[q])
  BY DEF TypeInv, Moved
<1> HIDE DEF WellFormed
<1>2. (\A q \in Requests : WellFormed(req[q]))'
  BY <1>1 DEF WellFormed
<1> QED
  BY <1>2 DEF TypeInv, Moved

LEMMA EntryAppended ==
  ASSUME TypeInv, NEW r \in Requests, NEW action \in Actions, AppendAudit(r, action)
  PROVE  /\ ledger' \in Seq(Entries) /\ Len(ledger') = Len(ledger) + 1
         /\ \A n \in 1..Len(ledger) : ledger'[n] = ledger[n]
         /\ ledger'[Len(ledger) + 1] = [action |-> action, by |-> r, kind |-> req[r].kind,
                                        table |-> req[r].table]
<1> DEFINE e == [action |-> action, by |-> r, kind |-> req[r].kind, table |-> req[r].table]
<1>1. e \in Entries /\ ledger \in Seq(Entries)
  <2>1. req[r] \in Handlers
    BY DEF TypeInv
  <2> QED
    BY <2>1 DEF TypeInv, Entries, Handlers
<1>2. ledger' = Append(ledger, e)
  BY DEF AppendAudit
<1> HIDE DEF e
<1>3. /\ ledger' \in Seq(Entries) /\ Len(ledger') = Len(ledger) + 1
      /\ \A n \in 1..Len(ledger) : ledger'[n] = ledger[n]
      /\ ledger'[Len(ledger) + 1] = e
  BY <1>1, <1>2
<1> QED
  BY <1>3 DEF e

LEMMA NewDocTyped ==
  ASSUME TypeInv, NEW r \in Requests
  PROVE  NewDoc(r) \in Docs /\ NewDoc(r).by = r /\ NewDoc(r).table = req[r].table
         /\ NewDoc(r).signoff = Unsigned /\ NewDoc(r) # NoDoc
<1>1. req[r] \in Handlers
  BY DEF TypeInv
<1> QED
  BY <1>1, Blank DEF NewDoc, Docs, Handlers

LEMMA InitTypeInv ==
  ASSUME Init
  PROVE  TypeInv
BY Blank DEF Init, TypeInv, WellFormed

LEMMA WorksTypeInv ==
  ASSUME TypeInv, NEW r \in Requests, Works(r)
  PROVE  TypeInv'
<1>0. /\ docs \in [Kinds -> Docs] /\ raised \subseteq Requests \X Nat /\ ledger \in Seq(Entries)
      /\ req[r] \in Handlers /\ WellFormed(req[r])
  BY DEF TypeInv
<1>1. \A doc \in Docs : Write(r, doc) /\ WellFormed(req'[r]) => TypeInv'
  <2> SUFFICES ASSUME NEW doc \in Docs, Write(r, doc), WellFormed(req'[r])
               PROVE  TypeInv'
    OBVIOUS
  <2>1. Moved(r)
    BY WriteFields
  <2>2. docs' \in [Kinds -> Docs] /\ UNCHANGED <<backend, raised, ledger>>
    BY <1>0 DEF Write
  <2> QED
    BY <1>0, <2>1, <2>2, TypedByMover
<1>2. CASE Put(r)
  <2>1. WellFormed(req'[r])
    BY <1>0, <1>2, WriteFields DEF Put, WellFormed, Same
  <2> QED
    BY <1>1, <1>2, <2>1, NewDocTyped DEF Put
<1>3. CASE Drop(r)
  <2>1. WellFormed(req'[r])
    BY <1>0, <1>3, WriteFields DEF Drop, WellFormed, Same
  <2> QED
    BY <1>1, <1>3, <2>1, Blank DEF Drop
<1>4. CASE ledger_document(r)
  <2>1. ledger' \in Seq(Entries) /\ UNCHANGED <<backend, docs, raised>>
    BY <1>4, EntryAppended DEF ledger_document, Actions
  <2>2. CASE req[r].op = "load"
    <3>1. Moved(r) /\ WellFormed(req'[r])
      BY <1>4, <2>2, ReportFields DEF WellFormed
    <3> QED
      BY <1>0, <2>1, <3>1, TypedByMover
  <2>3. CASE req[r].op # "load"
    <3>1. End(r, "answered")
      BY <1>4, <2>3 DEF ledger_document, End
    <3>2. Moved(r) /\ WellFormed(req'[r])
      BY <3>1, EndFields DEF WellFormed
    <3> QED
      BY <1>0, <2>1, <3>2, TypedByMover
  <2> QED
    BY <2>2, <2>3
<1>5. \A pc \in EndPcs : End(r, pc) => Moved(r) /\ WellFormed(req'[r])
  BY EndFields DEF WellFormed
<1>6. CASE ReadTable(r)
  <2>1. Moved(r) /\ WellFormed(req'[r])
    <3>1. CASE Go(r, "ledger_sign")
      BY <1>0, <1>6, <3>1, GoFields DEF ReadTable, WellFormed, Keeps, Same
    <3> QED
      BY <1>5, <1>6, <3>1 DEF ReadTable
  <2> QED
    BY <1>0, <1>6, <2>1, TypedByMover DEF ReadTable
<1>7. CASE LedgerSign(r)
  <2>1. Moved(r) /\ WellFormed(req'[r])
    BY <1>0, <1>7, SignFields DEF LedgerSign, WellFormed, Keeps, Same
  <2>2. ledger' \in Seq(Entries)
    BY <1>7, EntryAppended DEF LedgerSign, Actions
  <2> QED
    BY <1>0, <1>7, <2>1, <2>2, TypedByMover DEF LedgerSign
<1>8. CASE SignInPlace(r)
  <2>1. Moved(r) /\ WellFormed(req'[r])
    BY <1>5, <1>8 DEF SignInPlace
  <2>2. docs' \in [Kinds -> Docs]
    <3>1. [docs["rule_table"] EXCEPT !.signoff = SignOff(r)] \in Docs
      BY <1>0, Names, SignOffTyped, Signed
    <3>2. docs' = docs
          \/ docs' = [docs EXCEPT !["rule_table"] =
                        [docs["rule_table"] EXCEPT !.signoff = SignOff(r)]]
      BY <1>8 DEF SignInPlace
    <3> QED
      BY <1>0, <3>1, <3>2
  <2> QED
    BY <1>0, <1>8, <2>1, <2>2, TypedByMover DEF SignInPlace
<1>9. CASE ReadCopy(r)
  <2>1. Moved(r) /\ WellFormed(req'[r])
    <3>1. CASE docs["rule_table"] = NoDoc
      BY <1>5, <1>9, <3>1 DEF ReadCopy
    <3>2. CASE docs["rule_table"] # NoDoc
      <4>1. /\ Moved(r) /\ Keeps(r) /\ req'[r].pc = "write_back"
            /\ req'[r].copy = [docs["rule_table"] EXCEPT !.signoff = SignOff(r)]
        BY <1>9, <3>2, CopyFields
      <4>2. req'[r].copy # NoDoc
        <5>1. req'[r].copy.signoff = SignOff(r)
          BY <1>0, <4>1, Names, SignOffTyped, Signed
        <5> QED
          BY <5>1, SignOffTyped, Blank
      <4>3. req[r].op = "sign"
        BY <1>0, <1>9 DEF ReadCopy, WellFormed
      <4> QED
        BY <4>1, <4>2, <4>3 DEF WellFormed, Keeps, Same
    <3> QED
      BY <3>1, <3>2
  <2> QED
    BY <1>0, <1>9, <2>1, TypedByMover DEF ReadCopy
<1>10. CASE WriteBack(r)
  <2>1. Moved(r) /\ WellFormed(req'[r])
    BY <1>5, <1>10 DEF WriteBack
  <2>2. docs' \in [Kinds -> Docs]
    BY <1>0, <1>10 DEF WriteBack, Handlers
  <2> QED
    BY <1>0, <1>10, <2>1, <2>2, TypedByMover DEF WriteBack
<1>11. CASE OpenFile(r)
  <2>1. Moved(r) /\ WellFormed(req'[r])
    BY <1>0, <1>11, OpenFields DEF OpenFile, WellFormed, Same
  <2> QED
    BY <1>0, <1>11, <2>1, TypedByMover DEF OpenFile
<1>12. CASE HazardLine(r)
  <2>1. Moved(r) /\ WellFormed(req'[r]) /\ raised' \subseteq Requests \X Nat
    <3>1. CASE End(r, "refused") /\ UNCHANGED raised
      BY <1>0, <1>5, <3>1
    <3>2. CASE ~(End(r, "refused") /\ UNCHANGED raised)
      <4>1. /\ Moved(r) /\ Same(r) /\ req'[r].kind = req[r].kind
            /\ req'[r].pc \in {"line", "ledger"}
            /\ UNCHANGED raised \/ \E n \in Nat : raised' = raised \cup {<<r, n>>}
        BY <1>12, <3>2, LineFields
      <4>2. raised' \subseteq Requests \X Nat
        BY <1>0, <4>1
      <4>3. WellFormed(req'[r])
        BY <1>0, <1>12, <4>1 DEF HazardLine, WellFormed, Same
      <4> QED
        BY <4>1, <4>2, <4>3
    <3> QED
      BY <3>1, <3>2
  <2> QED
    BY <1>0, <1>12, <2>1, TypedByMover DEF HazardLine
<1>13. CASE FailLoad(r)
  BY <1>0, <1>5, <1>13, TypedByMover DEF FailLoad
<1>14. CASE Abandon(r)
  BY <1>0, <1>5, <1>14, TypedByMover DEF Abandon
<1> QED
  BY <1>2, <1>3, <1>4, <1>6, <1>7, <1>8, <1>9, <1>10, <1>11, <1>12, <1>13, <1>14 DEF Works

LEMMA StepTypeInv ==
  ASSUME TypeInv, [Next]_vars
  PROVE  TypeInv'
<1>1. CASE UNCHANGED vars
  BY <1>1 DEF TypeInv, vars, WellFormed
<1>2. CASE Next
  <2>1. PICK r \in Requests : Arrives(r) \/ Works(r)
    BY <1>2 DEF Next, Arrives, Works
  <2>2. CASE Arrives(r)
    <3>1. docs' \in [Kinds -> Docs] /\ raised' \subseteq Requests \X Nat /\ ledger' \in Seq(Entries)
      BY <2>2, ArriveFields DEF TypeInv
    <3> QED
      BY <2>2, <3>1, ArriveFields, TypedByMover
  <2> QED
    BY <2>1, <2>2, WorksTypeInv
<1> QED
  BY <1>1, <1>2

(* Every document, entry and handler keeps its shape, and a handler only   *)
(* reaches the calls its operation makes (documents.rs; memory.rs,         *)
(* pg_repo.rs for the stores).                                             *)
THEOREM DocumentTypes == Spec => []TypeInv
BY InitTypeInv, StepTypeInv, PTL DEF Spec
-----------------------------------------------------------------------------
(* What a step does to the ledger and to the documents.                    *)

LEMMA Steps ==
  ASSUME [Next]_vars
  PROVE  UNCHANGED vars \/ \E r \in Requests : Arrives(r) \/ Works(r)
BY DEF Next, Arrives, Works

LEMMA MoverOnly ==
  ASSUME TypeInv, NEW r \in Requests, Arrives(r) \/ Works(r)
  PROVE  Moved(r)
<1>1. \A pc \in EndPcs : End(r, pc) => Moved(r)
  BY EndFields
<1>2. CASE Arrives(r)
  BY <1>2, ArriveFields
<1>3. CASE Put(r) \/ Drop(r)
  BY <1>3, WriteFields DEF Put, Drop
<1>4. CASE ledger_document(r)
  <2>1. CASE req[r].op = "load"
    BY <1>4, <2>1, ReportFields
  <2>2. CASE req[r].op # "load"
    <3>1. End(r, "answered")
      BY <1>4, <2>2 DEF ledger_document, End
    <3> QED
      BY <1>1, <3>1
  <2> QED
    BY <2>1, <2>2
<1>5. CASE ReadTable(r)
  BY <1>1, <1>5, GoFields DEF ReadTable
<1>6. CASE LedgerSign(r)
  BY <1>6, SignFields
<1>7. CASE ReadCopy(r)
  BY <1>1, <1>7, CopyFields DEF ReadCopy
<1>8. CASE SignInPlace(r) \/ WriteBack(r) \/ FailLoad(r) \/ Abandon(r)
  BY <1>1, <1>8 DEF SignInPlace, WriteBack, FailLoad, Abandon
<1>9. CASE OpenFile(r)
  BY <1>9, OpenFields
<1>10. CASE HazardLine(r)
  BY <1>1, <1>10, LineFields
<1> QED
  BY <1>2, <1>3, <1>4, <1>5, <1>6, <1>7, <1>8, <1>9, <1>10 DEF Works

LEMMA OthersWait ==
  ASSUME TypeInv, [Next]_vars, NEW r \in Requests, req'[r] # req[r]
  PROVE  Arrives(r) \/ Works(r)
<1>1. PICK q \in Requests : Arrives(q) \/ Works(q)
  BY Steps DEF vars
<1>2. Moved(q)
  BY <1>1, MoverOnly
<1> QED
  BY <1>1, <1>2 DEF Moved

LEMMA LedgerGrows ==
  ASSUME TypeInv, [Next]_vars
  PROVE  /\ DOMAIN ledger \subseteq DOMAIN ledger'
         /\ \A n \in DOMAIN ledger : ledger'[n] = ledger[n]
         /\ DOMAIN ledger = 1..Len(ledger) /\ Len(ledger) \in Nat
<1>1. UNCHANGED ledger \/ \E r \in Requests : ledger_document(r) \/ LedgerSign(r)
  <2>1. CASE UNCHANGED vars
    BY <2>1 DEF vars
  <2>2. CASE \E r \in Requests : Arrives(r) \/ Works(r)
    <3>1. PICK r \in Requests : Arrives(r) \/ Works(r)
      BY <2>2
    <3>2. CASE Arrives(r)
      BY <3>2, ArriveFields
    <3>3. CASE Works(r)
      BY <3>3 DEF Works, Put, Drop, Write, ReadTable, SignInPlace, ReadCopy, WriteBack,
         OpenFile, HazardLine, FailLoad, Abandon
    <3> QED
      BY <3>1, <3>2, <3>3
  <2> QED
    BY <2>1, <2>2, Steps
<1>2. ASSUME NEW r \in Requests, ledger_document(r) \/ LedgerSign(r)
      PROVE  \E action \in Actions : AppendAudit(r, action)
  BY <1>2 DEF ledger_document, LedgerSign, Actions
<1>3. ledger \in Seq(Entries)
  BY DEF TypeInv
<1>4. CASE UNCHANGED ledger
  BY <1>3, <1>4
<1>5. CASE \E r \in Requests : \E action \in Actions : AppendAudit(r, action)
  <2>1. PICK r \in Requests, action \in Actions : AppendAudit(r, action)
    BY <1>5
  <2>2. /\ ledger' \in Seq(Entries) /\ Len(ledger') = Len(ledger) + 1
        /\ \A n \in 1..Len(ledger) : ledger'[n] = ledger[n]
    BY <2>1, EntryAppended
  <2> QED
    BY <1>3, <2>2
<1> QED
  BY <1>1, <1>2, <1>4, <1>5

(* A handler that owes an entry appends it, or is dropped or refused owing *)
(* it; one that is over makes no step.                                     *)
LEMMA OwerSteps ==
  ASSUME TypeInv, NEW r \in Requests, req[r].pc \in {"ledger", "answered", "refused", "abandoned"},
         Arrives(r) \/ Works(r)
  PROVE  /\ req[r].pc = "ledger"
         /\ \/ ledger_document(r)
            \/ /\ FailLoad(r) \/ Abandon(r)
               /\ Moved(r) /\ Keeps(r) /\ req'[r].pc \in {"refused", "abandoned"}
               /\ req'[r].next = "ledger"
<1>1. ~Arrives(r)
  BY ArriveFields
<1>2. Works(r)
  BY <1>1
<1>3. ledger_document(r) \/ FailLoad(r) \/ Abandon(r)
  BY <1>2 DEF Works, Put, Drop, ReadTable, LedgerSign, SignInPlace, ReadCopy, WriteBack,
     OpenFile, HazardLine
<1>4. req[r].pc = "ledger"
  BY <1>3 DEF ledger_document, FailLoad, Abandon, InFlight
<1>5. CASE FailLoad(r) \/ Abandon(r)
  <2>1. PICK pc \in {"refused", "abandoned"} : End(r, pc)
    BY <1>5 DEF FailLoad, Abandon
  <2> QED
    BY <1>4, <1>5, <2>1, EndFields
<1> QED
  BY <1>3, <1>4, <1>5

LEMMA DocSteps ==
  ASSUME TypeInv, [Next]_vars, NEW k \in Kinds
  PROVE  \/ docs'[k] = docs[k]
         \/ \E r \in Requests : Drop(r) /\ req[r].kind = k /\ docs'[k] = NoDoc
         \/ \E r \in Requests : Put(r) /\ req[r].kind = k /\ docs'[k] = NewDoc(r)
         \/ /\ k = "rule_table"
            /\ \E r \in Requests :
                 \/ /\ SignInPlace(r) /\ docs[k] # NoDoc
                    /\ docs'[k] = [docs[k] EXCEPT !.signoff = SignOff(r)]
                 \/ WriteBack(r) /\ docs'[k] = req[r].copy
<1>0. docs \in [Kinds -> Docs]
  BY DEF TypeInv
<1>1. CASE UNCHANGED vars
  BY <1>1 DEF vars
<1>2. ASSUME NEW r \in Requests, Arrives(r) \/ Works(r)
      PROVE  \/ docs' = docs
             \/ Drop(r) /\ docs' = [docs EXCEPT ![req[r].kind] = NoDoc]
             \/ Put(r) /\ docs' = [docs EXCEPT ![req[r].kind] = NewDoc(r)]
             \/ /\ SignInPlace(r) /\ docs["rule_table"] # NoDoc
                /\ docs' = [docs EXCEPT !["rule_table"] =
                              [docs["rule_table"] EXCEPT !.signoff = SignOff(r)]]
             \/ WriteBack(r) /\ docs' = [docs EXCEPT !["rule_table"] = req[r].copy]
  <2>1. CASE Arrives(r)
    BY <2>1, ArriveFields
  <2>2. CASE Works(r)
    BY <2>2 DEF Works, Put, Drop, Write, ledger_document, ReadTable, LedgerSign, SignInPlace,
       ReadCopy, WriteBack, OpenFile, HazardLine, FailLoad, Abandon
  <2> QED
    BY <1>2, <2>1, <2>2
<1>3. CASE \E r \in Requests : Arrives(r) \/ Works(r)
  <2>1. PICK r \in Requests : Arrives(r) \/ Works(r)
    BY <1>3
  <2> QED
    BY <1>0, <1>2, <2>1
<1> QED
  BY <1>1, <1>3, Steps

LEMMA CopySteps ==
  ASSUME TypeInv, [Next]_vars, NEW r \in Requests
  PROVE  \/ req'[r].copy = req[r].copy
         \/ /\ ReadCopy(r) /\ docs["rule_table"] # NoDoc
            /\ req'[r].copy = [docs["rule_table"] EXCEPT !.signoff = SignOff(r)]
<1>1. CASE UNCHANGED vars
  BY <1>1 DEF vars
<1>2. CASE \E q \in Requests : Arrives(q) \/ Works(q)
  <2>1. PICK q \in Requests : Arrives(q) \/ Works(q)
    BY <1>2
  <2>2. \A pc \in EndPcs : End(q, pc) => Moved(q) /\ req'[q].copy = req[q].copy
    BY EndFields
  <2>3. CASE Arrives(q)
    BY <2>3, ArriveFields DEF Moved, TypeInv, WellFormed
  <2>4. CASE Put(q) \/ Drop(q)
    BY <2>4, WriteFields DEF Put, Drop, Moved
  <2>5. CASE ledger_document(q)
    <3>1. CASE req[q].op = "load"
      BY <2>5, <3>1, ReportFields DEF Moved
    <3>2. CASE req[q].op # "load"
      <4>1. End(q, "answered")
        BY <2>5, <3>2 DEF ledger_document, End
      <4> QED
        BY <2>2, <4>1 DEF Moved
    <3> QED
      BY <3>1, <3>2
  <2>6. CASE ReadTable(q)
    <3>1. CASE Go(q, "ledger_sign")
      BY <3>1, GoFields DEF Moved
    <3>2. CASE End(q, "refused")
      BY <2>2, <3>2 DEF Moved
    <3> QED
      BY <2>6, <3>1, <3>2 DEF ReadTable
  <2>7. CASE LedgerSign(q)
    BY <2>7, SignFields DEF Moved
  <2>8. CASE ReadCopy(q)
    <3>1. CASE docs["rule_table"] = NoDoc
      BY <2>2, <2>8, <3>1 DEF ReadCopy, Moved
    <3>2. CASE docs["rule_table"] # NoDoc
      BY <2>8, <3>2, CopyFields DEF ReadCopy, Moved
    <3> QED
      BY <3>1, <3>2
  <2>9. CASE SignInPlace(q) \/ WriteBack(q) \/ FailLoad(q) \/ Abandon(q)
    <3>1. \E pc \in EndPcs : End(q, pc)
      BY <2>9 DEF SignInPlace, WriteBack, FailLoad, Abandon
    <3> QED
      BY <2>2, <3>1 DEF Moved
  <2>10. CASE OpenFile(q)
    BY <2>10, OpenFields DEF Moved
  <2>11. CASE HazardLine(q)
    <3>1. CASE End(q, "refused")
      BY <2>2, <3>1 DEF Moved
    <3>2. CASE ~End(q, "refused")
      BY <2>11, <3>2, LineFields DEF Moved
    <3> QED
      BY <3>1, <3>2
  <2> QED
    BY <2>1, <2>3, <2>4, <2>5, <2>6, <2>7, <2>8, <2>9, <2>10, <2>11 DEF Works
<1> QED
  BY <1>1, <1>2, Steps
-----------------------------------------------------------------------------
(* What is stored is on the ledger, or its entry is owed.                  *)

Recorded(by, k, table) ==
  \E n \in EntriesOf(k) : /\ ledger[n].action = "DOCUMENT_REPLACED"
                          /\ ledger[n].by = by /\ ledger[n].table = table
Accounted(by, k, table) ==
  \/ Owes(by, k) /\ req[by].op # "revert" /\ req[by].table = table
  \/ Recorded(by, k, table)
Cited(s) ==
  s # Unsigned =>
    /\ s.seq \in DOMAIN ledger
    /\ ledger[s.seq].action = "RULE_TABLE_SIGNED"
    /\ ledger[s.seq].by = s.by /\ ledger[s.seq].table = s.table
Held(doc, k) == doc # NoDoc => doc.by \in Requests /\ Accounted(doc.by, k, doc.table)
Logged(r) == \E n \in EntriesOf("hazard_log") : ledger[n].by = r
Logging(r) == /\ req[r].kind = "hazard_log"
              /\ req[r].pc \in {"line", "ledger", "refused", "abandoned"}

DocsHeld == \A k \in Kinds : Held(docs[k], k)
CopiesHeld == \A r \in Requests : Held(req[r].copy, "rule_table")
DocsCited == Cited(docs["rule_table"].signoff)
CopiesCited == \A r \in Requests : Cited(req[r].copy.signoff)
SignersCited == \A r \in Requests : req[r].pc = "sign" => Cited(SignOff(r))
RaisedLogged ==
  \A p \in raised : req[p[1]].op = "load" /\ (Logged(p[1]) \/ Logging(p[1]))

RecordInv ==
  /\ TypeInv
  /\ DocsHeld /\ CopiesHeld /\ DocsCited /\ CopiesCited /\ SignersCited /\ RaisedLogged

LEMMA EntriesStay ==
  ASSUME TypeInv, [Next]_vars, NEW k
  PROVE  \A n \in EntriesOf(k) : n \in EntriesOf(k)' /\ ledger'[n] = ledger[n]
BY LedgerGrows DEF EntriesOf

LEMMA EntryRecorded ==
  ASSUME TypeInv, NEW r \in Requests, ledger_document(r), NEW k, k = req[r].kind
  PROVE  /\ Len(ledger) + 1 \in EntriesOf(k)'
         /\ ledger'[Len(ledger) + 1].by = r
         /\ ledger'[Len(ledger) + 1].table = req[r].table
         /\ ledger'[Len(ledger) + 1].kind = k
         /\ ledger'[Len(ledger) + 1].action =
              IF req[r].op = "revert" THEN "DOCUMENT_REVERTED" ELSE "DOCUMENT_REPLACED"
<1> DEFINE action == IF req[r].op = "revert" THEN "DOCUMENT_REVERTED" ELSE "DOCUMENT_REPLACED"
           e == [action |-> action, by |-> r, kind |-> req[r].kind, table |-> req[r].table]
<1>1. action \in Actions /\ action # "RULE_TABLE_SIGNED"
  BY DEF Actions
<1>2. AppendAudit(r, action)
  BY DEF ledger_document
<1> HIDE DEF action
<1>3. /\ ledger' \in Seq(Entries) /\ Len(ledger') = Len(ledger) + 1
      /\ ledger'[Len(ledger) + 1] = e
  BY <1>1, <1>2, EntryAppended
<1>4. Len(ledger) + 1 \in DOMAIN ledger'
  <2>1. ledger \in Seq(Entries)
    BY DEF TypeInv
  <2> QED
    BY <1>3, <2>1
<1>5. /\ ledger'[Len(ledger) + 1].action = action /\ ledger'[Len(ledger) + 1].by = r
      /\ ledger'[Len(ledger) + 1].kind = k /\ ledger'[Len(ledger) + 1].table = req[r].table
  BY <1>3
<1>6. Len(ledger) + 1 \in EntriesOf(k)'
  BY <1>1, <1>4, <1>5 DEF EntriesOf
<1> QED
  BY <1>5, <1>6 DEF action

LEMMA AccountedStays ==
  ASSUME TypeInv, [Next]_vars, NEW by \in Requests, NEW k \in Kinds, NEW table,
         Accounted(by, k, table)
  PROVE  Accounted(by, k, table)'
<1>1. CASE Recorded(by, k, table)
  BY <1>1, EntriesStay DEF Accounted, Recorded
<1>2. CASE Owes(by, k) /\ req[by].op # "revert" /\ req[by].table = table
  <2>1. CASE req'[by] = req[by]
    BY <1>2, <2>1 DEF Accounted, Owes
  <2>2. CASE req'[by] # req[by]
    <3>1. Arrives(by) \/ Works(by)
      BY <2>2, OthersWait
    <3>2. \/ ledger_document(by)
          \/ Keeps(by) /\ req'[by].pc \in {"refused", "abandoned"} /\ req'[by].next = "ledger"
      BY <1>2, <3>1, OwerSteps DEF Owes
    <3>3. CASE ledger_document(by)
      BY <1>2, <3>3, EntryRecorded DEF Accounted, Recorded, Owes
    <3> QED
      BY <1>2, <3>2, <3>3 DEF Accounted, Owes, Keeps, Same
  <2> QED
    BY <2>1, <2>2
<1> QED
  BY <1>1, <1>2 DEF Accounted

LEMMA CitedStays ==
  ASSUME TypeInv, [Next]_vars, NEW s, Cited(s)
  PROVE  Cited(s)'
BY LedgerGrows DEF Cited

LEMMA HeldStays ==
  ASSUME TypeInv, [Next]_vars, NEW doc, NEW k \in Kinds, Held(doc, k)
  PROVE  Held(doc, k)'
BY AccountedStays DEF Held

(* A load stays one, and its hazard log is being raised until its entry.   *)
LEMMA LoadSteps ==
  ASSUME TypeInv, NEW r \in Requests, req[r].op = "load", Arrives(r) \/ Works(r)
  PROVE  /\ req'[r].op = "load"
         /\ \/ OpenFile(r) \/ Put(r) \/ HazardLine(r) \/ ledger_document(r)
            \/ End(r, "refused") /\ req[r].pc # "file"
            \/ End(r, "abandoned")
<1>1. ~Arrives(r)
  BY ArriveFields DEF TypeInv, WellFormed
<1>2. \A pc \in EndPcs : End(r, pc) => req'[r].op = "load"
  BY EndFields DEF Keeps, Same
<1>3. /\ req[r].pc \notin {"drop", "read_table", "ledger_sign", "sign", "write_back"}
      /\ req[r].pc # "idle"
  BY DEF TypeInv, WellFormed
<1>4. \/ OpenFile(r) \/ Put(r) \/ HazardLine(r) \/ ledger_document(r)
      \/ End(r, "refused") /\ req[r].pc # "file"
      \/ End(r, "abandoned")
  BY <1>1, <1>3 DEF Works, Drop, ReadTable, LedgerSign, SignInPlace, ReadCopy, WriteBack,
     FailLoad, Abandon
<1>5. CASE OpenFile(r)
  BY <1>5, OpenFields DEF Same
<1>6. CASE Put(r)
  BY <1>6, WriteFields DEF Put, Same
<1>7. CASE HazardLine(r)
  BY <1>2, <1>7, LineFields DEF Same
<1>8. CASE ledger_document(r)
  BY <1>8, ReportFields
<1> QED
  BY <1>2, <1>4, <1>5, <1>6, <1>7, <1>8

LEMMA SignSteps ==
  ASSUME TypeInv, NEW r \in Requests, Arrives(r) \/ Works(r), req'[r].pc = "sign"
  PROVE  LedgerSign(r)
<1>1. \A pc \in EndPcs : End(r, pc) => FALSE
  BY EndFields
<1>2. CASE Arrives(r)
  BY <1>2, ArriveFields
<1>3. CASE Put(r) \/ Drop(r)
  BY <1>3, WriteFields DEF Put, Drop
<1>4. CASE ledger_document(r)
  <2>1. CASE req[r].op = "load"
    BY <1>4, <2>1, ReportFields
  <2>2. CASE req[r].op # "load"
    <3>1. End(r, "answered")
      BY <1>4, <2>2 DEF ledger_document, End
    <3> QED
      BY <1>1, <3>1
  <2> QED
    BY <2>1, <2>2
<1>5. CASE ReadTable(r)
  BY <1>1, <1>5, GoFields DEF ReadTable
<1>7. CASE ReadCopy(r)
  BY <1>1, <1>7, CopyFields DEF ReadCopy
<1>8. CASE SignInPlace(r) \/ WriteBack(r) \/ FailLoad(r) \/ Abandon(r)
  BY <1>1, <1>8 DEF SignInPlace, WriteBack, FailLoad, Abandon
<1>9. CASE OpenFile(r)
  BY <1>9, OpenFields
<1>10. CASE HazardLine(r)
  BY <1>1, <1>10, LineFields
<1> QED
  BY <1>2, <1>3, <1>4, <1>5, <1>7, <1>8, <1>9, <1>10 DEF Works

LEMMA SignatureCited ==
  ASSUME TypeInv, NEW r \in Requests, LedgerSign(r)
  PROVE  Cited(SignOff(r))'
<1>1. AppendAudit(r, "RULE_TABLE_SIGNED") /\ "RULE_TABLE_SIGNED" \in Actions
  BY DEF LedgerSign, Actions
<1>2. /\ ledger' \in Seq(Entries) /\ Len(ledger') = Len(ledger) + 1
      /\ ledger'[Len(ledger) + 1] = [action |-> "RULE_TABLE_SIGNED", by |-> r,
                                     kind |-> req[r].kind, table |-> req[r].table]
  BY <1>1, EntryAppended
<1>3. Len(ledger) + 1 \in DOMAIN ledger'
  <2>1. ledger \in Seq(Entries)
    BY DEF TypeInv
  <2> QED
    BY <1>2, <2>1
<1>4. req'[r].seq = Len(ledger) + 1 /\ req'[r].table = req[r].table
  BY SignFields DEF Keeps, Same
<1> QED
  BY <1>2, <1>3, <1>4 DEF Cited, SignOff

LEMMA RaisedSteps ==
  ASSUME TypeInv, [Next]_vars, NEW p \in raised', p \notin raised
  PROVE  /\ p[1] \in Requests /\ req[p[1]].op = "load"
         /\ Logging(p[1])' /\ req'[p[1]].op = "load"
<1>1. PICK r \in Requests : HazardLine(r)
  <2>1. PICK r \in Requests : Arrives(r) \/ Works(r)
    BY Steps DEF vars
  <2>2. ~Arrives(r)
    BY ArriveFields
  <2> QED
    BY <2>1, <2>2 DEF Works, Put, Drop, Write, ledger_document, ReadTable, LedgerSign, SignInPlace,
       ReadCopy, WriteBack, OpenFile, FailLoad, Abandon
<1>2. raised' # raised
  OBVIOUS
<1>3. /\ Same(r) /\ req'[r].kind = req[r].kind /\ req'[r].pc \in {"line", "ledger"}
      /\ \E n \in Nat : raised' = raised \cup {<<r, n>>}
  BY <1>1, <1>2, LineFields
<1>4. p[1] = r
  BY <1>3
<1>5. req[r].op = "load" /\ req[r].kind = "hazard_log"
  BY <1>1 DEF HazardLine, TypeInv, WellFormed
<1> QED
  BY <1>3, <1>4, <1>5 DEF Logging, Same

LEMMA LoggedStays ==
  ASSUME TypeInv, [Next]_vars, NEW r \in Requests, req[r].op = "load", Logged(r) \/ Logging(r)
  PROVE  req'[r].op = "load" /\ (Logged(r) \/ Logging(r))'
<1>1. CASE req'[r] = req[r]
  BY <1>1, EntriesStay DEF Logged, Logging
<1>2. CASE req'[r] # req[r]
  <2>1. Arrives(r) \/ Works(r)
    BY <1>2, OthersWait
  <2>2. req'[r].op = "load"
    BY <2>1, LoadSteps
  <2>3. CASE Logged(r)
    BY <2>2, <2>3, EntriesStay DEF Logged
  <2>4. CASE Logging(r)
    <3>1. \A pc \in {"refused", "abandoned"} : End(r, pc) => Logging(r)'
      BY <2>4, EndFields DEF Logging, Keeps
    <3>2. CASE ledger_document(r)
      <4>1. req[r].kind = "hazard_log"
        BY <2>4 DEF Logging
      <4>2. Len(ledger) + 1 \in EntriesOf("hazard_log")' /\ ledger'[Len(ledger) + 1].by = r
        BY <3>2, <4>1, EntryRecorded
      <4> QED
        BY <2>2, <4>2 DEF Logged
    <3>3. CASE HazardLine(r)
      <4>1. CASE End(r, "refused")
        BY <2>2, <3>1, <4>1
      <4>2. CASE ~End(r, "refused")
        <5>1. req'[r].kind = req[r].kind /\ req'[r].pc \in {"line", "ledger"}
          BY <3>3, <4>2, LineFields
        <5> QED
          BY <2>2, <2>4, <5>1 DEF Logging
      <4> QED
        BY <4>1, <4>2
    <3>4. ~OpenFile(r) /\ ~Put(r)
      BY <2>4 DEF Logging, OpenFile, Put
    <3> QED
      BY <2>1, <2>2, <3>1, <3>2, <3>3, <3>4, LoadSteps
  <2> QED
    BY <2>3, <2>4
<1> QED
  BY <1>1, <1>2

LEMMA StepRecordInv ==
  ASSUME RecordInv, [Next]_vars
  PROVE  RecordInv'
<1>0. TypeInv /\ TypeInv' /\ "rule_table" \in Kinds
  BY StepTypeInv, Names DEF RecordInv
<1>1. DocsHeld'
  <2> SUFFICES ASSUME NEW k \in Kinds
               PROVE  Held(docs[k], k)'
    BY DEF DocsHeld
  <2>1. \A doc : doc = docs'[k] /\ Held(doc, k)' => Held(docs[k], k)'
    BY DEF Held, Accounted, Recorded, Owes, EntriesOf
  <2>2. Held(docs[k], k) /\ docs[k] \in Docs
    BY <1>0 DEF RecordInv, DocsHeld, TypeInv
  <2>3. CASE docs'[k] = docs[k]
    BY <1>0, <2>1, <2>2, <2>3, HeldStays
  <2>4. CASE docs'[k] = NoDoc
    BY <2>4 DEF Held
  <2>5. ASSUME NEW r \in Requests, Put(r), req[r].kind = k, docs'[k] = NewDoc(r)
        PROVE  Held(docs[k], k)'
    <3>1. Same(r) /\ req'[r].pc = "ledger" /\ req'[r].kind = k
      BY <1>0, <2>5, WriteFields DEF Put
    <3>2. req[r].op # "revert"
      BY <1>0, <2>5 DEF Put, TypeInv, WellFormed
    <3>3. docs'[k].by = r /\ docs'[k].table = req[r].table
      BY <1>0, <2>5, NewDocTyped
    <3> QED
      BY <3>1, <3>2, <3>3 DEF Held, Accounted, Owes, Same
  <2>6. ASSUME NEW r \in Requests, docs[k] # NoDoc,
               docs'[k] = [docs[k] EXCEPT !.signoff = SignOff(r)]
        PROVE  Held(docs[k], k)'
    <3>1. docs'[k].by = docs[k].by /\ docs'[k].table = docs[k].table
      BY <1>0, <2>2, <2>6, Signed, SignOffTyped
    <3>2. PICK doc : doc = docs'[k]
      OBVIOUS
    <3>3. Held(doc, k)
      BY <2>2, <2>6, <3>1, <3>2 DEF Held
    <3> QED
      BY <1>0, <2>1, <3>2, <3>3, HeldStays
  <2>7. ASSUME NEW r \in Requests, k = "rule_table", docs'[k] = req[r].copy
        PROVE  Held(docs[k], k)'
    <3>1. Held(req[r].copy, k)
      BY <2>7 DEF RecordInv, CopiesHeld
    <3> QED
      BY <1>0, <2>1, <2>7, <3>1, HeldStays
  <2>8. \/ docs'[k] = docs[k]
        \/ docs'[k] = NoDoc
        \/ \E r \in Requests : Put(r) /\ req[r].kind = k /\ docs'[k] = NewDoc(r)
        \/ \E r \in Requests : /\ docs[k] # NoDoc
                              /\ docs'[k] = [docs[k] EXCEPT !.signoff = SignOff(r)]
        \/ \E r \in Requests : k = "rule_table" /\ docs'[k] = req[r].copy
    <3> HIDE DEF Put, NewDoc, SignOff, NoDoc, WriteBack, SignInPlace
    <3> QED
      BY <1>0, DocSteps
  <2> QED
    BY <2>3, <2>4, <2>5, <2>6, <2>7, <2>8
<1>2. CopiesHeld'
  <2> SUFFICES ASSUME NEW r \in Requests
               PROVE  Held(req[r].copy, "rule_table")'
    BY DEF CopiesHeld
  <2>1. \A doc : doc = req'[r].copy /\ Held(doc, "rule_table")' => Held(req[r].copy, "rule_table")'
    BY DEF Held, Accounted, Recorded, Owes, EntriesOf
  <2>2. CASE req'[r].copy = req[r].copy
    BY <1>0, <2>1, <2>2, HeldStays DEF RecordInv, CopiesHeld
  <2>3. CASE /\ docs["rule_table"] # NoDoc
             /\ req'[r].copy = [docs["rule_table"] EXCEPT !.signoff = SignOff(r)]
    <3>1. Held(docs["rule_table"], "rule_table") /\ docs["rule_table"] \in Docs
      BY <1>0 DEF RecordInv, DocsHeld, TypeInv
    <3>2. req'[r].copy.by = docs["rule_table"].by /\ req'[r].copy.table = docs["rule_table"].table
      BY <1>0, <2>3, <3>1, Signed, SignOffTyped
    <3>3. PICK doc : doc = req'[r].copy
      OBVIOUS
    <3>4. Held(doc, "rule_table")
      BY <2>3, <3>1, <3>2, <3>3 DEF Held
    <3> QED
      BY <1>0, <2>1, <3>3, <3>4, HeldStays
  <2> QED
    BY <1>0, <2>2, <2>3, CopySteps
<1>3. \A s : Cited(s) => Cited(s)'
  BY <1>0, CitedStays
<1>4. DocsCited'
  <2>1. \A s : s = docs'["rule_table"].signoff /\ Cited(s)' => DocsCited'
    BY DEF DocsCited, Cited
  <2>2. docs["rule_table"] \in Docs
    BY <1>0 DEF TypeInv
  <2>3. CASE docs'["rule_table"] = docs["rule_table"]
    BY <1>3, <2>1, <2>3 DEF RecordInv, DocsCited
  <2>4. CASE docs'["rule_table"].signoff = Unsigned
    BY <2>4 DEF DocsCited, Cited
  <2>5. ASSUME NEW r \in Requests, SignInPlace(r),
               docs'["rule_table"] = [docs["rule_table"] EXCEPT !.signoff = SignOff(r)]
        PROVE  DocsCited'
    <3>1. docs'["rule_table"].signoff = SignOff(r)
      BY <1>0, <2>2, <2>5, Signed, SignOffTyped
    <3>2. Cited(SignOff(r))
      BY <2>5 DEF RecordInv, SignersCited, SignInPlace
    <3> QED
      BY <1>3, <2>1, <3>1, <3>2
  <2>6. ASSUME NEW r \in Requests, docs'["rule_table"] = req[r].copy
        PROVE  DocsCited'
    <3>1. Cited(req[r].copy.signoff)
      BY DEF RecordInv, CopiesCited
    <3> QED
      BY <1>3, <2>1, <2>6, <3>1
  <2>7. \/ docs'["rule_table"] = docs["rule_table"]
        \/ docs'["rule_table"] = NoDoc
        \/ \E r \in Requests : docs'["rule_table"] = NewDoc(r)
        \/ \E r \in Requests :
             /\ SignInPlace(r)
             /\ docs'["rule_table"] = [docs["rule_table"] EXCEPT !.signoff = SignOff(r)]
        \/ \E r \in Requests : docs'["rule_table"] = req[r].copy
    BY <1>0, DocSteps
  <2>8. \A r \in Requests : NewDoc(r).signoff = Unsigned
    BY <1>0, NewDocTyped
  <2> QED
    BY <2>3, <2>4, <2>5, <2>6, <2>7, <2>8, Blank
<1>5. CopiesCited'
  <2> SUFFICES ASSUME NEW r \in Requests
               PROVE  Cited(req[r].copy.signoff)'
    BY DEF CopiesCited
  <2>1. \A s : s = req'[r].copy.signoff /\ Cited(s)' => Cited(req[r].copy.signoff)'
    BY DEF Cited
  <2>2. CASE req'[r].copy = req[r].copy
    BY <1>3, <2>1, <2>2 DEF RecordInv, CopiesCited
  <2>3. CASE /\ ReadCopy(r)
             /\ req'[r].copy = [docs["rule_table"] EXCEPT !.signoff = SignOff(r)]
    <3>1. docs["rule_table"] \in Docs
      BY <1>0 DEF TypeInv
    <3>2. req'[r].copy.signoff = SignOff(r)
      BY <1>0, <2>3, <3>1, Signed, SignOffTyped
    <3>3. Cited(SignOff(r))
      BY <2>3 DEF RecordInv, SignersCited, ReadCopy
    <3> QED
      BY <1>3, <2>1, <3>2, <3>3
  <2> QED
    BY <1>0, <2>2, <2>3, CopySteps
<1>6. SignersCited'
  <2> SUFFICES ASSUME NEW r \in Requests, req'[r].pc = "sign"
               PROVE  Cited(SignOff(r))'
    BY DEF SignersCited
  <2>1. CASE req'[r] = req[r]
    <3>1. Cited(SignOff(r))
      BY <2>1 DEF RecordInv, SignersCited
    <3>2. SignOff(r)' = SignOff(r)
      BY <2>1 DEF SignOff
    <3>3. \A s : s = SignOff(r)' /\ Cited(s)' => Cited(SignOff(r))'
      BY DEF Cited
    <3> QED
      BY <1>3, <3>1, <3>2, <3>3
  <2>2. CASE req'[r] # req[r]
    BY <1>0, <2>2, OthersWait, SignSteps, SignatureCited
  <2> QED
    BY <2>1, <2>2
<1>7. RaisedLogged'
  <2> SUFFICES ASSUME NEW p \in raised'
               PROVE  req'[p[1]].op = "load" /\ (Logged(p[1]) \/ Logging(p[1]))'
    BY DEF RaisedLogged, Logged, Logging, EntriesOf
  <2>1. CASE p \in raised
    <3>1. p[1] \in Requests
      BY <1>0, <2>1 DEF TypeInv
    <3> QED
      BY <1>0, <2>1, <3>1, LoggedStays DEF RecordInv, RaisedLogged
  <2>2. CASE p \notin raised
    BY <1>0, <2>2, RaisedSteps
  <2> QED
    BY <2>1, <2>2
<1> QED
  BY <1>0, <1>1, <1>2, <1>4, <1>5, <1>6, <1>7 DEF RecordInv

LEMMA InitRecordInv ==
  ASSUME Init
  PROVE  RecordInv
BY InitTypeInv, Blank, Names DEF Init, RecordInv, DocsHeld, CopiesHeld, DocsCited, CopiesCited,
   SignersCited, RaisedLogged, Held, Cited

LEMMA RecordInvLedgered ==
  ASSUME RecordInv
  PROVE  DocumentsAreLedgered
<1>1. ASSUME NEW k \in Kinds, docs[k] # NoDoc
      PROVE  \/ Owes(docs[k].by, k)
             \/ \E n \in EntriesOf(k) : /\ ledger[n].action = "DOCUMENT_REPLACED"
                                        /\ ledger[n].by = docs[k].by
                                        /\ ledger[n].table = docs[k].table
  BY <1>1 DEF RecordInv, DocsHeld, Held, Accounted, Recorded
<1>2. ASSUME NEW p \in raised, req[p[1]].pc = "answered"
      PROVE  \E n \in EntriesOf("hazard_log") : ledger[n].by = p[1]
  BY <1>2 DEF RecordInv, RaisedLogged, Logged, Logging
<1>3. SignatureIsLedgered
  BY DEF RecordInv, DocsCited, Cited, SignatureIsLedgered
<1> QED
  BY <1>1, <1>2, <1>3 DEF DocumentsAreLedgered

(* Every door commit, every revert, every log a load raised and every      *)
(* signature of a rule table is on the ledger, under the request that made *)
(* it, or its entry is still owed (documents.rs load_docs, rule_table.rs   *)
(* sign_rule_table; schedule_door.rs ledger_document).                     *)
THEOREM DocumentsLedgered == Spec => []DocumentsAreLedgered
BY InitRecordInv, StepRecordInv, RecordInvLedgered, PTL DEF Spec
-----------------------------------------------------------------------------
(* What a load reports.                                                    *)

Listed(r) == {req[r].lines[i].kind : i \in DOMAIN req[r].lines}
LineCited(r, line) ==
  /\ line.seq \in DOMAIN ledger
  /\ ledger[line.seq].action = "DOCUMENT_REPLACED"
  /\ ledger[line.seq].by = r /\ ledger[line.seq].kind = line.kind
LinesCited(r) == \A i \in DOMAIN req[r].lines : LineCited(r, req[r].lines[i])
StoredListed(r) ==
  /\ req[r].pc \notin {"line", "ledger", "refused", "abandoned"} => req[r].stored \subseteq Listed(r)
  /\ req[r].stored \subseteq Listed(r) \cup {req[r].kind}
LoadInv ==
  /\ TypeInv
  /\ \A r \in Requests : req[r].op = "load" => LinesCited(r) /\ StoredListed(r)

LEMMA LoadsArrive ==
  ASSUME TypeInv, NEW r \in Requests, Works(r), req'[r].op = "load"
  PROVE  req[r].op = "load"
<1> SUFFICES ASSUME req[r].op # "load"
             PROVE  FALSE
  OBVIOUS
<1>1. \A pc \in EndPcs : End(r, pc) => FALSE
  BY EndFields DEF Keeps, Same
<1>2. CASE Put(r) \/ Drop(r)
  BY <1>2, WriteFields DEF Put, Drop, Same
<1>3. CASE ledger_document(r)
  <2>1. End(r, "answered")
    BY <1>3 DEF ledger_document, End
  <2> QED
    BY <1>1, <2>1
<1>4. CASE ReadTable(r)
  BY <1>1, <1>4, GoFields DEF ReadTable, Keeps, Same
<1>5. CASE LedgerSign(r)
  BY <1>5, SignFields DEF Keeps, Same
<1>6. CASE ReadCopy(r)
  BY <1>1, <1>6, CopyFields DEF ReadCopy, Keeps, Same
<1>7. CASE SignInPlace(r) \/ WriteBack(r) \/ FailLoad(r) \/ Abandon(r)
  BY <1>1, <1>7 DEF SignInPlace, WriteBack, FailLoad, Abandon
<1>8. CASE OpenFile(r)
  BY <1>8, OpenFields DEF Same
<1>9. CASE HazardLine(r)
  BY <1>1, <1>9, LineFields DEF Same
<1> QED
  BY <1>2, <1>3, <1>4, <1>5, <1>6, <1>7, <1>8, <1>9 DEF Works

LEMMA LinesStay ==
  ASSUME TypeInv, [Next]_vars, NEW r \in Requests, LinesCited(r), req'[r].lines = req[r].lines
  PROVE  LinesCited(r)' /\ Listed(r)' = Listed(r)
BY LedgerGrows DEF LinesCited, LineCited, Listed

(* A file's entry is appended, and the load lists it.                      *)
LEMMA FileReported ==
  ASSUME TypeInv, [Next]_vars, NEW r \in Requests, LinesCited(r), StoredListed(r),
         req[r].op = "load", ledger_document(r)
  PROVE  LinesCited(r)' /\ StoredListed(r)'
<1> DEFINE line == [kind |-> req[r].kind, seq |-> Len(ledger) + 1]
<1>1. /\ req'[r].lines = Append(req[r].lines, line) /\ req'[r].stored = req[r].stored
      /\ req'[r].pc \in {"answered", "file"}
  BY ReportFields
<1>2. req[r].lines \in Seq(ReportLines) /\ ledger \in Seq(Entries)
  BY DEF TypeInv, Handlers
<1>3. /\ DOMAIN req'[r].lines = DOMAIN req[r].lines \cup {Len(req[r].lines) + 1}
      /\ \A i \in DOMAIN req[r].lines : req'[r].lines[i] = req[r].lines[i]
      /\ req'[r].lines[Len(req[r].lines) + 1] = line
  <2> HIDE DEF line
  <2>1. line \in ReportLines
    BY <1>2 DEF line, ReportLines, TypeInv, Handlers
  <2> QED
    BY <1>1, <1>2, <2>1
<1>4. PICK l : l = line
  OBVIOUS
<1>5. LineCited(r, l)'
  <2>1. PICK k, n : k = req[r].kind /\ n = Len(ledger) + 1
    OBVIOUS
  <2>2. /\ n \in EntriesOf(k)' /\ ledger'[n].action = "DOCUMENT_REPLACED"
        /\ ledger'[n].by = r /\ ledger'[n].kind = k
    BY <2>1, EntryRecorded
  <2>3. l.kind = k /\ l.seq = n
    BY <1>4, <2>1
  <2> QED
    BY <2>2, <2>3 DEF LineCited, EntriesOf
<1>6. l.kind = req[r].kind
  BY <1>4
<1> HIDE DEF line
<1>7. LinesCited(r)'
  <2> SUFFICES ASSUME NEW i \in DOMAIN req'[r].lines
               PROVE  LineCited(r, req[r].lines[i])'
    BY DEF LinesCited
  <2>1. CASE i \in DOMAIN req[r].lines
    BY <1>3, <2>1, LedgerGrows DEF LinesCited, LineCited
  <2>2. CASE i = Len(req[r].lines) + 1
    BY <1>3, <1>4, <1>5, <2>2 DEF LineCited
  <2> QED
    BY <1>3, <2>1, <2>2
<1>8. StoredListed(r)'
  <2>1. Listed(r) \cup {req[r].kind} \subseteq Listed(r)'
    BY <1>3, <1>4, <1>6 DEF Listed
  <2>2. req'[r].stored \subseteq Listed(r)'
    BY <1>1, <2>1 DEF StoredListed
  <2> QED
    BY <1>1, <2>2 DEF StoredListed
<1> QED
  BY <1>7, <1>8

LEMMA StepLoadInv ==
  ASSUME LoadInv, [Next]_vars
  PROVE  LoadInv'
<1>0. TypeInv /\ TypeInv'
  BY StepTypeInv DEF LoadInv
<1> SUFFICES ASSUME NEW r \in Requests, req'[r].op = "load"
             PROVE  LinesCited(r)' /\ StoredListed(r)'
  BY <1>0 DEF LoadInv
<1>1. CASE req'[r] = req[r]
  <2>1. LinesCited(r) /\ StoredListed(r)
    BY <1>1 DEF LoadInv
  <2> QED
    BY <1>0, <1>1, <2>1, LinesStay DEF StoredListed
<1>2. CASE Arrives(r)
  BY <1>0, <1>2, ArriveFields DEF LinesCited, StoredListed
<1>3. CASE Works(r)
  <2>1. req[r].op = "load" /\ LinesCited(r) /\ StoredListed(r)
    BY <1>0, <1>3, LoadsArrive DEF LoadInv
  <2>2. CASE ledger_document(r)
    BY <1>0, <2>1, <2>2, FileReported
  <2>3. req'[r].lines = req[r].lines => LinesCited(r)' /\ Listed(r)' = Listed(r)
    BY <1>0, <2>1, LinesStay
  <2>4. \A pc \in {"refused", "abandoned"} :
          End(r, pc) => LinesCited(r)' /\ StoredListed(r)'
    BY <1>0, <2>1, <2>3, EndFields DEF Keeps, Same, StoredListed
  <2>5. CASE OpenFile(r)
    BY <1>0, <2>1, <2>3, <2>5, OpenFields DEF OpenFile, Same, StoredListed
  <2>6. CASE Put(r)
    BY <1>0, <2>1, <2>3, <2>6, WriteFields DEF Put, Same, StoredListed
  <2>7. CASE HazardLine(r)
    <3>1. CASE End(r, "refused")
      BY <2>4, <3>1
    <3>2. CASE ~End(r, "refused")
      <4>1. /\ Same(r) /\ req'[r].kind = req[r].kind /\ req'[r].pc \in {"line", "ledger"}
            /\ req'[r].stored \subseteq req[r].stored \cup {"hazard_log"}
        BY <1>0, <2>7, <3>2, LineFields
      <4>2. req[r].kind = "hazard_log"
        BY <1>0, <2>7 DEF HazardLine, TypeInv, WellFormed
      <4> QED
        BY <2>1, <2>3, <4>1, <4>2 DEF Same, StoredListed
    <3> QED
      BY <3>1, <3>2
  <2> QED
    BY <1>0, <1>3, <2>1, <2>2, <2>4, <2>5, <2>6, <2>7, LoadSteps
<1> QED
  BY <1>0, <1>1, <1>2, <1>3, OthersWait

LEMMA InitLoadInv ==
  ASSUME Init
  PROVE  LoadInv
BY InitTypeInv, Blank DEF Init, LoadInv

LEMMA LoadInvHonest ==
  ASSUME LoadInv
  PROVE  LoadReportIsHonest
BY DEF LoadInv, LinesCited, LineCited, StoredListed, Listed, LoadReportIsHonest

(* A load that ends lists every document it stored but, at most, the one   *)
(* that refused it, and each line cites its own entry (documents.rs        *)
(* load_docs).                                                             *)
THEOREM LoadsHonest == Spec => []LoadReportIsHonest
BY InitLoadInv, StepLoadInv, LoadInvHonest, PTL DEF Spec
-----------------------------------------------------------------------------
(* Whom the last entry names.                                              *)

Writes(r, k) == (Put(r) \/ Drop(r)) /\ req[r].kind = k
Kept(k) == (docs'[k] = NoDoc <=> docs[k] = NoDoc) /\ docs'[k].by = docs[k].by

Untouched(k) == EntriesOf(k) = {} /\ \A q \in Requests : ~Owes(q, k)
(* w is the last to have written a document of kind k: whoever else owes   *)
(* an entry owed it then, and so did the authors of the entries after w's. *)
LastWriter(w, k) ==
  /\ \A q \in Requests : Owes(q, k) /\ q # w => q \in req[w].met
  /\ Owes(w, k) => IF req[w].op = "revert" THEN docs[k] = NoDoc ELSE docs[k].by = w
  /\ ~Owes(w, k) => \E n \in EntriesOf(k) :
       /\ Says(ledger[n], docs[k])
       /\ \A m \in EntriesOf(k) : m > n => ledger[m].by \in req[w].met
HasLast(k) == EntriesOf(k) # {} => \E n \in EntriesOf(k) : \A i \in EntriesOf(k) : i <= n
Told(k) == WroteBack(k) \/ Untouched(k) \/ \E w \in Requests : LastWriter(w, k)

TellInv ==
  /\ TypeInv
  /\ \A r \in Requests : req[r].copy # NoDoc => backend = "postgres"
  /\ \A k \in Kinds : HasLast(k) /\ Told(k)

LEMMA MoverOwes ==
  ASSUME TypeInv, NEW r \in Requests, Arrives(r) \/ Works(r)
  PROVE  /\ req[r].met \subseteq req'[r].met
         /\ \A k \in Kinds : Owes(r, k)' =>
              (Owes(r, k) \/ Writes(r, k)) /\ req'[r].op = req[r].op
<1>1. \A pc \in EndPcs : End(r, pc) =>
        /\ req[r].met \subseteq req'[r].met
        /\ \A k \in Kinds : Owes(r, k)' => Owes(r, k) /\ req'[r].op = req[r].op
  BY EndFields DEF Owes, Keeps, Same
<1>2. CASE Arrives(r)
  BY <1>2, ArriveFields DEF TypeInv, WellFormed, Owes
<1>3. CASE Put(r) \/ Drop(r)
  <2>1. /\ Same(r) /\ req'[r].kind = req[r].kind
        /\ req'[r].met = req[r].met \cup {q \in Requests : Owes(q, req[r].kind)}
    BY <1>3, WriteFields DEF Put, Drop
  <2>2. \A k \in Kinds : Owes(r, k)' => req[r].kind = k
    BY <2>1 DEF Owes
  <2> QED
    BY <1>3, <2>1, <2>2 DEF Writes, Same
<1>4. CASE ledger_document(r)
  <2>1. CASE req[r].op = "load"
    BY <1>4, <2>1, ReportFields DEF Owes
  <2>2. CASE req[r].op # "load"
    <3>1. End(r, "answered")
      BY <1>4, <2>2 DEF ledger_document, End
    <3> QED
      BY <1>1, <3>1
  <2> QED
    BY <2>1, <2>2
<1>5. CASE ReadTable(r)
  <2>1. CASE Go(r, "ledger_sign")
    BY <2>1, GoFields DEF Owes, Keeps
  <2> QED
    BY <1>1, <1>5, <2>1 DEF ReadTable
<1>6. CASE LedgerSign(r)
  BY <1>6, SignFields DEF Owes, Keeps
<1>7. CASE ReadCopy(r)
  <2>1. CASE docs["rule_table"] # NoDoc
    BY <1>7, <2>1, CopyFields DEF Owes, Keeps
  <2> QED
    BY <1>1, <1>7, <2>1 DEF ReadCopy
<1>8. CASE SignInPlace(r) \/ WriteBack(r) \/ FailLoad(r) \/ Abandon(r)
  BY <1>1, <1>8 DEF SignInPlace, WriteBack, FailLoad, Abandon
<1>9. CASE OpenFile(r)
  BY <1>9, OpenFields DEF Owes
<1>10. CASE HazardLine(r)
  <2>1. CASE ~End(r, "refused")
    <3>1. req'[r].kind = req[r].kind /\ req'[r].met = req[r].met
      BY <1>10, <2>1, LineFields
    <3>2. req[r].kind = "hazard_log" /\ "hazard_log" \notin Kinds
      BY <1>10 DEF HazardLine, TypeInv, WellFormed, Kinds
    <3> QED
      BY <3>1, <3>2 DEF Owes
  <2> QED
    BY <1>1, <2>1
<1> QED
  BY <1>2, <1>3, <1>4, <1>5, <1>6, <1>7, <1>8, <1>9, <1>10 DEF Works

LEMMA NewOwers ==
  ASSUME TypeInv, [Next]_vars, NEW r \in Requests
  PROVE  /\ req[r].met \subseteq req'[r].met
         /\ \A k \in Kinds : Owes(r, k)' =>
              (Owes(r, k) \/ Writes(r, k)) /\ req'[r].op = req[r].op
<1>1. CASE req'[r] = req[r]
  BY <1>1 DEF Owes
<1> QED
  BY <1>1, OthersWait, MoverOwes

LEMMA PaidOwers ==
  ASSUME TypeInv, [Next]_vars, NEW r \in Requests, NEW k \in Kinds, Owes(r, k), ~Owes(r, k)'
  PROVE  ledger_document(r)
<1>1. req'[r] # req[r]
  BY DEF Owes
<1>2. /\ req[r].pc = "ledger"
      /\ \/ ledger_document(r)
         \/ Keeps(r) /\ req'[r].pc \in {"refused", "abandoned"} /\ req'[r].next = "ledger"
  BY <1>1, OthersWait, OwerSteps DEF Owes
<1> QED
  BY <1>2 DEF Owes, Keeps

LEMMA NewEntries ==
  ASSUME TypeInv, [Next]_vars, NEW k, NEW n \in EntriesOf(k)', n \notin EntriesOf(k)
  PROVE  /\ n = Len(ledger) + 1
         /\ \E r \in Requests : ledger_document(r) /\ Owes(r, k) /\ ledger'[n].by = r
<1>1. PICK r \in Requests : ledger_document(r) \/ LedgerSign(r)
  <2>1. ledger' # ledger
    BY DEF EntriesOf
  <2>2. PICK r \in Requests : Arrives(r) \/ Works(r)
    BY <2>1, Steps DEF vars
  <2>3. ~Arrives(r)
    BY <2>1, ArriveFields
  <2> QED
    BY <2>1, <2>2, <2>3 DEF Works, Put, Drop, Write, ReadTable, SignInPlace, ReadCopy, WriteBack,
       OpenFile, HazardLine, FailLoad, Abandon
<1>2. PICK action \in Actions : AppendAudit(r, action)
  BY <1>1 DEF ledger_document, LedgerSign, Actions
<1>3. ledger \in Seq(Entries)
  BY DEF TypeInv
<1>4. n = Len(ledger) + 1
  <2>1. ledger' \in Seq(Entries) /\ Len(ledger') = Len(ledger) + 1
    BY <1>2, EntryAppended
  <2>2. n \in DOMAIN ledger' /\ n \notin DOMAIN ledger
    BY LedgerGrows DEF EntriesOf
  <2> QED
    BY <1>3, <2>1, <2>2
<1>5. CASE LedgerSign(r)
  <2>1. AppendAudit(r, "RULE_TABLE_SIGNED") /\ "RULE_TABLE_SIGNED" \in Actions
    BY <1>5 DEF LedgerSign, Actions
  <2>2. ledger'[Len(ledger) + 1] = [action |-> "RULE_TABLE_SIGNED", by |-> r,
                                    kind |-> req[r].kind, table |-> req[r].table]
    BY <2>1, EntryAppended
  <2>3. ledger'[n].action = "RULE_TABLE_SIGNED"
    BY <1>4, <2>2
  <2> QED
    BY <2>3 DEF EntriesOf
<1>6. CASE ledger_document(r)
  <2>1. PICK j : j = req[r].kind
    OBVIOUS
  <2>2. ledger'[n].kind = j /\ ledger'[n].by = r
    BY <1>4, <1>6, <2>1, EntryRecorded
  <2>3. j = k
    BY <2>2 DEF EntriesOf
  <2>4. Owes(r, k)
    BY <1>6, <2>1, <2>3 DEF ledger_document, Owes
  <2> QED
    BY <1>4, <1>6, <2>2, <2>4
<1> QED
  BY <1>1, <1>5, <1>6

LEMMA StepHasLast ==
  ASSUME TypeInv, [Next]_vars, NEW k, HasLast(k)
  PROVE  HasLast(k)'
<1>1. \A n \in EntriesOf(k) : n \in EntriesOf(k)' /\ n \in 1..Len(ledger) /\ Len(ledger) \in Nat
  BY EntriesStay, LedgerGrows DEF EntriesOf
<1>2. CASE EntriesOf(k)' = EntriesOf(k)
  BY <1>2 DEF HasLast
<1>3. CASE EntriesOf(k)' # EntriesOf(k)
  <2>1. PICK n \in EntriesOf(k)' : n \notin EntriesOf(k)
    BY <1>1, <1>3
  <2>2. n = Len(ledger) + 1
    BY <2>1, NewEntries
  <2>3. \A i \in EntriesOf(k)' : i <= n
    <3> SUFFICES ASSUME NEW i \in EntriesOf(k)'
                 PROVE  i <= n
      OBVIOUS
    <3>1. CASE i \in EntriesOf(k)
      BY <1>1, <2>2, <3>1
    <3>2. CASE i \notin EntriesOf(k)
      <4>1. i = Len(ledger) + 1 /\ Len(ledger) \in Nat
        BY <3>2, NewEntries, LedgerGrows
      <4> QED
        BY <2>2, <4>1
    <3> QED
      BY <3>1, <3>2
  <2> QED
    BY <2>1, <2>3 DEF HasLast
<1> QED
  BY <1>2, <1>3

(* A document is replaced or discarded, signed, or written back.           *)
LEMMA KeptOrWritten ==
  ASSUME TypeInv, [Next]_vars, NEW k \in Kinds
  PROVE  \/ Kept(k)
         \/ \E r \in Requests : Writes(r, k)
         \/ k = "rule_table" /\ \E r \in Requests : WriteBack(r)
<1>1. ASSUME NEW r \in Requests, docs[k] # NoDoc,
             docs'[k] = [docs[k] EXCEPT !.signoff = SignOff(r)]
      PROVE  Kept(k)
  <2>1. docs[k] \in Docs
    BY DEF TypeInv
  <2>2. docs'[k].by = docs[k].by /\ docs'[k].signoff = SignOff(r)
    BY <1>1, <2>1, Signed, SignOffTyped
  <2>3. docs'[k] # NoDoc
    BY <2>2, SignOffTyped, Blank
  <2> QED
    BY <1>1, <2>2, <2>3 DEF Kept
<1>2. \/ docs'[k] = docs[k]
      \/ \E r \in Requests : Writes(r, k)
      \/ \E r \in Requests : docs[k] # NoDoc /\ docs'[k] = [docs[k] EXCEPT !.signoff = SignOff(r)]
      \/ k = "rule_table" /\ \E r \in Requests : WriteBack(r)
  <2> HIDE DEF WriteBack, SignInPlace, Put, Drop, SignOff, NewDoc, NoDoc
  <2> QED
    BY DocSteps DEF Writes
<1> QED
  BY <1>1, <1>2 DEF Kept

LEMMA WriterIsLast ==
  ASSUME TypeInv, [Next]_vars, NEW k \in Kinds, NEW r \in Requests, Writes(r, k)
  PROVE  LastWriter(r, k)'
<1>1. PICK doc \in {NewDoc(r), NoDoc} :
        /\ Write(r, doc)
        /\ IF req[r].op = "revert" THEN doc = NoDoc ELSE doc = NewDoc(r)
  BY DEF Writes, Put, Drop, TypeInv, WellFormed
<1>2. /\ Same(r) /\ req'[r].pc = "ledger" /\ req'[r].kind = k
      /\ req'[r].met = req[r].met \cup {q \in Requests : Owes(q, k)}
  BY <1>1, WriteFields DEF Writes
<1>3. docs'[k] = doc
  BY <1>1 DEF Write, Writes, TypeInv
<1>4. Owes(r, k)'
  BY <1>2 DEF Owes
<1>5. \A q \in Requests : Owes(q, k)' /\ q # r => q \in req'[r].met
  <2> SUFFICES ASSUME NEW q \in Requests, Owes(q, k)', q # r
               PROVE  q \in req'[r].met
    OBVIOUS
  <2>1. req'[q] = req[q]
    <3>1. Arrives(r) \/ Works(r)
      BY DEF Writes, Works
    <3> QED
      BY <3>1, MoverOnly DEF Moved
  <2>2. Owes(q, k)
    BY <2>1 DEF Owes
  <2> QED
    BY <1>2, <2>2
<1>6. IF req'[r].op = "revert" THEN docs'[k] = NoDoc ELSE docs'[k].by = r
  BY <1>1, <1>2, <1>3, NewDocTyped DEF Same
<1> QED
  BY <1>4, <1>5, <1>6 DEF LastWriter

LEMMA LastWriterStays ==
  ASSUME TypeInv, [Next]_vars, NEW k \in Kinds, NEW w \in Requests, LastWriter(w, k),
         \A r \in Requests : ~Writes(r, k), Kept(k)
  PROVE  LastWriter(w, k)'
<1>1. \A q \in Requests : Owes(q, k)' => Owes(q, k) /\ req'[q].op = req[q].op
  BY NewOwers
<1>2. req[w].met \subseteq req'[w].met
  BY NewOwers
<1>3. \A q \in Requests : Owes(q, k)' /\ q # w => q \in req'[w].met
  BY <1>1, <1>2 DEF LastWriter
<1>4. Owes(w, k)' => IF req'[w].op = "revert" THEN docs'[k] = NoDoc ELSE docs'[k].by = w
  BY <1>1 DEF LastWriter, Kept
<1>5. ASSUME ~Owes(w, k)'
      PROVE  \E n \in EntriesOf(k)' :
               /\ Says(ledger[n], docs[k])'
               /\ \A m \in EntriesOf(k)' : m > n => ledger'[m].by \in req'[w].met
  <2>1. CASE Owes(w, k)
    <3>1. ledger_document(w) /\ req[w].kind = k
      BY <1>5, <2>1, PaidOwers DEF Owes
    <3>2. PICK n : n = Len(ledger) + 1
      OBVIOUS
    <3>3. /\ n \in EntriesOf(k)' /\ ledger'[n].by = w
          /\ ledger'[n].action =
               IF req[w].op = "revert" THEN "DOCUMENT_REVERTED" ELSE "DOCUMENT_REPLACED"
      BY <3>1, <3>2, EntryRecorded
    <3>4. Says(ledger[n], docs[k])'
      BY <2>1, <3>3 DEF LastWriter, Says, Kept
    <3>5. \A m \in EntriesOf(k)' : ~(m > n)
      BY <3>2, NewEntries, LedgerGrows DEF EntriesOf
    <3> QED
      BY <3>3, <3>4, <3>5
  <2>2. CASE ~Owes(w, k)
    <3>1. PICK n \in EntriesOf(k) :
            /\ Says(ledger[n], docs[k])
            /\ \A m \in EntriesOf(k) : m > n => ledger[m].by \in req[w].met
      BY <2>2 DEF LastWriter
    <3>2. n \in EntriesOf(k)' /\ ledger'[n] = ledger[n]
      BY <3>1, EntriesStay
    <3>3. Says(ledger[n], docs[k])'
      BY <3>1, <3>2 DEF Says, Kept
    <3>4. ASSUME NEW m \in EntriesOf(k)', m > n
          PROVE  ledger'[m].by \in req'[w].met
      <4>1. CASE m \in EntriesOf(k)
        BY <1>2, <3>1, <3>4, <4>1, EntriesStay
      <4>2. CASE m \notin EntriesOf(k)
        <5>1. PICK r \in Requests : Owes(r, k) /\ ledger'[m].by = r
          BY <4>2, NewEntries
        <5> QED
          BY <1>2, <2>2, <5>1 DEF LastWriter
      <4> QED
        BY <4>1, <4>2
    <3> QED
      BY <3>2, <3>3, <3>4
  <2> QED
    BY <2>1, <2>2
<1> QED
  BY <1>3, <1>4, <1>5 DEF LastWriter

LEMMA UntouchedStays ==
  ASSUME TypeInv, [Next]_vars, NEW k \in Kinds, Untouched(k), \A r \in Requests : ~Writes(r, k)
  PROVE  Untouched(k)'
<1>1. \A q \in Requests : ~Owes(q, k)'
  BY NewOwers DEF Untouched
<1>2. EntriesOf(k)' = {}
  BY NewEntries DEF Untouched
<1> QED
  BY <1>1, <1>2 DEF Untouched

LEMMA StepTellInv ==
  ASSUME TellInv, [Next]_vars
  PROVE  TellInv'
<1>0. TypeInv /\ TypeInv'
  BY StepTypeInv DEF TellInv
<1>1. backend' = backend
  <2>1. CASE UNCHANGED vars
    BY <2>1 DEF vars
  <2>2. ASSUME NEW r \in Requests, Arrives(r) \/ Works(r)
        PROVE  backend' = backend
    <3>1. CASE Arrives(r)
      BY <1>0, <3>1, ArriveFields
    <3>2. CASE Works(r)
      BY <3>2 DEF Works, Put, Drop, Write, ledger_document, ReadTable, LedgerSign, SignInPlace,
         ReadCopy, WriteBack, OpenFile, HazardLine, FailLoad, Abandon
    <3> QED
      BY <2>2, <3>1, <3>2
  <2> QED
    BY <2>1, <2>2, Steps
<1>2. \A r \in Requests : req[r].copy # NoDoc => req'[r].copy # NoDoc
  <2> SUFFICES ASSUME NEW r \in Requests, req[r].copy # NoDoc
               PROVE  req'[r].copy # NoDoc
    OBVIOUS
  <2>1. CASE req'[r].copy = req[r].copy
    BY <2>1
  <2>2. CASE req'[r].copy = [docs["rule_table"] EXCEPT !.signoff = SignOff(r)]
    <3>1. docs["rule_table"] \in Docs
      BY <1>0, Names DEF TypeInv
    <3>2. req'[r].copy.signoff = SignOff(r)
      BY <1>0, <2>2, <3>1, Signed, SignOffTyped
    <3> QED
      BY <1>0, <3>2, SignOffTyped, Blank
  <2> QED
    BY <1>0, <2>1, <2>2, CopySteps
<1>3. \A r \in Requests : req'[r].copy # NoDoc => backend' = "postgres"
  BY <1>0, <1>1, CopySteps DEF TellInv, ReadCopy
<1>4. ASSUME NEW k \in Kinds
      PROVE  HasLast(k)' /\ Told(k)'
  <2>1. HasLast(k)'
    BY <1>0, StepHasLast DEF TellInv
  <2>2. CASE WroteBack(k)
    BY <1>1, <1>2, <2>1, <2>2 DEF WroteBack, Told
  <2>3. CASE \E r \in Requests : Writes(r, k)
    BY <1>0, <2>1, <2>3, WriterIsLast DEF Told
  <2>4. CASE k = "rule_table" /\ \E r \in Requests : WriteBack(r)
    <3>1. PICK r \in Requests : WriteBack(r)
      BY <2>4
    <3>2. req[r].copy # NoDoc /\ backend = "postgres"
      BY <1>0, <3>1 DEF TellInv, WriteBack, TypeInv, WellFormed
    <3> QED
      BY <1>1, <1>2, <2>1, <2>4, <3>2 DEF WroteBack, Told
  <2>5. CASE Kept(k) /\ \A r \in Requests : ~Writes(r, k)
    <3>1. CASE Untouched(k)
      BY <1>0, <2>1, <2>5, <3>1, UntouchedStays DEF Told
    <3>2. CASE \E w \in Requests : LastWriter(w, k)
      BY <1>0, <2>1, <2>5, <3>2, LastWriterStays DEF Told
    <3> QED
      BY <2>1, <2>2, <3>1, <3>2 DEF TellInv, Told
  <2> QED
    BY <1>0, <2>2, <2>3, <2>4, <2>5, KeptOrWritten
<1> QED
  BY <1>0, <1>3, <1>4 DEF TellInv

LEMMA InitTellInv ==
  ASSUME Init
  PROVE  TellInv
BY InitTypeInv, Blank DEF Init, TellInv, HasLast, Told, Untouched, EntriesOf, Owes

LEMMA TellInvSays ==
  ASSUME TellInv
  PROVE  LedgerSaysWhatIsStored
<1> SUFFICES ASSUME NEW k \in Kinds, \A r \in Requests : ~Owes(r, k), EntriesOf(k) # {},
                    NEW last, last = CHOOSE n \in EntriesOf(k) : \A i \in EntriesOf(k) : i <= n
             PROVE  \/ Says(ledger[last], docs[k])
                    \/ \E w \in Requests : ledger[last].by \in req[w].met
                    \/ WroteBack(k)
  BY DEF LedgerSaysWhatIsStored
<1>1. last \in EntriesOf(k) /\ \A i \in EntriesOf(k) : i <= last
  BY DEF TellInv, HasLast
<1>2. CASE \E w \in Requests : LastWriter(w, k)
  <2>1. PICK w \in Requests, n \in EntriesOf(k) :
          /\ Says(ledger[n], docs[k])
          /\ \A m \in EntriesOf(k) : m > n => ledger[m].by \in req[w].met
    BY <1>2 DEF LastWriter
  <2>2. n = last \/ last > n
    <3>1. \A i \in EntriesOf(k) : i \in Nat
      <4>1. ledger \in Seq(Entries)
        BY DEF TellInv, TypeInv
      <4>2. DOMAIN ledger = 1..Len(ledger) /\ Len(ledger) \in Nat
        BY <4>1
      <4>3. EntriesOf(k) \subseteq DOMAIN ledger
        BY DEF EntriesOf
      <4> QED
        BY <4>2, <4>3
    <3> QED
      BY <1>1, <3>1
  <2> QED
    BY <1>1, <2>1, <2>2
<1> QED
  BY <1>2 DEF TellInv, Told, Untouched

(* What an auditor reads in the last entry about a document is what is     *)
(* stored, unless two writers' entries crossed or a signature in           *)
(* PostgreSQL wrote an older rule table back (schedule_door.rs             *)
(* ledger_document; memory.rs, pg_repo.rs put_document, sign_rule_table).  *)
THEOREM LedgerTells == Spec => []LedgerSaysWhatIsStored
BY InitTellInv, StepTellInv, TellInvSays, PTL DEF Spec
=============================================================================
