--------------------------- MODULE XerIngestProofs ---------------------------
(***************************************************************************)
(* What XerIngest promises of logic, of silence, of windows and of hours   *)
(* holds of every export, field map and clock.                             *)
(*                                                                         *)
(* What has been read so far is the export's own lines, section by section *)
(* and in their order: the rows kept are the whole ones, each with its     *)
(* line, the fields a section is read by are those of its last header, and *)
(* the rows refused are the others.  From then on each row is told once.   *)
(***************************************************************************)
EXTENDS XerIngest, FiniteSetTheorems, WellFoundedInduction, TLAPS

IsSeq(s) == s \in Seq(ToSet(s))

LEMMA SeqIs ==
  ASSUME NEW s, IsSeq(s)
  PROVE  Len(s) \in Nat /\ DOMAIN s = 1 .. Len(s)
BY DEF IsSeq

LEMMA Appending ==
  ASSUME NEW s, IsSeq(s), NEW e
  PROVE  /\ IsSeq(Append(s, e)) /\ Len(Append(s, e)) = Len(s) + 1
         /\ DOMAIN Append(s, e) = DOMAIN s \cup {Len(s) + 1}
         /\ Append(s, e)[Len(s) + 1] = e
         /\ \A n \in DOMAIN s : Append(s, e)[n] = s[n]
         /\ Len(s) + 1 \notin DOMAIN s
<1> DEFINE t == Append(s, e)
<1>1. s \in Seq(ToSet(s) \cup {e}) /\ DOMAIN s = 1 .. Len(s) /\ Len(s) \in Nat
  BY DEF IsSeq, ToSet
<1>2. /\ t \in Seq(ToSet(s) \cup {e}) /\ Len(t) = Len(s) + 1 /\ DOMAIN t = 1 .. Len(s) + 1
      /\ t[Len(s) + 1] = e /\ \A n \in 1 .. Len(s) : t[n] = s[n]
  BY <1>1
<1>3. t \in Seq({t[n] : n \in DOMAIN t})
  BY <1>1, <1>2
<1> QED
  BY <1>1, <1>2, <1>3 DEF IsSeq, ToSet

(* Counting the places of a sequence that one more is put at the end of.   *)
LEMMA Counting ==
  ASSUME NEW n \in Nat, NEW K, K \subseteq 1 .. n
  PROVE  /\ IsFiniteSet(K) /\ Cardinality(K) \in Nat
         /\ IsFiniteSet(K \cup {n + 1}) /\ Cardinality(K \cup {n + 1}) = Cardinality(K) + 1
<1>1. IsFiniteSet(1 .. n)
  BY FS_Interval
<1>2. IsFiniteSet(K)
  BY <1>1, FS_Subset
<1>3. n + 1 \notin K
  OBVIOUS
<1> QED
  BY <1>2, <1>3, FS_AddElement, FS_CardinalityType

(* The greatest and the least.                                             *)
LEMMA Latest ==
  ASSUME NEW i \in Int, NEW S, \A j \in S : j \in Int /\ j < i
  PROVE  Max(S \cup {i}) = i
<1>1. \A y \in S \cup {i} : y \in Int /\ i >= y
  OBVIOUS
<1>2. \A x \in S \cup {i} : (\A y \in S \cup {i} : x >= y) => x = i
  BY <1>1
<1> QED
  BY <1>1, <1>2 DEF Max

-----------------------------------------------------------------------------
(* The export's lines.                                                     *)
LEMMA Export ==
  ASSUME input \in Inputs
  PROVE  /\ Len(file) \in Nat /\ DOMAIN file = 1 .. Len(file)
         /\ \A i \in 1 .. Len(file) : file[i] \in Lines
BY ExportsAssumption DEF file

LEMMA LineIs ==
  ASSUME NEW l \in Lines
  PROVE  /\ l.tag \in {"T", "F", "R", "E", "noise"}
         /\ l.tag = "T" => l.name \in STRING
         /\ l.tag \in {"F", "R"} => l.cells \in Seq(STRING)
BY DEF Lines

LEMMA AboveGrows ==
  ASSUME input \in Inputs, NEW i \in 1 .. Len(file), NEW tags
  PROVE  /\ Above(i + 1, tags) = IF file[i].tag \in tags THEN Above(i, tags) \cup {i} ELSE Above(i, tags)
         /\ \A j \in Above(i, tags) : j \in Int /\ j < i
<1>1. i \in Nat /\ i + 1 - 1 = i /\ 1 .. i = (1 .. (i - 1)) \cup {i}
  BY Export
<1> QED
  BY <1>1 DEF Above

(* A line opens a section, ends it, or stands in the one above it.         *)
LEMMA SectionGrows ==
  ASSUME input \in Inputs, NEW i \in 1 .. Len(file)
  PROVE  SectionOf(i + 1) = CASE file[i].tag = "T" -> file[i].name
                              [] file[i].tag = "E" -> None
                              [] OTHER -> SectionOf(i)
<1>1. PICK S, U : S = Above(i, {"T", "E"}) /\ U = Above(i + 1, {"T", "E"})
  OBVIOUS
<1>2. /\ U = IF file[i].tag \in {"T", "E"} THEN S \cup {i} ELSE S
      /\ \A j \in S : j \in Int /\ j < i
  BY <1>1, AboveGrows
<1>3. SectionOf(i + 1) = OpenedBy(U) /\ SectionOf(i) = OpenedBy(S)
  BY <1>1 DEF SectionOf
<1>0. i \in Int
  BY Export
<1>4. Max(S \cup {i}) = i
  BY <1>0, <1>2, Latest, Zenon
<1>5. CASE file[i].tag = "T"
  <2>1. U = S \cup {i}
    BY <1>2, <1>5
  <2> QED
    BY <1>3, <1>4, <1>5, <2>1 DEF OpenedBy
<1>6. CASE file[i].tag = "E"
  <2>1. U = S \cup {i}
    BY <1>2, <1>6
  <2> QED
    BY <1>3, <1>4, <1>6, <2>1 DEF OpenedBy
<1>7. CASE file[i].tag \notin {"T", "E"}
  BY <1>2, <1>3, <1>7
<1> QED
  BY <1>5, <1>6, <1>7

LEMMA HeadersGrow ==
  ASSUME input \in Inputs, NEW i \in 1 .. Len(file), NEW name
  PROVE  HeadedBy(HeadersOf(i + 1, name))
           = IF file[i].tag = "F" /\ SectionOf(i) = name THEN file[i].cells ELSE HeadedBy(HeadersOf(i, name))
<1>1. PICK S, U : S = HeadersOf(i, name) /\ U = HeadersOf(i + 1, name)
  OBVIOUS
<1>2. \A j \in Above(i, {"F"}) : j \in Int /\ j < i
  BY AboveGrows
<1>3. Above(i + 1, {"F"}) = IF file[i].tag = "F" THEN Above(i, {"F"}) \cup {i} ELSE Above(i, {"F"})
  BY AboveGrows
<1>4. U = IF file[i].tag = "F" /\ SectionOf(i) = name THEN S \cup {i} ELSE S
  BY <1>1, <1>3 DEF HeadersOf
<1>5. \A j \in S : j \in Int /\ j < i
  BY <1>1, <1>2 DEF HeadersOf
<1>0. i \in Int
  BY Export
<1>6. Max(S \cup {i}) = i
  BY <1>0, <1>5, Latest, Zenon
<1> QED
  BY <1>1, <1>4, <1>6 DEF HeadedBy

(* The lines are the export's, whatever has been read.                     *)
LEMMA SameExport ==
  ASSUME input' = input
  PROVE  /\ file' = file /\ map' = map
         /\ \A i : SectionOf(i)' = SectionOf(i) /\ HeaderOf(i)' = HeaderOf(i)
         /\ \A i, name : HeadersOf(i, name)' = HeadersOf(i, name)
         /\ \A i, field : Said(i, field)' = Said(i, field)
<1>1. file' = file /\ map' = map
  BY DEF file, map
<1>2. \A i, tags : Above(i, tags)' = Above(i, tags)
  BY <1>1 DEF Above
<1>3. \A i : SectionOf(i)' = SectionOf(i)
  BY <1>1, <1>2 DEF SectionOf, OpenedBy
<1>4. \A i, name : HeadersOf(i, name)' = HeadersOf(i, name)
  BY <1>2, <1>3 DEF HeadersOf
<1>5. \A i : HeaderOf(i)' = HeaderOf(i)
  BY <1>1, <1>3, <1>4 DEF HeaderOf, HeadedBy
<1>6. \A i, field : Said(i, field)' = Said(i, field)
  BY <1>1, <1>5 DEF Said, SaidUnder, CellIn
<1> QED
  BY <1>1, <1>3, <1>4, <1>5, <1>6

LEMMA AtTheTop ==
  /\ SectionOf(1) = None
  /\ \A name : HeadedBy(HeadersOf(1, name)) = << >>
<1>1. \A tags : Above(1, tags) = {}
  BY DEF Above
<1> QED
  BY <1>1 DEF SectionOf, OpenedBy, HeadersOf, HeadedBy

-----------------------------------------------------------------------------
(* What has been read: the rows kept of a section are its whole lines, each *)
(* once, and it is read by its last header.                                 *)
Stages == {"reading", "tables", "tasks", "logic", "done"}

RowsAre(rows, L) ==
  /\ IsSeq(rows)
  /\ \A k \in DOMAIN rows : rows[k].line \in L /\ rows[k].cells = file[rows[k].line].cells
  /\ \A i \in L : \E k \in DOMAIN rows : rows[k].line = i
  /\ \A j, k \in DOMAIN rows : rows[j].line = rows[k].line => j = k

TablesAre ==
  /\ tables = [name \in DOMAIN tables |-> tables[name]]
  /\ \A name \in DOMAIN tables :
       /\ tables[name] = [fields |-> tables[name].fields, rows |-> tables[name].rows]
       /\ tables[name].fields \in Seq(STRING)

Tabled(name) ==
  /\ Table(name).fields = HeadedBy(HeadersOf(line + 1, name))
  /\ RowsAre(Table(name).rows, Whole(name))

Read ==
  /\ input \in Inputs /\ line \in 0 .. Len(file) /\ cellCount \in Nat /\ stage \in Stages
  /\ stage = "reading" => /\ current = SectionOf(line + 1) /\ cellCount <= MaxCells
                          /\ current # None => current \in DOMAIN tables
  /\ TablesAre
  /\ \A name : name # None => Tabled(name)

(* A step that reads a line keeps what was read above it.                  *)
LEMMA OneLineMore ==
  ASSUME Read, stage = "reading", line < Len(file), line' = line + 1, input' = input,
         cellCount' \in Nat
  PROVE  /\ Line \in Lines /\ line + 1 \in 1 .. Len(file) /\ Line = file[line + 1] /\ file' = file
         /\ SectionOf(line + 1)' = SectionOf(line + 2)
         /\ \A name : RowsOf(name)' = IF Line.tag = "R" /\ SectionOf(line + 1) = name
                                      THEN RowsOf(name) \cup {line + 1} ELSE RowsOf(name)
         /\ \A name : Whole(name)' =
              IF /\ Line.tag = "R" /\ SectionOf(line + 1) = name
                 /\ Len(HeaderOf(line + 1)) = Len(Line.cells) /\ cellCount' <= MaxCells
              THEN Whole(name) \cup {line + 1} ELSE Whole(name)
         /\ \A name : HeadedBy(HeadersOf(line + 1, name))' =
              IF Line.tag = "F" /\ SectionOf(line + 1) = name
              THEN Line.cells ELSE HeadedBy(HeadersOf(line + 1, name))
         /\ \A name : line + 1 \notin RowsOf(name) /\ RowsOf(name) \subseteq 1 .. line
                      /\ Whole(name) \subseteq RowsOf(name)
<1>1. /\ line \in Nat /\ line + 1 \in 1 .. Len(file) /\ input \in Inputs
      /\ cellCount \in Nat /\ cellCount <= MaxCells /\ MaxCells \in Nat
  BY Export, CellsAssumption DEF Read
<1>2. Line = file[line + 1] /\ Line \in Lines
  BY <1>1, Export DEF Line
<1>3. /\ file' = file
      /\ \A i : SectionOf(i)' = SectionOf(i) /\ HeaderOf(i)' = HeaderOf(i)
      /\ \A i, name : HeadersOf(i, name)' = HeadersOf(i, name)
  BY SameExport
<1>4. SectionOf(line + 1)' = SectionOf(line + 2)
  <2>1. PICK i : i = line + 2
    OBVIOUS
  <2>2. SectionOf(line + 1)' = SectionOf(i)'
    <3>1. line' + 1 = i
      BY <1>1, <2>1
    <3> QED
      BY <3>1 DEF SectionOf, Above
  <2> QED
    BY <1>3, <2>1, <2>2
<1>5. \A name : RowsOf(name) \subseteq 1 .. line /\ line + 1 \notin RowsOf(name) /\ Whole(name) \subseteq RowsOf(name)
  BY <1>1 DEF RowsOf, Whole
<1>6. \A name : RowsOf(name)' = IF Line.tag = "R" /\ SectionOf(line + 1) = name
                                THEN RowsOf(name) \cup {line + 1} ELSE RowsOf(name)
  <2>1. 1 .. line' = (1 .. line) \cup {line + 1}
    BY <1>1
  <2> QED
    BY <1>2, <1>3, <2>1 DEF RowsOf
<1>7. ASSUME NEW name
      PROVE  Whole(name)' = IF /\ Line.tag = "R" /\ SectionOf(line + 1) = name
                               /\ Len(HeaderOf(line + 1)) = Len(Line.cells) /\ cellCount' <= MaxCells
                            THEN Whole(name) \cup {line + 1} ELSE Whole(name)
  <2>1. Whole(name)' = {i \in RowsOf(name)' : /\ Len(HeaderOf(i)) = Len(file[i].cells)
                                              /\ cellCount' > MaxCells => i # line + 1}
    BY <1>3 DEF Whole
  <2>2. Whole(name) = {i \in RowsOf(name) : Len(HeaderOf(i)) = Len(file[i].cells)}
    BY <1>1 DEF Whole
  <2>3. cellCount' > MaxCells <=> ~(cellCount' <= MaxCells)
    BY <1>1
  <2> QED
    BY <1>2, <1>5, <1>6, <2>1, <2>2, <2>3
<1>8. \A name : HeadedBy(HeadersOf(line + 1, name))' =
              IF Line.tag = "F" /\ SectionOf(line + 1) = name
              THEN Line.cells ELSE HeadedBy(HeadersOf(line + 1, name))
  <2> SUFFICES ASSUME NEW name
               PROVE  HeadedBy(HeadersOf(line + 1, name))' =
                        IF Line.tag = "F" /\ SectionOf(line + 1) = name
                        THEN Line.cells ELSE HeadedBy(HeadersOf(line + 1, name))
    OBVIOUS
  <2>3. PICK i : i = line + 2
    OBVIOUS
  <2>4. HeadersOf(line + 1, name)' = HeadersOf(i, name)'
    <3>1. line' + 1 = i
      BY <1>1, <2>3
    <3> QED
      BY <3>1 DEF HeadersOf, Above
  <2>1. HeadersOf(line + 1, name)' = HeadersOf(line + 2, name)
    BY <1>3, <2>3, <2>4
  <2>2. HeadedBy(HeadersOf(line + 1, name))' = HeadedBy(HeadersOf(line + 2, name))
    BY <1>3, <2>1 DEF HeadedBy
  <2> QED
    BY <1>1, <1>2, <2>2, HeadersGrow
<1> QED
  BY <1>1, <1>2, <1>3, <1>4, <1>5, <1>6, <1>7, <1>8

Keeping == /\ Line.tag = "R" /\ Len(HeaderOf(line + 1)) = Len(Line.cells)
           /\ cellCount' <= MaxCells

LEMMA RowsKept ==
  ASSUME NEW rows, NEW L, RowsAre(rows, L), NEW i, i \notin L, NEW cells, cells = file[i].cells,
         file' = file
  PROVE  /\ RowsAre(rows, L)'
         /\ RowsAre(Append(rows, [line |-> i, cells |-> cells]), L \cup {i})'
<1>1. PICK e : e = [line |-> i, cells |-> cells]
  OBVIOUS
<1>2. e.line = i /\ e.cells = file[i].cells
  BY <1>1
<1>3. PICK t : t = Append(rows, e)
  OBVIOUS
<1>4. /\ IsSeq(t) /\ DOMAIN t = DOMAIN rows \cup {Len(rows) + 1}
      /\ t[Len(rows) + 1] = e /\ \A n \in DOMAIN rows : t[n] = rows[n]
  BY <1>3, Appending DEF RowsAre
<1>5. \A k \in DOMAIN t : t[k].line \in L \cup {i} /\ t[k].cells = file[t[k].line].cells
  BY <1>2, <1>4 DEF RowsAre
<1>6. \A j \in L \cup {i} : \E k \in DOMAIN t : t[k].line = j
  BY <1>2, <1>4 DEF RowsAre
<1>7. \A j, k \in DOMAIN t : t[j].line = t[k].line => j = k
  BY <1>2, <1>4 DEF RowsAre
<1> QED
  BY <1>1, <1>3, <1>4, <1>5, <1>6, <1>7 DEF RowsAre

LEMMA LineIsRead ==
  ASSUME Read, stage = "reading", line < Len(file), line' = line + 1, input' = input,
         cellCount' \in Nat, stage' \in Stages, TablesAre',
         stage' = "reading" => /\ current' = SectionOf(line + 2) /\ cellCount' <= MaxCells
                               /\ current' # None => current' \in DOMAIN tables',
         \A name : name # None =>
           /\ Table(name)'.fields = IF Line.tag = "F" /\ SectionOf(line + 1) = name
                                    THEN Line.cells ELSE Table(name).fields
           /\ Table(name)'.rows = IF Keeping /\ SectionOf(line + 1) = name
                                  THEN Append(Table(name).rows, [line |-> line + 1, cells |-> Line.cells])
                                  ELSE Table(name).rows
  PROVE  Read'
<1>1. /\ Line = file[line + 1] /\ file' = file
      /\ SectionOf(line + 1)' = SectionOf(line + 2)
      /\ \A name : Whole(name)' = IF Keeping /\ SectionOf(line + 1) = name
                                  THEN Whole(name) \cup {line + 1} ELSE Whole(name)
      /\ \A name : HeadedBy(HeadersOf(line + 1, name))' =
              IF Line.tag = "F" /\ SectionOf(line + 1) = name
              THEN Line.cells ELSE HeadedBy(HeadersOf(line + 1, name))
      /\ \A name : line + 1 \notin Whole(name)
  BY OneLineMore DEF Keeping
<1>2. ASSUME NEW name, name # None PROVE Tabled(name)'
  <2>1. Tabled(name)
    BY <1>2 DEF Read
  <2>2. Table(name)'.fields = HeadedBy(HeadersOf(line + 1, name))'
    BY <1>1, <1>2, <2>1 DEF Tabled
  <2>3. PICK rows, L : rows = Table(name).rows /\ L = Whole(name)
    OBVIOUS
  <2>4. RowsAre(rows, L) /\ line + 1 \notin L
    BY <1>1, <2>1, <2>3 DEF Tabled
  <2>5. PICK i, cells : i = line + 1 /\ cells = Line.cells
    OBVIOUS
  <2>6. RowsAre(rows, L)' /\ RowsAre(Append(rows, [line |-> i, cells |-> cells]), L \cup {i})'
    BY <1>1, <2>4, <2>5, RowsKept
  <2>7. PICK rows2, L2 : rows2 = Table(name)'.rows /\ L2 = Whole(name)'
    OBVIOUS
  <2>8. \/ rows2 = rows /\ L2 = L
        \/ rows2 = Append(rows, [line |-> i, cells |-> cells]) /\ L2 = L \cup {i}
    BY <1>1, <1>2, <2>3, <2>5, <2>7
  <2>9. RowsAre(rows2, L2)'
    BY <2>6, <2>8
  <2> QED
    BY <2>2, <2>7, <2>9 DEF Tabled
<1>3. line' \in 0 .. Len(file)
  BY Export DEF Read
<1> QED
  BY <1>1, <1>2, <1>3 DEF Read

LEMMA InSection ==
  ASSUME Read, stage = "reading", line < Len(file), line' = line + 1, input' = input,
         cellCount' \in Nat
  PROVE  /\ current = SectionOf(line + 1) /\ (current # None => current \in DOMAIN tables)
         /\ Line.tag = "T" => Line.name # None /\ SectionOf(line + 2) = Line.name
         /\ Line.tag = "E" => SectionOf(line + 2) = None
         /\ Line.tag \notin {"T", "E"} => SectionOf(line + 2) = SectionOf(line + 1)
         /\ current # None => HeaderOf(line + 1) = tables[current].fields
<1>1. line + 1 \in 1 .. Len(file) /\ input \in Inputs /\ Line = file[line + 1] /\ Line \in Lines
  BY OneLineMore DEF Read
<1>2. PICK i : i = line + 1 /\ i + 1 = line + 2
  BY DEF Read
<1>3. SectionOf(i + 1) = CASE Line.tag = "T" -> Line.name [] Line.tag = "E" -> None [] OTHER -> SectionOf(i)
  BY <1>1, <1>2, SectionGrows
<1>4. /\ Line.tag = "T" => SectionOf(line + 2) = Line.name
      /\ Line.tag = "E" => SectionOf(line + 2) = None
      /\ Line.tag \notin {"T", "E"} => SectionOf(line + 2) = SectionOf(line + 1)
  BY <1>2, <1>3
<1>5. Line.tag = "T" => Line.name # None
  BY <1>1, LineIs, ExportsAssumption
<1>6. current # None => HeaderOf(line + 1) = tables[current].fields
  <2>1. SUFFICES ASSUME current # None PROVE HeaderOf(line + 1) = tables[current].fields
    OBVIOUS
  <2>2. Tabled(current) /\ current \in DOMAIN tables /\ current = SectionOf(line + 1)
    BY <2>1 DEF Read
  <2> QED
    BY <2>2 DEF Tabled, Table, HeaderOf
<1> QED
  BY <1>4, <1>5, <1>6 DEF Read

LEMMA SectionOpened ==
  ASSUME Read, ReadSection
  PROVE  /\ Read' /\ DOMAIN tables \subseteq DOMAIN tables'
         /\ \A name : Table(name)'.rows = Table(name).rows
<1>1. /\ stage = "reading" /\ line < Len(file) /\ line' = line + 1 /\ input' = input /\ stage' = stage
      /\ Line.tag = "T" /\ cellCount' = cellCount /\ current' = Line.name
      /\ tables' = Put(tables, Line.name, Table(Line.name))
  BY DEF ReadSection, Reads, KeepsRead
<1>2. cellCount' \in Nat /\ cellCount <= MaxCells /\ stage' \in Stages /\ TablesAre
  BY <1>1 DEF Read
<1>3. Line.name # None /\ SectionOf(line + 2) = Line.name
  BY <1>1, <1>2, InSection
<1>4. PICK t : t = Table(Line.name)
  OBVIOUS
<1>5. /\ DOMAIN tables' = DOMAIN tables \cup {Line.name}
      /\ tables' = [name \in DOMAIN tables' |-> tables'[name]]
      /\ \A name \in DOMAIN tables' : tables'[name] = IF name = Line.name THEN t ELSE tables[name]
  BY <1>1, <1>4 DEF Put
<1>6. t = IF Line.name \in DOMAIN tables THEN tables[Line.name] ELSE Empty
  BY <1>4 DEF Table
<1>7. TablesAre'
  <2>1. Empty = [fields |-> Empty.fields, rows |-> Empty.rows] /\ Empty.fields \in Seq(STRING)
    BY DEF Empty
  <2>2. \A name \in DOMAIN tables : /\ tables[name] = [fields |-> tables[name].fields, rows |-> tables[name].rows]
                                    /\ tables[name].fields \in Seq(STRING)
    BY <1>2 DEF TablesAre
  <2>3. t = [fields |-> t.fields, rows |-> t.rows] /\ t.fields \in Seq(STRING)
    BY <1>6, <2>1, <2>2
  <2> QED
    BY <1>5, <2>2, <2>3 DEF TablesAre
<1>8. \A name : Table(name)' = Table(name)
  BY <1>5, <1>6 DEF Table
<1>9. Line.tag # "F" /\ ~Keeping
  BY <1>1 DEF Keeping
<1> QED
  BY <1>1, <1>2, <1>3, <1>5, <1>7, <1>8, <1>9, LineIsRead

LEMMA FieldsRead ==
  ASSUME Read, ReadFields
  PROVE  /\ Read' /\ DOMAIN tables \subseteq DOMAIN tables'
         /\ \A name : Table(name)'.rows = Table(name).rows
<1>1. /\ stage = "reading" /\ line < Len(file) /\ line' = line + 1 /\ input' = input /\ stage' = stage
      /\ Line.tag = "F" /\ cellCount' = cellCount /\ current' = current /\ current # None
      /\ tables' = [tables EXCEPT ![current].fields = Line.cells]
  BY DEF ReadFields, Reads, KeepsRead
<1>2. cellCount' \in Nat /\ cellCount <= MaxCells /\ stage' \in Stages /\ TablesAre
  BY <1>1 DEF Read
<1>3. current \in DOMAIN tables /\ current = SectionOf(line + 1) /\ SectionOf(line + 2) = current
  BY <1>1, <1>2, InSection
<1>4. PICK t : t = tables[current] /\ t = [fields |-> t.fields, rows |-> t.rows]
  BY <1>2, <1>3 DEF TablesAre
<1>5. tables' = [tables EXCEPT ![current] = [fields |-> Line.cells, rows |-> t.rows]]
  <2>1. [t EXCEPT !.fields = Line.cells] = [fields |-> Line.cells, rows |-> t.rows]
    BY <1>4
  <2>2. tables' = [tables EXCEPT ![current] = [t EXCEPT !.fields = Line.cells]]
    BY <1>1, <1>4
  <2> QED
    BY <2>1, <2>2
<1>6. /\ DOMAIN tables' = DOMAIN tables
      /\ tables' = [name \in DOMAIN tables' |-> tables'[name]]
      /\ \A name \in DOMAIN tables :
           tables'[name] = IF name = current THEN [fields |-> Line.cells, rows |-> t.rows] ELSE tables[name]
  BY <1>2, <1>3, <1>5 DEF TablesAre
<1>7. TablesAre'
  <2>1. Line = file[line + 1] /\ line + 1 \in 1 .. Len(file)
    BY <1>1, Export DEF Line, Read
  <2>2. Line.cells \in Seq(STRING)
    BY <1>1, <2>1, Export, LineIs DEF Read
  <2> QED
    BY <1>2, <1>6, <2>2 DEF TablesAre
<1>8. \A name : Table(name)' = IF name = current THEN [fields |-> Line.cells, rows |-> t.rows] ELSE Table(name)
  BY <1>3, <1>6 DEF Table
<1>9. ~Keeping /\ Table(current).rows = t.rows
  BY <1>1, <1>3, <1>4 DEF Keeping, Table
<1> QED
  BY <1>1, <1>2, <1>3, <1>6, <1>7, <1>8, <1>9, LineIsRead

LEMMA RowRead ==
  ASSUME Read, ReadRow
  PROVE  /\ Read' /\ Keeping /\ current = SectionOf(line + 1) /\ cellCount' \in Nat
         /\ DOMAIN tables \subseteq DOMAIN tables'
         /\ \A name : Table(name)'.rows =
              IF name = current THEN Append(Table(name).rows, [line |-> line + 1, cells |-> Line.cells])
              ELSE Table(name).rows
<1>1. /\ stage = "reading" /\ line < Len(file) /\ line' = line + 1 /\ input' = input /\ stage' = stage
      /\ Line.tag = "R" /\ cellCount' = cellCount + Len(Line.cells) /\ cellCount' <= MaxCells
      /\ current' = current /\ current # None /\ Len(Line.cells) = Len(tables[current].fields)
      /\ tables' = [tables EXCEPT ![current].rows = Append(@, [line |-> line + 1, cells |-> Line.cells])]
  BY DEF ReadRow, Reads, KeepsRead, Fits
<1>2. stage' \in Stages /\ TablesAre /\ cellCount \in Nat
  BY <1>1 DEF Read
<1>3. cellCount' \in Nat
  <2>1. Line = file[line + 1] /\ line + 1 \in 1 .. Len(file)
    BY <1>1, Export DEF Line, Read
  <2>2. Line \in Lines
    BY <2>1, Export DEF Read
  <2>3. Len(Line.cells) \in Nat
    BY <1>1, <2>2, LineIs
  <2> QED
    BY <1>1, <1>2, <2>3
<1>4. /\ current \in DOMAIN tables /\ current = SectionOf(line + 1) /\ SectionOf(line + 2) = current
      /\ HeaderOf(line + 1) = tables[current].fields
  BY <1>1, <1>3, InSection
<1>5. Keeping
  BY <1>1, <1>4 DEF Keeping
<1>6. PICK t : t = tables[current] /\ t = [fields |-> t.fields, rows |-> t.rows]
  BY <1>2, <1>4 DEF TablesAre
<1>7. PICK rows : rows = Append(t.rows, [line |-> line + 1, cells |-> Line.cells])
  OBVIOUS
<1>8. tables' = [tables EXCEPT ![current] = [fields |-> t.fields, rows |-> rows]]
  <2>1. [t EXCEPT !.rows = rows] = [fields |-> t.fields, rows |-> rows]
    BY <1>6
  <2>2. tables' = [tables EXCEPT ![current] = [t EXCEPT !.rows = rows]]
    BY <1>1, <1>6, <1>7
  <2> QED
    BY <2>1, <2>2
<1>9. /\ DOMAIN tables' = DOMAIN tables
      /\ tables' = [name \in DOMAIN tables' |-> tables'[name]]
      /\ \A name \in DOMAIN tables :
           tables'[name] = IF name = current THEN [fields |-> t.fields, rows |-> rows] ELSE tables[name]
  BY <1>2, <1>4, <1>8 DEF TablesAre
<1>10. TablesAre'
  <2>1. /\ t.fields \in Seq(STRING)
        /\ \A name \in DOMAIN tables : /\ tables[name] = [fields |-> tables[name].fields, rows |-> tables[name].rows]
                                       /\ tables[name].fields \in Seq(STRING)
    BY <1>2, <1>4, <1>6 DEF TablesAre
  <2>2. PICK u : u = [fields |-> t.fields, rows |-> rows]
    OBVIOUS
  <2>3. u = [fields |-> u.fields, rows |-> u.rows] /\ u.fields \in Seq(STRING)
    BY <2>1, <2>2
  <2>4. \A name \in DOMAIN tables : tables'[name] = IF name = current THEN u ELSE tables[name]
    BY <1>9, <2>2
  <2> QED
    BY <1>9, <2>1, <2>3, <2>4 DEF TablesAre
<1>11. \A name : Table(name)' = IF name = current THEN [fields |-> t.fields, rows |-> rows] ELSE Table(name)
  BY <1>4, <1>9 DEF Table
<1>12. Table(current) = t
  BY <1>4, <1>6 DEF Table
<1> QED
  BY <1>1, <1>2, <1>3, <1>4, <1>5, <1>7, <1>9, <1>10, <1>11, <1>12, LineIsRead

(* A line that keeps nothing.                                              *)
LEMMA NothingKept ==
  ASSUME Read, stage = "reading", line < Len(file), line' = line + 1, input' = input,
         cellCount' \in Nat, stage' \in Stages, tables' = tables,
         stage' = "reading" => /\ current' = SectionOf(line + 2) /\ cellCount' <= MaxCells
                               /\ current' # None => current' = current,
         Line.tag = "F" => current = None, ~Keeping \/ current = None
  PROVE  Read'
<1>1. TablesAre' /\ \A name : Table(name)' = Table(name)
  BY DEF Read, TablesAre, Table
<1>2. current = SectionOf(line + 1) /\ (current # None => current \in DOMAIN tables)
  BY DEF Read
<1> QED
  BY <1>1, <1>2, LineIsRead

LEMMA LineStep ==
  ASSUME Read, ReadOrphan \/ ReadMisfit \/ ReadTooMuch \/ ReadEnd \/ ReadNoise
  PROVE  Read'
<1>1. /\ stage = "reading" /\ line < Len(file) /\ line' = line + 1 /\ input' = input /\ tables' = tables
  BY DEF ReadOrphan, ReadMisfit, ReadTooMuch, ReadEnd, ReadNoise, Reads, KeepsRead
<1>2. cellCount \in Nat /\ cellCount <= MaxCells /\ MaxCells \in Nat /\ stage \in Stages
  BY <1>1, CellsAssumption DEF Read
<1>3. Line \in Lines
  BY <1>1, Export DEF Line, Read
<1>4. CASE ReadOrphan \/ ReadMisfit
  <2>1. /\ cellCount' = cellCount /\ stage' = stage /\ current' = current
        /\ Line.tag \in {"F", "R"} /\ (Line.tag = "F" => current = None)
    BY <1>4 DEF ReadOrphan, ReadMisfit, Reads
  <2>2. SectionOf(line + 2) = SectionOf(line + 1) /\ current = SectionOf(line + 1)
        /\ (current # None => HeaderOf(line + 1) = tables[current].fields)
    BY <1>1, <1>2, <2>1, InSection
  <2>3. ~Keeping \/ current = None
    BY <1>4, <2>2 DEF ReadOrphan, ReadMisfit, Keeping, Fits
  <2> QED
    BY <1>1, <1>2, <2>1, <2>2, <2>3, NothingKept
<1>5. CASE ReadTooMuch
  <2>1. /\ stage' = "tables" /\ Line.tag = "R" /\ cellCount' = cellCount + Len(Line.cells)
        /\ cellCount' > MaxCells
    BY <1>5 DEF ReadTooMuch, Reads
  <2>2. Len(Line.cells) \in Nat
    BY <1>3, <2>1, LineIs
  <2>3. cellCount' \in Nat /\ ~Keeping
    BY <1>2, <2>1, <2>2 DEF Keeping
  <2> QED
    BY <1>1, <2>1, <2>3, NothingKept DEF Stages
<1>6. CASE ReadEnd
  <2>1. cellCount' = cellCount /\ stage' = stage /\ current' = None /\ Line.tag = "E"
    BY <1>6 DEF ReadEnd, Reads
  <2>2. SectionOf(line + 2) = None /\ ~Keeping
    BY <1>1, <1>2, <2>1, InSection DEF Keeping
  <2> QED
    BY <1>1, <1>2, <2>1, <2>2, NothingKept
<1>7. CASE ReadNoise
  <2>1. cellCount' = cellCount /\ stage' = stage /\ current' = current /\ Line.tag = "noise"
    BY <1>7 DEF ReadNoise, Reads
  <2>2. SectionOf(line + 2) = current /\ ~Keeping
    BY <1>1, <1>2, <2>1, InSection DEF Keeping
  <2> QED
    BY <1>1, <1>2, <2>1, <2>2, NothingKept
<1> QED
  BY <1>4, <1>5, <1>6, <1>7

(* Once the export is read, nothing of this changes.                       *)
LEMMA ReadAlready ==
  ASSUME Read, UNCHANGED <<input, line, cellCount, tables>>, stage' \in Stages,
         stage' = "reading" => stage = "reading" /\ current' = current
  PROVE  Read' /\ \A name : /\ Table(name)' = Table(name) /\ Whole(name)' = Whole(name)
                            /\ RowsOf(name)' = RowsOf(name)
<1>1. file' = file /\ \A i : SectionOf(i)' = SectionOf(i) /\ HeaderOf(i)' = HeaderOf(i)
  BY SameExport
<1>2. \A i, name : HeadersOf(i, name)' = HeadersOf(i, name)
  BY SameExport
<1>3. \A name : RowsOf(name)' = RowsOf(name)
  BY <1>1 DEF RowsOf
<1>4. \A name : Whole(name)' = Whole(name)
  BY <1>1, <1>3 DEF Whole
<1>5. \A name : Table(name)' = Table(name)
  BY DEF Table
<1>6. TablesAre'
  BY DEF Read, TablesAre
<1>7. SectionOf(line + 1)' = SectionOf(line + 1)
  BY <1>1 DEF SectionOf, Above
<1>8. \A name : HeadedBy(HeadersOf(line + 1, name))' = HeadedBy(HeadersOf(line + 1, name))
  <2> SUFFICES ASSUME NEW name PROVE HeadedBy(HeadersOf(line + 1, name))' = HeadedBy(HeadersOf(line + 1, name))
    OBVIOUS
  <2>1. HeadersOf(line + 1, name)' = HeadersOf(line + 1, name)
    BY <1>1 DEF HeadersOf, Above
  <2> QED
    BY <1>1, <2>1 DEF HeadedBy
<1>9. \A rows, L : RowsAre(rows, L) => RowsAre(rows, L)'
  BY <1>1 DEF RowsAre
<1>10. ASSUME NEW name, Tabled(name) PROVE Tabled(name)'
  <2>1. RowsAre(Table(name).rows, Whole(name))'
    <3>1. PICK rows, L : rows = Table(name).rows /\ L = Whole(name)
      OBVIOUS
    <3>2. RowsAre(rows, L)'
      BY <1>9, <1>10, <3>1 DEF Tabled
    <3>3. rows = Table(name)'.rows /\ L = Whole(name)'
      BY <1>4, <1>5, <3>1
    <3> QED
      BY <3>2, <3>3
  <2> QED
    BY <1>5, <1>8, <1>10, <2>1 DEF Tabled
<1> QED
  BY <1>1, <1>3, <1>4, <1>5, <1>6, <1>7, <1>10 DEF Read

LEMMA InitRead ==
  ASSUME Init
  PROVE  Read
<1>1. /\ input \in Inputs /\ stage = "reading" /\ line = 0 /\ current = None /\ tables = << >> /\ cellCount = 0
  BY DEF Init
<1>2. DOMAIN tables = {} /\ tables = [name \in DOMAIN tables |-> tables[name]]
  BY <1>1
<1>3. \A name : Whole(name) = {}
  BY <1>1 DEF Whole, RowsOf
<1>4. \A name : Table(name) = Empty
  BY <1>2 DEF Table
<1>5. RowsAre(<< >>, {})
  BY DEF RowsAre, IsSeq
<1>6. SectionOf(line + 1) = None /\ \A name : HeadedBy(HeadersOf(line + 1, name)) = << >>
  <2>1. line + 1 = 1
    BY <1>1
  <2> QED
    BY <2>1, AtTheTop
<1>7. \A name : Tabled(name)
  BY <1>3, <1>4, <1>5, <1>6 DEF Tabled, Empty
<1> QED
  BY <1>1, <1>2, <1>6, <1>7, Export, CellsAssumption DEF Read, TablesAre, Stages

(* Every step but a line's leaves the export and what was read of it.      *)
Resolving ==
  \/ EndOfFile \/ ResolveTables \/ ExcludeProject \/ ExcludeLoe \/ ExcludeWbs \/ Quarantine \/ Serve
  \/ TasksDone \/ ExcludeEdge \/ QuarantineEdge \/ Relate \/ LogicDone
Reading ==
  \/ ReadSection \/ ReadFields \/ ReadOrphan \/ ReadMisfit \/ ReadTooMuch
  \/ ReadRow \/ ReadEnd \/ ReadNoise

LEMMA KeepsExport ==
  ASSUME Read, Resolving \/ UNCHANGED vars
  PROVE  /\ UNCHANGED <<input, line, cellCount, tables>> /\ stage' \in Stages
         /\ stage' = "reading" => stage = "reading" /\ current' = current
<1>1. CASE EndOfFile \/ ResolveTables \/ TasksDone \/ LogicDone
  BY <1>1 DEF EndOfFile, ResolveTables, TasksDone, LogicDone, KeepsRead, Stages
<1>2. CASE ExcludeProject \/ ExcludeLoe \/ ExcludeWbs \/ Quarantine \/ Serve
  BY <1>2 DEF ExcludeProject, ExcludeLoe, ExcludeWbs, Quarantine, Serve, Excluded, Extracts,
              AtTask, KeepsTasks, Stages, Read
<1>3. CASE ExcludeEdge \/ QuarantineEdge \/ Relate
  BY <1>3 DEF ExcludeEdge, QuarantineEdge, Relate, AtPred, KeepsLogic, Stages, Read
<1>4. CASE UNCHANGED vars
  BY <1>4 DEF vars, Read
<1> QED
  BY <1>1, <1>2, <1>3, <1>4 DEF Resolving

LEMMA ReadStep ==
  ASSUME Read, [Next]_vars
  PROVE  Read'
<1>1. CASE Reading
  BY <1>1, SectionOpened, FieldsRead, RowRead, LineStep DEF Reading
<1>2. CASE Resolving \/ UNCHANGED vars
  BY <1>2, KeepsExport, ReadAlready
<1> QED
  BY <1>1, <1>2 DEF Next, Reading, Resolving

-----------------------------------------------------------------------------
(* A row says what its line does under the header above it.                *)
LEMMA Least ==
  ASSUME NEW Bad, Bad \subseteq Nat, Bad # {}
  PROVE  Min(Bad) \in Bad /\ \A m \in Bad : Min(Bad) <= m
<1> DEFINE R == {p \in Nat \X Nat : p[1] < p[2]}
<1>1. IsWellFoundedOn(R, Nat)
  <2>1. R = OpToRel(<, Nat)
    BY DEF OpToRel
  <2> QED
    BY <2>1, NatLessThanWellFounded
<1>2. \A y, x \in Nat : <<y, x>> \notin R => x <= y
  OBVIOUS
<1> HIDE DEF R
<1>3. PICK n \in Bad : \A m \in Bad : <<m, n>> \notin R
  BY <1>1, WFMin
<1>4. \A m \in Bad : n <= m
  BY <1>2, <1>3, Zenon
<1> QED
  BY <1>3, <1>4 DEF Min

LEMMA FirstPlace ==
  ASSUME NEW s, Len(s) \in Nat, NEW f
  PROVE  LET K == {k \in 1 .. Len(s) : s[k] = f}
         IN  /\ SelectInSeq(s, LAMBDA x : x = f) = IF K = {} THEN 0 ELSE Min(K)
             /\ K # {} => Min(K) \in K
<1>1. PICK K : K = {k \in 1 .. Len(s) : s[k] = f}
  OBVIOUS
<1>2. K # {} => Min(K) \in K
  BY <1>1, Least
<1> QED
  BY <1>1, <1>2 DEF SelectInSeq

LEMMA RowIsSaid ==
  ASSUME Read, HeadedOnce, NEW name, name # None, NEW row \in ToSet(Table(name).rows)
  PROVE  /\ row.line \in Whole(name)
         /\ \A f : get(Table(name), row, f) = Said(row.line, f)
<1>1. PICK k : k \in DOMAIN Table(name).rows /\ row = Table(name).rows[k]
  BY DEF ToSet
<1>2. row.line \in Whole(name) /\ row.cells = file[row.line].cells
  BY <1>1 DEF Read, Tabled, RowsAre
<1>3. name \in DOMAIN tables /\ Table(name) = tables[name]
  <2>1. DOMAIN << >> = {}
    OBVIOUS
  <2> QED
    BY <1>1, <2>1 DEF Table, Empty
<1>4. PICK header : header = tables[name].fields
  OBVIOUS
<1>5. HeaderOf(row.line) = header /\ Len(header) = Len(row.cells) /\ header \in Seq(STRING)
  BY <1>2, <1>3, <1>4 DEF HeadedOnce, Whole, Read, TablesAre
<1>6. row.cells \in Seq(STRING)
  <2>1. PICK i : i = row.line
    OBVIOUS
  <2>2. i \in 1 .. line /\ file[i].tag = "R" /\ line \in 0 .. Len(file)
    BY <1>2, <2>1 DEF Whole, RowsOf, Read
  <2>3. i \in 1 .. Len(file) /\ file[i] \in Lines
    BY <2>2, Export DEF Read
  <2> QED
    BY <1>2, <2>1, <2>2, <2>3, LineIs
<1>7. ASSUME NEW f PROVE get(Table(name), row, f) = Said(row.line, f)
  <2>1. PICK K : K = {n \in 1 .. Len(header) : header[n] = f}
    OBVIOUS
  <2>2. Len(header) \in Nat /\ DOMAIN header = 1 .. Len(header) /\ DOMAIN row.cells = 1 .. Len(header)
    BY <1>5, <1>6
  <2>3. PICK index : index = SelectInSeq(header, LAMBDA x : x = f)
    OBVIOUS
  <2>4. index = (IF K = {} THEN 0 ELSE Min(K)) /\ (K # {} => Min(K) \in K)
    BY <2>1, <2>2, <2>3, FirstPlace
  <2>5. get(Table(name), row, f)
          = IF index \notin DOMAIN row.cells \/ row.cells[index] = "" THEN None ELSE row.cells[index]
    BY <1>3, <1>4, <2>3 DEF get
  <2>6. Said(row.line, f) = CellIn(row.cells, K)
    <3>1. K = {n \in DOMAIN header : header[n] = f}
      BY <2>1, <2>2
    <3> QED
      BY <1>2, <1>5, <3>1 DEF Said, SaidUnder
  <2>7. CASE K = {}
    BY <2>2, <2>4, <2>5, <2>6, <2>7 DEF CellIn
  <2>8. CASE K # {}
    <3>1. index = Min(K) /\ index \in DOMAIN row.cells
      BY <2>1, <2>2, <2>4, <2>8
    <3> QED
      BY <2>5, <2>6, <2>8, <3>1 DEF CellIn
  <2> QED
    BY <2>7, <2>8
<1> QED
  BY <1>2, <1>7

(* What a section's rows say, place by place.                              *)
Says(name, k, field) == get(Table(name), Table(name).rows[k], field)
LineOf(name, k) == Table(name).rows[k].line

LEMMA RowsSay ==
  ASSUME Read, NEW name, name # None
  PROVE  /\ IsSeq(Table(name).rows)
         /\ \A k \in DOMAIN Table(name).rows : LineOf(name, k) \in Whole(name)
         /\ \A i \in Whole(name) : \E k \in DOMAIN Table(name).rows : LineOf(name, k) = i
         /\ \A j, k \in DOMAIN Table(name).rows : LineOf(name, j) = LineOf(name, k) => j = k
         /\ HeadedOnce => \A k \in DOMAIN Table(name).rows : \A f : Says(name, k, f) = Said(LineOf(name, k), f)
<1>1. RowsAre(Table(name).rows, Whole(name))
  BY DEF Read, Tabled
<1>2. ASSUME HeadedOnce, NEW k \in DOMAIN Table(name).rows, NEW f
      PROVE  Says(name, k, f) = Said(LineOf(name, k), f)
  <2>1. Table(name).rows[k] \in ToSet(Table(name).rows)
    BY DEF ToSet
  <2> QED
    BY <1>2, <2>1, RowIsSaid DEF Says, LineOf
<1> QED
  BY <1>1, <1>2 DEF RowsAre, LineOf

-----------------------------------------------------------------------------
(* The report, and what one more answer does to it.                        *)
Answers == {"activities", "excluded_loe", "excluded_wbs", "excluded_project", "rejected"}
ReportFields ==
  Answers \cup {"relationships", "wall_clock_findings", "findings", "excluded_edges",
                "material_skipped", "equipment_skipped", "task_rows"}
IsRecord(r) == r = [f \in ReportFields |-> r[f]]
IsReport(r) ==
  /\ IsRecord(r)
  /\ \A f \in Answers \cup {"relationships"} : IsSeq(r[f])
  /\ r.excluded_edges \in Nat

LEMMA ReportWith ==
  ASSUME NEW r, r = [f \in ReportFields |-> r[f]], NEW g \in ReportFields, NEW v, NEW q,
         q = [r EXCEPT ![g] = v]
  PROVE  q = [f \in ReportFields |-> q[f]] /\ \A f \in ReportFields : q[f] = IF f = g THEN v ELSE r[f]
OBVIOUS

LEMMA OneAnswer ==
  ASSUME NEW r, IsReport(r), NEW g \in Answers \cup {"relationships"}, NEW e, NEW q,
         IsRecord(q), q[g] = Append(r[g], e),
         \A f \in Answers \cup {"relationships", "excluded_edges"} : f # g => q[f] = r[f]
  PROVE  IsReport(q)
<1>1. IsSeq(r[g])
  BY DEF IsReport
<1>2. IsSeq(q[g])
  <2>1. PICK s : s = r[g]
    OBVIOUS
  <2>2. IsSeq(Append(s, e))
    BY <1>1, <2>1, Appending
  <2> QED
    BY <2>1, <2>2
<1>3. g # "excluded_edges"
  BY DEF Answers
<1>4. \A f \in Answers \cup {"relationships"} : IsSeq(q[f])
  BY <1>2 DEF IsReport
<1>5. q.excluded_edges \in Nat
  BY <1>3 DEF IsReport
<1> QED
  BY <1>4, <1>5 DEF IsReport

(* What a TASK row comes to: one answer, under its own code.               *)
TaskStep == ExcludeProject \/ ExcludeLoe \/ ExcludeWbs \/ Quarantine \/ Serve

LEMMA TaskAnswered ==
  ASSUME TaskStep, IsReport(report)
  PROVE  /\ stage = "tasks" /\ at < Len(Tasks.rows) /\ at' = at + 1
         /\ UNCHANGED <<input, stage, line, current, tables, cellCount, ctx>>
         /\ IsReport(report')
         /\ \E g \in Answers : \E e :
              /\ report'[g] = Append(report[g], e)
              /\ \A f \in ReportFields \ {g, "wall_clock_findings"} : report'[f] = report[f]
              /\ g = "activities" =>
                   /\ e.code = Of("task_code") /\ Of("task_code") # None
                   /\ codeOf' = Put(codeOf, Of("task_id"), Of("task_code")) /\ absent' = absent
              /\ g = "rejected" => e.row = Row.line /\ e.table = "TASK" /\ e.code = Of("task_code")
              /\ g \notin {"activities", "rejected"} => e = Of("task_code")
              /\ g # "activities" =>
                   /\ codeOf' = codeOf
                   /\ absent' = absent \/ \E why : absent' = Put(absent, Of("task_id"), why)
<1> DEFINE code == Of("task_code")
           Answer(g, e) ==
             /\ report'[g] = Append(report[g], e)
             /\ \A f \in ReportFields \ {g, "wall_clock_findings"} : report'[f] = report[f]
             /\ report' = [f \in ReportFields |-> report'[f]]
           Forgets == /\ codeOf' = codeOf
                      /\ absent' = absent \/ \E why : absent' = Put(absent, Of("task_id"), why)
           Row_ == /\ stage = "tasks" /\ at < Len(Tasks.rows) /\ at' = at + 1
                   /\ UNCHANGED <<input, stage, line, current, tables, cellCount, ctx>>
<1>1. /\ report = [f \in ReportFields |-> report[f]]
      /\ "wall_clock_findings" \in ReportFields /\ Answers \subseteq ReportFields
      /\ "wall_clock_findings" \notin Answers
  BY DEF IsReport, IsRecord, ReportFields, Answers
<1>2. ASSUME NEW g \in Answers, NEW e, report' = [report EXCEPT ![g] = Append(@, e)]
      PROVE  Answer(g, e)
  BY <1>1, <1>2, ReportWith
<1>3. ASSUME NEW g \in Answers, NEW e, NEW w,
             report' = [report EXCEPT ![g] = Append(@, e), !["wall_clock_findings"] = w]
      PROVE  Answer(g, e)
  <2>1. PICK q : q = [report EXCEPT ![g] = Append(@, e)]
    OBVIOUS
  <2>2. q = [f \in ReportFields |-> q[f]] /\ \A f \in ReportFields : q[f] = IF f = g THEN Append(report[g], e) ELSE report[f]
    BY <1>1, <2>1, ReportWith
  <2>3. report' = [q EXCEPT !["wall_clock_findings"] = w]
    BY <1>1, <1>3, <2>1
  <2>4. report' = [f \in ReportFields |-> report'[f]]
        /\ \A f \in ReportFields : report'[f] = IF f = "wall_clock_findings" THEN w ELSE q[f]
    BY <1>1, <2>2, <2>3, ReportWith
  <2> QED
    BY <1>1, <2>2, <2>4
<1>4. ASSUME NEW g \in Answers, NEW e, Answer(g, e)
      PROVE  IsReport(report')
  <2>1. \A f \in Answers \cup {"relationships", "excluded_edges"} : f # g => report'[f] = report[f]
    BY <1>4 DEF ReportFields, Answers
  <2>2. PICK r, q : r = report /\ q = report'
    OBVIOUS
  <2>3. /\ IsRecord(q) /\ q[g] = Append(r[g], e)
        /\ \A f \in Answers \cup {"relationships", "excluded_edges"} : f # g => q[f] = r[f]
        /\ IsReport(r) /\ g \in Answers \cup {"relationships"}
    BY <1>4, <2>1, <2>2 DEF IsRecord
  <2>4. IsReport(q)
    BY <2>3, OneAnswer
  <2> QED
    BY <2>2, <2>4
<1>5. CASE ExcludeProject \/ ExcludeLoe \/ ExcludeWbs
  <2>1. PICK g \in {"excluded_project", "excluded_loe", "excluded_wbs"} :
          report' = [report EXCEPT ![g] = Append(@, code)] /\ Forgets /\ Row_
    BY <1>5 DEF ExcludeProject, ExcludeLoe, ExcludeWbs, Excluded, AtTask, KeepsTasks
  <2>2. g \in Answers /\ g \notin {"activities", "rejected"}
    BY DEF Answers
  <2> QED
    BY <1>2, <1>4, <2>1, <2>2
<1>6. CASE Quarantine
  <2>1. PICK e, w : e = Reject(Row.line, "TASK", code, Refusal)
                    /\ w = report.wall_clock_findings \cup Noted
    OBVIOUS
  <2>2. report' = [report EXCEPT !["rejected"] = Append(@, e), !["wall_clock_findings"] = w] /\ Forgets /\ Row_
    BY <1>6, <2>1 DEF Quarantine, Extracts, AtTask, KeepsTasks
  <2>3. e.row = Row.line /\ e.table = "TASK" /\ e.code = code /\ "rejected" \in Answers
    BY <2>1 DEF Reject, Answers
  <2> QED
    BY <1>3, <1>4, <2>2, <2>3
<1>7. CASE Serve
  <2>1. PICK e, w : e = extract_activity /\ w = report.wall_clock_findings \cup Noted
    OBVIOUS
  <2>2. /\ report' = [report EXCEPT !["activities"] = Append(@, e), !["wall_clock_findings"] = w] /\ Row_
        /\ codeOf' = Put(codeOf, Of("task_id"), code) /\ absent' = absent /\ Refusal = None
    BY <1>7, <2>1 DEF Serve, Extracts, AtTask, KeepsTasks
  <2>3. e.code = code /\ "activities" \in Answers
    BY <2>1 DEF extract_activity, Answers
  <2>4. code # None
    <3>1. Anonymous = None
      BY <2>2 DEF Refusal
    <3>2. None # "no_code"
      BY ExportsAssumption DEF Words
    <3> QED
      BY <3>1, <3>2 DEF Anonymous
  <2> QED
    BY <1>3, <1>4, <2>2, <2>3, <2>4
<1> QED
  BY <1>5, <1>6, <1>7 DEF TaskStep

-----------------------------------------------------------------------------
(* Of the first n TASK rows: the ones served are known by their ids, the    *)
(* ones left out are remembered, and of tasks named once none is both.     *)
Served(code) == \E a \in DOMAIN report.activities : report.activities[a].code = code
RowsNamedOnce ==
  \A j, k \in DOMAIN Tasks.rows :
    Says("TASK", j, "task_id") = Says("TASK", k, "task_id") /\ Says("TASK", j, "task_id") # None => j = k

IdsKnown(n) ==
  \A id \in DOMAIN codeOf : \E m \in 1 .. n :
    Says("TASK", m, "task_id") = id /\ Says("TASK", m, "task_code") = codeOf[id] /\ Served(codeOf[id])
CodesKnown(n) ==
  \A code : Served(code) =>
    /\ code # None
    /\ \E m \in 1 .. n : /\ Says("TASK", m, "task_code") = code
                         /\ Says("TASK", m, "task_id") \in DOMAIN codeOf
AbsentKnown(n) ==
  \A id \in DOMAIN absent : \E m \in 1 .. n : Says("TASK", m, "task_id") = id
NeverBoth == RowsNamedOnce => \A id \in DOMAIN codeOf \cap DOMAIN absent : id = None
Known(n) == IdsKnown(n) /\ CodesKnown(n) /\ AbsentKnown(n) /\ NeverBoth

LEMMA SaysAgain ==
  ASSUME tables' = tables
  PROVE  /\ \A name, m, f : Says(name, m, f)' = Says(name, m, f)
         /\ \A name : Table(name)' = Table(name)
         /\ \A name, m : LineOf(name, m)' = LineOf(name, m)
         /\ Tasks' = Tasks /\ Preds' = Preds /\ RowsNamedOnce' = RowsNamedOnce
<1>1. \A name : Table(name)' = Table(name)
  BY DEF Table
<1>2. \A name, m, f : Says(name, m, f)' = Says(name, m, f)
  BY <1>1 DEF Says
<1> QED
  BY <1>1, <1>2 DEF LineOf, Tasks, Preds, RowsNamedOnce

LEMMA KnownGrows ==
  ASSUME TaskStep, IsReport(report), Known(at), at \in Nat, IsSeq(Tasks.rows)
  PROVE  Known(at)'
<1> DEFINE id == Says("TASK", at + 1, "task_id")
           code == Says("TASK", at + 1, "task_code")
<1>1. /\ at < Len(Tasks.rows) /\ at' = at + 1 /\ tables' = tables
      /\ \E g \in Answers : \E e :
              /\ report'[g] = Append(report[g], e)
              /\ \A f \in ReportFields \ {g, "wall_clock_findings"} : report'[f] = report[f]
              /\ g = "activities" =>
                   /\ e.code = Of("task_code") /\ Of("task_code") # None
                   /\ codeOf' = Put(codeOf, Of("task_id"), Of("task_code")) /\ absent' = absent
              /\ g # "activities" =>
                   /\ codeOf' = codeOf
                   /\ absent' = absent \/ \E why : absent' = Put(absent, Of("task_id"), why)
  BY TaskAnswered
<1>2. Of("task_id") = id /\ Of("task_code") = code
  BY DEF Says, Of, Row, Tasks
<1>3. /\ \A m, f : Says("TASK", m, f)' = Says("TASK", m, f)
      /\ RowsNamedOnce' = RowsNamedOnce
  BY <1>1, SaysAgain
<1>4. 1 .. at' = (1 .. at) \cup {at + 1} /\ at + 1 \notin 1 .. at
      /\ at + 1 \in DOMAIN Tasks.rows /\ 1 .. at \subseteq DOMAIN Tasks.rows
  BY <1>1, SeqIs
<1>5. "activities" \in ReportFields /\ "activities" # "wall_clock_findings"
  BY DEF ReportFields, Answers
<1>6. RowsNamedOnce => \A m \in 1 .. at : Says("TASK", m, "task_id") = id => id = None
  BY <1>4 DEF RowsNamedOnce
<1> HIDE DEF id, code
<1>7. CASE /\ codeOf' = Put(codeOf, id, code) /\ absent' = absent /\ code # None
           /\ \E e : e.code = code /\ report'.activities = Append(report.activities, e)
  <2>1. PICK e : e.code = code /\ report'.activities = Append(report.activities, e)
    BY <1>7
  <2>2. PICK s : s = report.activities /\ IsSeq(s)
    BY DEF IsReport, Answers
  <2>3. PICK t : t = Append(s, e)
    OBVIOUS
  <2>4. /\ DOMAIN t = DOMAIN s \cup {Len(s) + 1} /\ t[Len(s) + 1] = e
        /\ \A n \in DOMAIN s : t[n] = s[n]
    BY <2>2, <2>3, Appending
  <2>5. \A c : Served(c)' <=> Served(c) \/ c = code
    BY <2>1, <2>2, <2>3, <2>4 DEF Served
  <2>6. /\ DOMAIN codeOf' = DOMAIN codeOf \cup {id}
        /\ \A k \in DOMAIN codeOf \cup {id} : codeOf'[k] = IF k = id THEN code ELSE codeOf[k]
    BY <1>7 DEF Put
  <2>7. Says("TASK", at + 1, "task_id") = id /\ Says("TASK", at + 1, "task_code") = code
    BY DEF id, code
  <2>8. IdsKnown(at)'
    BY <1>3, <1>4, <2>5, <2>6, <2>7 DEF Known, IdsKnown
  <2>9. CodesKnown(at)'
    BY <1>3, <1>4, <1>7, <2>5, <2>6, <2>7 DEF Known, CodesKnown
  <2>10. AbsentKnown(at)'
    BY <1>3, <1>4, <1>7 DEF Known, AbsentKnown
  <2>11. NeverBoth'
    BY <1>3, <1>6, <1>7, <2>6 DEF Known, NeverBoth, AbsentKnown
  <2> QED
    BY <2>8, <2>9, <2>10, <2>11 DEF Known
<1>8. CASE /\ codeOf' = codeOf
           /\ absent' = absent \/ \E why : absent' = Put(absent, id, why)
           /\ report'.activities = report.activities
  <2>1. \A c : Served(c)' <=> Served(c)
    BY <1>8 DEF Served
  <2>2. DOMAIN absent' = DOMAIN absent \/ DOMAIN absent' = DOMAIN absent \cup {id}
    BY <1>8 DEF Put
  <2>3. Says("TASK", at + 1, "task_id") = id
    BY DEF id
  <2>4. IdsKnown(at)'
    BY <1>3, <1>4, <1>8, <2>1 DEF Known, IdsKnown
  <2>5. CodesKnown(at)'
    BY <1>3, <1>4, <1>8, <2>1 DEF Known, CodesKnown
  <2>6. AbsentKnown(at)'
    BY <1>3, <1>4, <2>2, <2>3 DEF Known, AbsentKnown
  <2>7. NeverBoth'
    BY <1>3, <1>6, <1>8, <2>2 DEF Known, NeverBoth, IdsKnown
  <2> QED
    BY <2>4, <2>5, <2>6, <2>7 DEF Known
<1>9. \/ /\ codeOf' = Put(codeOf, id, code) /\ absent' = absent /\ code # None
         /\ \E e : e.code = code /\ report'.activities = Append(report.activities, e)
      \/ /\ codeOf' = codeOf
         /\ absent' = absent \/ \E why : absent' = Put(absent, id, why)
         /\ report'.activities = report.activities
  BY <1>1, <1>2, <1>5
<1> QED
  BY <1>7, <1>8, <1>9

-----------------------------------------------------------------------------
(* Of the first n TASKPRED rows: the ones between two served activities are *)
(* relationships, each row of them one.                                    *)
Joins(k) ==
  /\ \A end \in {"task_id", "pred_task_id"} :
       Says("TASKPRED", k, end) # None /\ Says("TASKPRED", k, end) \in DOMAIN codeOf
  /\ Says("TASKPRED", k, "pred_type") # None
Joined(r, k) ==
  /\ r.succ = codeOf[Says("TASKPRED", k, "task_id")]
  /\ r.pred = codeOf[Says("TASKPRED", k, "pred_task_id")]
  /\ r.kind = Says("TASKPRED", k, "pred_type")
Logical(n) ==
  RowsNamedOnce =>
    /\ Len(report.relationships) = Cardinality({k \in 1 .. n : Joins(k)})
    /\ \A k \in 1 .. n : Joins(k) =>
         \E x \in DOMAIN report.relationships : Joined(report.relationships[x], k)

PredStep == ExcludeEdge \/ QuarantineEdge \/ Relate

LEMMA FlawIs ==
  /\ Flaw = None <=> Joins(at + 1)
  /\ RowsNamedOnce /\ NeverBoth /\ Joins(at + 1) => ~BothUnserved
<1> DEFINE end(name) == Says("TASKPRED", at + 1, name)
<1>1. \A name : End(name) = end(name)
  BY DEF End, Says, Preds
<1>2. None \notin {"structure", "cross_project_logic", "unknown_task_in_logic", "project"}
  BY ExportsAssumption DEF Words
<1>3. \A id, p : Unresolved(id, p) = None <=> id \in DOMAIN codeOf
  BY <1>2 DEF Unresolved
<1>4. Flaw = None <=> /\ None \notin {End("task_id"), End("pred_task_id")}
                      /\ End("task_id") \in DOMAIN codeOf /\ End("pred_task_id") \in DOMAIN codeOf
                      /\ End("pred_type") # None
  BY <1>2, <1>3 DEF Flaw
<1>5. Flaw = None <=> Joins(at + 1)
  BY <1>1, <1>4 DEF Joins
<1>6. ASSUME RowsNamedOnce, NeverBoth, Joins(at + 1) PROVE ~BothUnserved
  <2>1. end("task_id") # None /\ end("task_id") \in DOMAIN codeOf
    BY <1>6 DEF Joins
  <2>2. end("task_id") \notin DOMAIN absent
    BY <1>6, <2>1 DEF NeverBoth
  <2>3. ~in_unserved_project(end("task_id"))
    BY <1>2, <2>2 DEF in_unserved_project, At
  <2> QED
    BY <1>1, <2>3 DEF BothUnserved
<1> QED
  BY <1>5, <1>6

LEMMA PredAnswered ==
  ASSUME PredStep, IsReport(report)
  PROVE  /\ stage = "logic" /\ at < Len(Preds.rows) /\ at' = at + 1
         /\ UNCHANGED <<input, stage, line, current, tables, cellCount, ctx, codeOf, absent>>
         /\ IsReport(report')
         /\ \/ /\ BothUnserved /\ report'.excluded_edges = report.excluded_edges + 1
               /\ \A f \in ReportFields \ {"excluded_edges"} : report'[f] = report[f]
            \/ /\ ~Joins(at + 1)
               /\ \E e : /\ report'.rejected = Append(report.rejected, e)
                         /\ e.row = LineOf("TASKPRED", at + 1) /\ e.table = "TASKPRED"
               /\ \A f \in ReportFields \ {"rejected"} : report'[f] = report[f]
            \/ /\ Joins(at + 1)
               /\ \E e : /\ report'.relationships = Append(report.relationships, e)
                         /\ Joined(e, at + 1)
               /\ \A f \in ReportFields \ {"relationships"} : report'[f] = report[f]
<1>1. /\ IsRecord(report) /\ {"excluded_edges", "rejected", "relationships"} \subseteq ReportFields
      /\ report.excluded_edges \in Nat
  BY DEF IsReport, ReportFields, Answers
<1>2. /\ stage = "logic" /\ at < Len(Preds.rows) /\ at' = at + 1
      /\ UNCHANGED <<input, stage, line, current, tables, cellCount, ctx, codeOf, absent>>
  BY DEF PredStep, ExcludeEdge, QuarantineEdge, Relate, AtPred, KeepsLogic
<1>3. ASSUME NEW g \in {"excluded_edges", "rejected", "relationships"}, NEW v, report' = [report EXCEPT ![g] = v]
      PROVE  /\ IsRecord(report') /\ report'[g] = v
             /\ \A f \in ReportFields \ {g} : report'[f] = report[f]
  <2>1. PICK r, q : r = report /\ q = report'
    OBVIOUS
  <2>2. r = [f \in ReportFields |-> r[f]] /\ q = [r EXCEPT ![g] = v] /\ g \in ReportFields
    BY <1>1, <1>3, <2>1 DEF IsRecord
  <2>3. q = [f \in ReportFields |-> q[f]] /\ \A f \in ReportFields : q[f] = IF f = g THEN v ELSE r[f]
    BY <2>2, ReportWith
  <2> QED
    BY <1>1, <2>1, <2>3 DEF IsRecord
<1>4. ASSUME NEW g \in {"rejected", "relationships"}, NEW e, report' = [report EXCEPT ![g] = Append(@, e)]
      PROVE  /\ IsReport(report') /\ report'[g] = Append(report[g], e)
             /\ \A f \in ReportFields \ {g} : report'[f] = report[f]
  <2>1. PICK r, q : r = report /\ q = report'
    OBVIOUS
  <2>2. report' = [report EXCEPT ![g] = Append(report[g], e)]
    BY <1>4
  <2>3. /\ IsRecord(report') /\ report'[g] = Append(report[g], e)
        /\ \A f \in ReportFields \ {g} : report'[f] = report[f]
    BY <1>3, <2>2
  <2>4. /\ IsRecord(q) /\ q[g] = Append(r[g], e) /\ IsReport(r)
        /\ \A f \in Answers \cup {"relationships", "excluded_edges"} : f # g => q[f] = r[f]
        /\ g \in Answers \cup {"relationships"}
    BY <2>1, <2>3 DEF ReportFields, Answers
  <2>5. IsReport(q)
    BY <2>4, OneAnswer
  <2> QED
    BY <2>1, <2>3, <2>5
<1>5. CASE ExcludeEdge
  <2>1. /\ report' = [report EXCEPT !["excluded_edges"] = report.excluded_edges + 1] /\ BothUnserved
    BY <1>5 DEF ExcludeEdge
  <2>2. /\ IsRecord(report') /\ report'.excluded_edges = report.excluded_edges + 1
        /\ \A f \in ReportFields \ {"excluded_edges"} : report'[f] = report[f]
    BY <1>3, <2>1
  <2>3. \A f \in Answers \cup {"relationships"} : report'[f] = report[f]
    BY <2>2 DEF ReportFields, Answers
  <2>4. IsReport(report')
    BY <1>1, <2>2, <2>3 DEF IsReport
  <2> QED
    BY <1>2, <2>1, <2>2, <2>4
<1>6. CASE QuarantineEdge
  <2>1. PICK e : e = Reject(Preds.rows[at + 1].line, "TASKPRED", At(codeOf, End("task_id"), None), Flaw)
    OBVIOUS
  <2>2. report' = [report EXCEPT !["rejected"] = Append(@, e)] /\ ~Joins(at + 1)
    BY <1>6, <2>1, FlawIs DEF QuarantineEdge
  <2>3. e.row = LineOf("TASKPRED", at + 1) /\ e.table = "TASKPRED"
    BY <2>1 DEF Reject, LineOf, Preds
  <2> QED
    BY <1>2, <1>4, <2>2, <2>3
<1>7. CASE Relate
  <2>1. PICK e : e = [pred |-> codeOf[End("pred_task_id")], succ |-> codeOf[End("task_id")],
                      kind |-> End("pred_type"), lag |-> parse_qty(End("lag_hr_cnt"))]
    OBVIOUS
  <2>2. report' = [report EXCEPT !["relationships"] = Append(@, e)] /\ Joins(at + 1)
    BY <1>7, <2>1, FlawIs DEF Relate
  <2>3. Joined(e, at + 1)
    BY <2>1 DEF Joined, End, Says, Preds
  <2> QED
    BY <1>2, <1>4, <2>2, <2>3
<1> QED
  BY <1>5, <1>6, <1>7 DEF PredStep

LEMMA LogicGrows ==
  ASSUME PredStep, IsReport(report), NeverBoth, Logical(at), at \in Nat
  PROVE  Logical(at)' /\ NeverBoth' /\ RowsNamedOnce' = RowsNamedOnce
<1>1. /\ at' = at + 1 /\ UNCHANGED <<tables, codeOf, absent>>
      /\ \/ BothUnserved /\ report'.relationships = report.relationships
         \/ ~Joins(at + 1) /\ report'.relationships = report.relationships
         \/ /\ Joins(at + 1)
            /\ \E e : report'.relationships = Append(report.relationships, e) /\ Joined(e, at + 1)
  <2>1. "relationships" \in ReportFields \ {"excluded_edges", "rejected"}
    BY DEF ReportFields, Answers
  <2> QED
    BY <2>1, PredAnswered
<1>2. (\A m, f : Says("TASKPRED", m, f)' = Says("TASKPRED", m, f)) /\ RowsNamedOnce' = RowsNamedOnce
  BY <1>1, SaysAgain
<1>3. \A k : Joins(k)' = Joins(k)
  BY <1>1, <1>2 DEF Joins
<1>4. \A r, k : Joined(r, k)' = Joined(r, k)
  BY <1>1, <1>2 DEF Joined
<1>5. NeverBoth'
  BY <1>1, <1>2 DEF NeverBoth
<1>6. ASSUME RowsNamedOnce
      PROVE  /\ Len(report'.relationships) = Cardinality({k \in 1 .. at + 1 : Joins(k)})
             /\ \A k \in 1 .. at + 1 : Joins(k) =>
                  \E x \in DOMAIN report'.relationships : Joined(report'.relationships[x], k)
  <2>1. PICK K : K = {k \in 1 .. at : Joins(k)}
    OBVIOUS
  <2>2. PICK J : J = {k \in 1 .. at + 1 : Joins(k)}
    OBVIOUS
  <2>3. 1 .. at + 1 = (1 .. at) \cup {at + 1} /\ K \subseteq 1 .. at
    BY <2>1
  <2>4. PICK s, t : s = report.relationships /\ t = report'.relationships
    OBVIOUS
  <2>5. IsSeq(s) /\ Len(s) = Cardinality(K)
        /\ \A k \in 1 .. at : Joins(k) => \E x \in DOMAIN s : Joined(s[x], k)
    BY <1>6, <2>1, <2>4 DEF Logical, IsReport
  <2>6. CASE Joins(at + 1)
    <3>1. ~BothUnserved
      BY <1>6, <2>6, FlawIs
    <3>2. PICK e : t = Append(s, e) /\ Joined(e, at + 1)
      BY <1>1, <2>4, <2>6, <3>1
    <3>3. /\ Len(t) = Len(s) + 1 /\ DOMAIN t = DOMAIN s \cup {Len(s) + 1} /\ t[Len(s) + 1] = e
          /\ \A n \in DOMAIN s : t[n] = s[n]
      BY <2>5, <3>2, Appending
    <3>4. J = K \cup {at + 1}
      BY <2>1, <2>2, <2>3, <2>6
    <3>5. Cardinality(J) = Cardinality(K) + 1
      BY <2>3, <3>4, Counting
    <3>6. \A k \in 1 .. at + 1 : Joins(k) => \E x \in DOMAIN t : Joined(t[x], k)
      BY <2>3, <2>5, <3>2, <3>3
    <3> QED
      BY <2>2, <2>4, <2>5, <3>3, <3>5, <3>6
  <2>7. CASE ~Joins(at + 1)
    <3>1. t = s
      BY <1>1, <2>4, <2>7
    <3>2. J = K
      BY <2>1, <2>2, <2>3, <2>7
    <3> QED
      BY <2>2, <2>3, <2>4, <2>5, <2>7, <3>1, <3>2
  <2> QED
    BY <2>6, <2>7
<1>7. {k \in 1 .. at' : Joins(k)'} = {k \in 1 .. at + 1 : Joins(k)}
  BY <1>1, <1>3
<1> QED
  BY <1>1, <1>2, <1>3, <1>4, <1>5, <1>6, <1>7 DEF Logical

-----------------------------------------------------------------------------
(* The answers, counted.  An entry of a list is about a task's code, or, of  *)
(* the refused, about a section.                                           *)
IsAbout(list, e, x) ==
  CASE list = "activities" -> e.code = x
    [] list = "rejected" -> e.table = "TASK" /\ e.code = x
    [] list = "refused" -> e.table = x
    [] OTHER -> e = x
Tally(s, list, x) == Cardinality({k \in DOMAIN s : IsAbout(list, s[k], x)})

LEMMA OneTallied ==
  ASSUME NEW s, IsSeq(s), NEW e, NEW list, NEW x
  PROVE  /\ Tally(s, list, x) \in Nat
         /\ IsAbout(list, e, x) => Tally(Append(s, e), list, x) = Tally(s, list, x) + 1
         /\ ~IsAbout(list, e, x) => Tally(Append(s, e), list, x) = Tally(s, list, x)
<1>0. PICK t : t = Append(s, e)
  OBVIOUS
<1>1. Len(s) \in Nat /\ DOMAIN s = 1 .. Len(s)
  BY SeqIs
<1>2. /\ DOMAIN t = DOMAIN s \cup {Len(s) + 1} /\ t[Len(s) + 1] = e
      /\ \A n \in DOMAIN s : t[n] = s[n]
  BY <1>0, Appending
<1>3. PICK K, L : K = {k \in DOMAIN s : IsAbout(list, s[k], x)} /\ L = {k \in DOMAIN t : IsAbout(list, t[k], x)}
  OBVIOUS
<1>4. L = IF IsAbout(list, e, x) THEN K \cup {Len(s) + 1} ELSE K
  BY <1>2, <1>3, <1>1
<1>5. K \subseteq 1 .. Len(s)
  BY <1>1, <1>3
<1>6. Cardinality(K) \in Nat /\ Cardinality(K \cup {Len(s) + 1}) = Cardinality(K) + 1
  BY <1>1, <1>5, Counting
<1>7. Tally(s, list, x) = Cardinality(K) /\ Tally(t, list, x) = Cardinality(L)
  BY <1>3 DEF Tally
<1>8. /\ IsAbout(list, e, x) => Tally(t, list, x) = Tally(s, list, x) + 1
      /\ ~IsAbout(list, e, x) => Tally(t, list, x) = Tally(s, list, x)
  BY <1>4, <1>6, <1>7
<1> QED
  BY <1>0, <1>7, <1>6, <1>8

Refused(name) == Tally(report.rejected, "refused", name)
Listed(code) ==
  Tally(report.activities, "activities", code) + Tally(report.excluded_loe, "excluded_loe", code)
    + Tally(report.excluded_wbs, "excluded_wbs", code) + Tally(report.excluded_project, "excluded_project", code)
    + Tally(report.rejected, "rejected", code)
Accepted ==
  Len(report.activities) + Len(report.excluded_loe) + Len(report.excluded_wbs) + Len(report.excluded_project)

(* Of a rows of TASK and b of TASKPRED answered for: each is in one list,   *)
(* as is every row that was not read.                                      *)
TasksBalance(a) == Cardinality(RowsOf("TASK")) + a = Len(Table("TASK").rows) + Accepted + Refused("TASK")
PredsBalance(b) ==
  Cardinality(RowsOf("TASKPRED")) + b
    = Len(Table("TASKPRED").rows) + Len(report.relationships) + report.excluded_edges + Refused("TASKPRED")
ListedOnce(a) ==
  \A code : code # None => Listed(code) = Cardinality({m \in 1 .. a : Says("TASK", m, "task_code") = code})
Settled(i, a, b) ==
  \/ \A name : name # None => i \notin Whole(name)
  \/ \E m \in 1 .. a : i = LineOf("TASK", m)
  \/ \E m \in 1 .. b : i = LineOf("TASKPRED", m)
Apart(a, b) ==
  /\ \A k \in DOMAIN report.rejected :
       report.rejected[k].row \in 1 .. line /\ Settled(report.rejected[k].row, a, b)
  /\ \A j, k \in DOMAIN report.rejected : report.rejected[j].row = report.rejected[k].row => j = k
Answered(a, b) == TasksBalance(a) /\ PredsBalance(b) /\ ListedOnce(a) /\ Apart(a, b)

(* One more refused, of a line that was not.                               *)
LEMMA OneRefused ==
  ASSUME NEW s, IsSeq(s), NEW e,
         \A j, k \in DOMAIN s : s[j].row = s[k].row => j = k,
         \A k \in DOMAIN s : s[k].row # e.row
  PROVE  /\ \A j, k \in DOMAIN Append(s, e) : Append(s, e)[j].row = Append(s, e)[k].row => j = k
         /\ \A k \in DOMAIN Append(s, e) :
              \/ k \in DOMAIN s /\ Append(s, e)[k] = s[k]
              \/ Append(s, e)[k] = e
<1>0. PICK t : t = Append(s, e)
  OBVIOUS
<1>1. /\ DOMAIN t = DOMAIN s \cup {Len(s) + 1} /\ t[Len(s) + 1] = e
      /\ \A n \in DOMAIN s : t[n] = s[n]
  BY <1>0, Appending
<1>2. \A j, k \in DOMAIN t : t[j].row = t[k].row => j = k
  BY <1>1
<1>3. \A k \in DOMAIN t : \/ k \in DOMAIN s /\ t[k] = s[k]
                         \/ t[k] = e
  BY <1>1
<1> QED
  BY <1>0, <1>2, <1>3

(* The section a line outside every section is refused under.              *)
Nameless == ""

(* A line of the export read.                                              *)
LEMMA LineAnswered ==
  ASSUME Read, Reading, IsReport(report)
  PROVE  /\ stage = "reading" /\ stage' \in {"reading", "tables"} /\ line \in Nat /\ line' = line + 1
         /\ UNCHANGED <<input, at, ctx, codeOf, absent>>
         /\ IsReport(report') /\ DOMAIN tables \subseteq DOMAIN tables'
         /\ \A f \in ReportFields \ {"rejected"} : report'[f] = report[f]
         /\ \A name : name # None => Whole(name)' \subseteq Whole(name) \cup {line + 1}
         /\ \/ /\ report'.rejected = report.rejected
               /\ \A name : name # None =>
                    \/ RowsOf(name)' = RowsOf(name) /\ Len(Table(name)'.rows) = Len(Table(name).rows)
                    \/ /\ RowsOf(name)' = RowsOf(name) \cup {line + 1}
                       /\ Len(Table(name)'.rows) = Len(Table(name).rows) + 1
            \/ /\ \E e : /\ report'.rejected = Append(report.rejected, e)
                         /\ e.row = line + 1 /\ e.code = None
                         /\ e.table \in DOMAIN tables \cup {Nameless}
                         /\ \A name : name # None /\ name # Nameless =>
                              RowsOf(name)' = IF e.table = name THEN RowsOf(name) \cup {line + 1} ELSE RowsOf(name)
               /\ \A name : name # None => /\ line + 1 \notin Whole(name)'
                                           /\ Len(Table(name)'.rows) = Len(Table(name).rows)
<1>1. /\ stage = "reading" /\ line < Len(file) /\ line' = line + 1 /\ stage' \in {"reading", "tables"}
      /\ UNCHANGED <<input, at, ctx, codeOf, absent>>
      /\ report' = report \/ \E e : report' = [report EXCEPT !["rejected"] = Append(@, e)]
  BY DEF Reading, ReadSection, ReadFields, ReadOrphan, ReadMisfit, ReadTooMuch, ReadRow, ReadEnd, ReadNoise,
         Reads, KeepsRead, Rejects
<1>2. /\ IsReport(report')
      /\ \A f \in ReportFields \ {"rejected"} : report'[f] = report[f]
      /\ \A e : report' = [report EXCEPT !["rejected"] = Append(@, e)] =>
                  report'.rejected = Append(report.rejected, e)
  <2>1. CASE report' = report
    <3>1. \A e : report' = [report EXCEPT !["rejected"] = Append(@, e)] =>
                  report'.rejected = Append(report.rejected, e)
      BY DEF IsReport, IsRecord, ReportFields, Answers
    <3> QED
      BY <2>1, <3>1
  <2>2. ASSUME NEW e, report' = [report EXCEPT !["rejected"] = Append(@, e)]
        PROVE  /\ IsReport(report') /\ report'.rejected = Append(report.rejected, e)
               /\ \A f \in ReportFields \ {"rejected"} : report'[f] = report[f]
    <3>1. PICK r, q : r = report /\ q = report'
      OBVIOUS
    <3>2. r = [f \in ReportFields |-> r[f]] /\ q = [r EXCEPT !["rejected"] = Append(r.rejected, e)]
          /\ "rejected" \in ReportFields
      BY <2>2, <3>1 DEF IsReport, IsRecord, ReportFields, Answers
    <3>3. q = [f \in ReportFields |-> q[f]]
          /\ \A f \in ReportFields : q[f] = IF f = "rejected" THEN Append(r.rejected, e) ELSE r[f]
      BY <3>2, ReportWith
    <3>4. /\ IsRecord(q) /\ q["rejected"] = Append(r["rejected"], e) /\ IsReport(r)
          /\ \A f \in Answers \cup {"relationships", "excluded_edges"} : f # "rejected" => q[f] = r[f]
          /\ "rejected" \in Answers \cup {"relationships"}
      BY <3>1, <3>2, <3>3 DEF IsRecord, ReportFields, Answers
    <3>5. IsReport(q)
      BY <3>4, OneAnswer
    <3> QED
      BY <3>1, <3>3, <3>5, <3>2
  <2> QED
    BY <1>1, <2>1, <2>2
<1>3. line \in Nat /\ cellCount \in Nat
  BY Export DEF Read
<1>4. cellCount' \in Nat
  <2>1. CASE ReadTooMuch \/ ReadRow
    <3>1. Line = file[line + 1] /\ line + 1 \in 1 .. Len(file)
      BY <1>1, Export DEF Line, Read
    <3>2. Line \in Lines /\ Line.tag = "R" /\ cellCount' = cellCount + Len(Line.cells)
      BY <2>1, <3>1, Export DEF Read, ReadTooMuch, ReadRow, Reads
    <3>3. Len(Line.cells) \in Nat
      BY <3>2, LineIs
    <3> QED
      BY <1>3, <3>2, <3>3
  <2>2. CASE ~(ReadTooMuch \/ ReadRow)
    BY <1>3, <2>2 DEF Reading, ReadSection, ReadFields, ReadOrphan, ReadMisfit, ReadEnd, ReadNoise
  <2> QED
    BY <2>1, <2>2
<1>5. /\ \A name : RowsOf(name)' = IF Line.tag = "R" /\ SectionOf(line + 1) = name
                                   THEN RowsOf(name) \cup {line + 1} ELSE RowsOf(name)
      /\ \A name : Whole(name)' = IF Keeping /\ SectionOf(line + 1) = name
                                  THEN Whole(name) \cup {line + 1} ELSE Whole(name)
      /\ \A name : line + 1 \notin Whole(name)
  BY <1>1, <1>4, OneLineMore DEF Keeping
<1>6. /\ current = SectionOf(line + 1) /\ (current # None => current \in DOMAIN tables)
      /\ current # None => HeaderOf(line + 1) = tables[current].fields
  BY <1>1, <1>4, InSection
<1>7. CASE ReadSection \/ ReadFields \/ ReadEnd \/ ReadNoise
  <2>1. /\ report'.rejected = report.rejected /\ Line.tag # "R"
        /\ \A name : Table(name)'.rows = Table(name).rows
        /\ DOMAIN tables \subseteq DOMAIN tables'
    <3>1. report' = report /\ Line.tag # "R"
      BY <1>7 DEF ReadSection, ReadFields, ReadEnd, ReadNoise, Reads
    <3>2. CASE ReadEnd \/ ReadNoise
      <4>1. tables' = tables
        BY <3>2 DEF ReadEnd, ReadNoise
      <4> QED
        BY <3>1, <4>1, SaysAgain
    <3> QED
      BY <1>7, <3>1, <3>2, SectionOpened, FieldsRead
  <2> QED
    BY <1>1, <1>2, <1>3, <1>5, <2>1
<1>8. CASE ReadRow
  <2>1. /\ report'.rejected = report.rejected /\ Line.tag = "R"
        /\ DOMAIN tables \subseteq DOMAIN tables'
        /\ \A name : Table(name)'.rows =
              IF name = current THEN Append(Table(name).rows, [line |-> line + 1, cells |-> Line.cells])
              ELSE Table(name).rows
    BY <1>8, RowRead DEF ReadRow, Reads
  <2>2. ASSUME NEW name, name # None, name = current
        PROVE  Len(Table(name)'.rows) = Len(Table(name).rows) + 1
    <3>1. PICK s : s = Table(name).rows /\ IsSeq(s)
      BY <2>2 DEF Read, Tabled, RowsAre
    <3>2. PICK e, t : e = [line |-> line + 1, cells |-> Line.cells] /\ t = Append(s, e)
      OBVIOUS
    <3>3. Len(t) = Len(s) + 1
      BY <3>1, <3>2, Appending
    <3> QED
      BY <2>1, <2>2, <3>1, <3>2, <3>3
  <2> QED
    BY <1>1, <1>2, <1>3, <1>5, <1>6, <2>1, <2>2
<1>9. CASE ReadOrphan
  <2>1. PICK e : e = Reject(line + 1, "", None, "structure")
    OBVIOUS
  <2>2. report' = [report EXCEPT !["rejected"] = Append(@, e)] /\ tables' = tables /\ current = None
    BY <1>9, <2>1 DEF ReadOrphan, Rejects
  <2>3. report'.rejected = Append(report.rejected, e) /\ e.row = line + 1 /\ e.code = None /\ e.table = Nameless
    BY <1>2, <2>1, <2>2 DEF Reject, Nameless
  <2>4. \A name : Table(name)' = Table(name)
    BY <2>2, SaysAgain
  <2>5. \A name : name # None => RowsOf(name)' = RowsOf(name) /\ Whole(name)' = Whole(name)
    BY <1>5, <1>6, <2>2
  <2> QED
    BY <1>1, <1>2, <1>3, <1>5, <2>2, <2>3, <2>4, <2>5
<1>10. CASE ReadMisfit \/ ReadTooMuch
  <2>1. PICK class : report' = [report EXCEPT !["rejected"] = Append(@, Reject(line + 1, current, None, class))]
    BY <1>10 DEF ReadMisfit, ReadTooMuch, Rejects
  <2>2. PICK e : /\ report' = [report EXCEPT !["rejected"] = Append(@, e)]
                 /\ e.row = line + 1 /\ e.code = None /\ e.table = current
    <3>1. PICK e : e = Reject(line + 1, current, None, class)
      OBVIOUS
    <3>2. e.row = line + 1 /\ e.code = None /\ e.table = current
      BY <3>1 DEF Reject
    <3> QED
      BY <2>1, <3>1, <3>2
  <2>3. tables' = tables /\ current # None /\ Line.tag = "R"
    BY <1>10 DEF ReadMisfit, ReadTooMuch, Reads
  <2>4. \A name : Table(name)' = Table(name)
    BY <2>3, SaysAgain
  <2>5. ~Keeping
    <3>1. CASE ReadMisfit
      BY <1>6, <2>3, <3>1 DEF ReadMisfit, Fits, Keeping
    <3>2. CASE ReadTooMuch
      BY <1>4, <3>2, CellsAssumption DEF ReadTooMuch, Keeping
    <3> QED
      BY <1>10, <3>1, <3>2
  <2>6. report'.rejected = Append(report.rejected, e)
    BY <1>2, <2>2
  <2>7. \A name : line + 1 \notin Whole(name)' /\ Whole(name)' = Whole(name)
    BY <1>5, <2>5
  <2>8. \A name : RowsOf(name)' = IF e.table = name THEN RowsOf(name) \cup {line + 1} ELSE RowsOf(name)
    BY <1>5, <1>6, <2>2, <2>3
  <2> QED
    BY <1>1, <1>2, <1>3, <1>6, <2>2, <2>3, <2>4, <2>6, <2>7, <2>8
<1> QED
  BY <1>7, <1>8, <1>9, <1>10 DEF Reading

(* Counts are counts.                                                      *)
LEMMA Counts ==
  ASSUME Read, IsReport(report)
  PROVE  /\ \A name : /\ Cardinality(RowsOf(name)) \in Nat
                      /\ Cardinality(RowsOf(name) \cup {line + 1}) = Cardinality(RowsOf(name)) + 1
         /\ \A name : name # None => Len(Table(name).rows) \in Nat
         /\ \A f \in Answers \cup {"relationships"} : Len(report[f]) \in Nat
         /\ \A f \in Answers : \A list, x : Tally(report[f], list, x) \in Nat
         /\ Len(report.relationships) \in Nat /\ report.excluded_edges \in Nat
<1>1. line \in Nat
  BY Export DEF Read
<1>2. ASSUME NEW name
      PROVE  /\ Cardinality(RowsOf(name)) \in Nat
             /\ Cardinality(RowsOf(name) \cup {line + 1}) = Cardinality(RowsOf(name)) + 1
  <2>1. PICK K, n : K = RowsOf(name) /\ n = line
    OBVIOUS
  <2>2. n \in Nat /\ K \subseteq 1 .. n
    BY <1>1, <2>1 DEF RowsOf
  <2> QED
    BY <2>1, <2>2, Counting
<1>3. \A name : name # None => Len(Table(name).rows) \in Nat
  <2> SUFFICES ASSUME NEW name, name # None PROVE Len(Table(name).rows) \in Nat
    OBVIOUS
  <2>1. IsSeq(Table(name).rows)
    BY RowsSay
  <2> QED
    BY <2>1, SeqIs
<1>4. ASSUME NEW f \in Answers \cup {"relationships"} PROVE Len(report[f]) \in Nat
  <2>1. IsSeq(report[f])
    BY DEF IsReport
  <2> QED
    BY <2>1, SeqIs
<1>5. ASSUME NEW f \in Answers, NEW list, NEW x PROVE Tally(report[f], list, x) \in Nat
  <2>1. PICK s, e : s = report[f] /\ e = Append(s, x)
    OBVIOUS
  <2>2. IsSeq(s)
    BY <2>1 DEF IsReport
  <2> QED
    BY <2>1, <2>2, OneTallied
<1>6. "relationships" \in Answers \cup {"relationships"}
  OBVIOUS
<1> QED
  BY <1>2, <1>3, <1>4, <1>5, <1>6 DEF IsReport

LEMMA AcceptedIs ==
  ASSUME IsReport(report)
  PROVE  Accepted \in Nat
<1>1. \A f \in {"activities", "excluded_loe", "excluded_wbs", "excluded_project"} : Len(report[f]) \in Nat
  <2> SUFFICES ASSUME NEW f \in {"activities", "excluded_loe", "excluded_wbs", "excluded_project"}
               PROVE  Len(report[f]) \in Nat
    OBVIOUS
  <2>1. IsSeq(report[f])
    BY DEF IsReport, Answers
  <2> QED
    BY <2>1, SeqIs
<1>2. PICK a, b, c, d : /\ a = Len(report.activities) /\ b = Len(report.excluded_loe)
                        /\ c = Len(report.excluded_wbs) /\ d = Len(report.excluded_project)
  OBVIOUS
<1>3. a \in Nat /\ b \in Nat /\ c \in Nat /\ d \in Nat
  BY <1>1, <1>2
<1>4. Accepted = a + b + c + d
  BY <1>2 DEF Accepted
<1> QED
  BY <1>3, <1>4

LEMMA Named_ ==
  /\ None # "TASK" /\ None # "TASKPRED" /\ None # "UDFTYPE" /\ None # "ACTVTYPE"
  /\ "TASK" # Nameless /\ "TASKPRED" # Nameless
BY ExportsAssumption DEF Words, Nameless

TablesOfRefused == \A k \in DOMAIN report.rejected : report.rejected[k].table \in DOMAIN tables \cup {Nameless}

LEMMA LineKeepsAnswers ==
  ASSUME Read, Reading, IsReport(report), Answered(0, 0), TablesOfRefused
  PROVE  Answered(0, 0)' /\ TablesOfRefused'
<1>0. PICK s, t : s = report.rejected /\ t = report'.rejected
  OBVIOUS
<1>1. /\ line \in Nat /\ line' = line + 1 /\ IsReport(report') /\ DOMAIN tables \subseteq DOMAIN tables'
      /\ \A f \in ReportFields \ {"rejected"} : report'[f] = report[f]
      /\ \A name : name # None => Whole(name)' \subseteq Whole(name) \cup {line + 1}
  BY LineAnswered
<1>2. /\ report'.activities = report.activities /\ report'.excluded_loe = report.excluded_loe
      /\ report'.excluded_wbs = report.excluded_wbs /\ report'.excluded_project = report.excluded_project
      /\ report'.relationships = report.relationships /\ report'.excluded_edges = report.excluded_edges
  BY <1>1 DEF ReportFields, Answers
<1>3. IsSeq(s) /\ \A list, x : Tally(s, list, x) \in Nat
  BY <1>0, Counts DEF IsReport, Answers
<1>4. /\ \A name : /\ Cardinality(RowsOf(name)) \in Nat
                   /\ Cardinality(RowsOf(name) \cup {line + 1}) = Cardinality(RowsOf(name)) + 1
      /\ \A name : name # None => Len(Table(name).rows) \in Nat
      /\ Len(report.relationships) \in Nat /\ report.excluded_edges \in Nat
  BY Counts
<1>11. Accepted \in Nat
  BY AcceptedIs
<1>5. Accepted' = Accepted
  BY <1>2 DEF Accepted
<1>6. \A j, k \in DOMAIN s : s[j].row = s[k].row => j = k
  BY <1>0 DEF Answered, Apart
<1>7. \A k \in DOMAIN s : s[k].row \in 1 .. line /\ \A name : name # None => s[k].row \notin Whole(name)
  BY <1>0 DEF Answered, Apart, Settled
<1>12. line + 1 \notin 1 .. line /\ line + 1 \in 1 .. line' /\ 1 .. line \subseteq 1 .. line'
  BY <1>1
<1>8. CASE /\ t = s
           /\ \A name : name # None =>
                \/ RowsOf(name)' = RowsOf(name) /\ Len(Table(name)'.rows) = Len(Table(name).rows)
                \/ /\ RowsOf(name)' = RowsOf(name) \cup {line + 1}
                   /\ Len(Table(name)'.rows) = Len(Table(name).rows) + 1
  <2>1. \A name : Refused(name)' = Refused(name) /\ Refused(name) = Tally(s, "refused", name)
    BY <1>0, <1>8 DEF Refused
  <2>2. \A name : name # None =>
          \/ Cardinality(RowsOf(name))' = Cardinality(RowsOf(name)) /\ Len(Table(name)'.rows) = Len(Table(name).rows)
          \/ /\ Cardinality(RowsOf(name))' = Cardinality(RowsOf(name)) + 1
             /\ Len(Table(name)'.rows) = Len(Table(name).rows) + 1
    BY <1>4, <1>8
  <2>3. TasksBalance(0)'
    <3>1. PICK A, B : A = Cardinality(RowsOf("TASK"))' /\ B = Cardinality(RowsOf("TASK"))
      OBVIOUS
    <3>2. PICK C, D : C = Len(Table("TASK")'.rows) /\ D = Len(Table("TASK").rows)
      OBVIOUS
    <3>3. \/ A = B /\ C = D
          \/ A = B + 1 /\ C = D + 1
      BY <2>2, <3>1, <3>2, Named_
    <3>4. B + 0 = D + Accepted + Refused("TASK")
      BY <3>1, <3>2 DEF Answered, TasksBalance
    <3>5. B \in Nat /\ D \in Nat /\ Refused("TASK") \in Nat
      BY <1>3, <1>4, <2>1, <3>1, <3>2, Named_
    <3>6. A + 0 = C + Accepted + Refused("TASK")
      BY <1>11, <3>3, <3>4, <3>5
    <3> QED
      BY <1>5, <2>1, <3>1, <3>2, <3>6 DEF TasksBalance
  <2>4. PredsBalance(0)'
    <3>1. PICK A, B : A = Cardinality(RowsOf("TASKPRED"))' /\ B = Cardinality(RowsOf("TASKPRED"))
      OBVIOUS
    <3>2. PICK C, D : C = Len(Table("TASKPRED")'.rows) /\ D = Len(Table("TASKPRED").rows)
      OBVIOUS
    <3>3. \/ A = B /\ C = D
          \/ A = B + 1 /\ C = D + 1
      BY <2>2, <3>1, <3>2, Named_
    <3>4. B + 0 = D + Len(report.relationships) + report.excluded_edges + Refused("TASKPRED")
      BY <3>1, <3>2 DEF Answered, PredsBalance
    <3>5. B \in Nat /\ D \in Nat /\ Refused("TASKPRED") \in Nat
      BY <1>3, <1>4, <2>1, <3>1, <3>2, Named_
    <3>6. A + 0 = C + Len(report.relationships) + report.excluded_edges + Refused("TASKPRED")
      <4>1. PICK p, q, r : p = Len(report.relationships) /\ q = report.excluded_edges /\ r = Refused("TASKPRED")
        OBVIOUS
      <4>2. B + 0 = D + p + q + r /\ {B, D, p, q, r} \subseteq Nat
        BY <1>4, <3>4, <3>5, <4>1
      <4>3. A + 0 = C + p + q + r
        BY <3>3, <4>2
      <4> QED
        BY <4>1, <4>3
    <3> QED
      BY <1>2, <2>1, <3>1, <3>2, <3>6 DEF PredsBalance
  <2>5. ListedOnce(0)'
    <3>1. \A code : Listed(code)' = Listed(code)
      BY <1>0, <1>2, <1>8 DEF Listed
    <3>2. 1 .. 0 = {}
      OBVIOUS
    <3>3. \A code : {m \in 1 .. 0 : Says("TASK", m, "task_code")' = code} = {m \in 1 .. 0 : Says("TASK", m, "task_code") = code}
      BY <3>2
    <3> QED
      BY <3>1, <3>3 DEF Answered, ListedOnce
  <2>6. Apart(0, 0)'
    <3>1. \A k \in DOMAIN s : s[k].row \in 1 .. line' /\ \A name : name # None => s[k].row \notin Whole(name)'
      BY <1>1, <1>7
    <3> QED
      BY <1>0, <1>6, <1>8, <3>1 DEF Apart, Settled
  <2>7. TablesOfRefused'
    BY <1>0, <1>1, <1>8 DEF TablesOfRefused
  <2> QED
    BY <2>3, <2>4, <2>5, <2>6, <2>7 DEF Answered
<1>9. ASSUME NEW e, t = Append(s, e), e.row = line + 1, e.code = None, e.table \in DOMAIN tables \cup {Nameless},
             \A name : name # None /\ name # Nameless =>
               RowsOf(name)' = IF e.table = name THEN RowsOf(name) \cup {line + 1} ELSE RowsOf(name),
             \A name : name # None => /\ line + 1 \notin Whole(name)'
                                      /\ Len(Table(name)'.rows) = Len(Table(name).rows)
      PROVE  Answered(0, 0)' /\ TablesOfRefused'
  <2>a. t = Append(s, e)
    BY <1>9
  <2>b. e.row = line + 1 /\ e.code = None /\ e.table \in DOMAIN tables \cup {Nameless}
    BY <1>9
  <2>c. \A name : name # None /\ name # Nameless =>
          RowsOf(name)' = IF e.table = name THEN RowsOf(name) \cup {line + 1} ELSE RowsOf(name)
    BY <1>9
  <2>d. \A name : name # None => /\ line + 1 \notin Whole(name)'
                                 /\ Len(Table(name)'.rows) = Len(Table(name).rows)
    BY <1>9
  <2>e. \A k \in DOMAIN s : s[k].row # e.row
    BY <1>7, <1>12, <2>b
  <2>1. /\ \A name : Refused(name) = Tally(s, "refused", name) /\ Refused(name)' = Tally(t, "refused", name)
        /\ \A name : Refused(name)' = Refused(name) + IF e.table = name THEN 1 ELSE 0
    <3>1. \A name : Refused(name) = Tally(s, "refused", name) /\ Refused(name)' = Tally(t, "refused", name)
      BY <1>0 DEF Refused
    <3>2. \A name : Tally(t, "refused", name) = Tally(s, "refused", name) + IF e.table = name THEN 1 ELSE 0
      <4> SUFFICES ASSUME NEW name
                   PROVE  Tally(t, "refused", name) = Tally(s, "refused", name) + IF e.table = name THEN 1 ELSE 0
        OBVIOUS
      <4>1. /\ Tally(s, "refused", name) \in Nat
            /\ IsAbout("refused", e, name) => Tally(t, "refused", name) = Tally(s, "refused", name) + 1
            /\ ~IsAbout("refused", e, name) => Tally(t, "refused", name) = Tally(s, "refused", name)
        <5>1. PICK list : list = "refused"
          OBVIOUS
        <5>2. /\ Tally(s, list, name) \in Nat
              /\ IsAbout(list, e, name) => Tally(t, list, name) = Tally(s, list, name) + 1
              /\ ~IsAbout(list, e, name) => Tally(t, list, name) = Tally(s, list, name)
          <6>1. IsSeq(s)
            BY <1>3
          <6> QED
            BY <6>1, <2>a, OneTallied
        <5> QED
          BY <5>1, <5>2
      <4>2. IsAbout("refused", e, name) <=> e.table = name
        BY DEF IsAbout
      <4> QED
        BY <4>1, <4>2
    <3> QED
      BY <3>1, <3>2
  <2>2. \A name : name # None /\ name # Nameless =>
          Cardinality(RowsOf(name))' = Cardinality(RowsOf(name)) + IF e.table = name THEN 1 ELSE 0
    <3> SUFFICES ASSUME NEW name, name # None, name # Nameless
                 PROVE  Cardinality(RowsOf(name))' = Cardinality(RowsOf(name)) + IF e.table = name THEN 1 ELSE 0
      OBVIOUS
    <3>1. CASE e.table = name
      BY <1>4, <2>c, <3>1
    <3>2. CASE e.table # name
      <4>1. RowsOf(name)' = RowsOf(name)
        BY <2>c, <3>2
      <4>2. PICK n : n = Cardinality(RowsOf(name)) /\ n \in Nat
        BY <1>4
      <4>3. Cardinality(RowsOf(name))' = n
        BY <4>1, <4>2
      <4>4. n = n + 0
        BY <4>2
      <4>5. (IF e.table = name THEN 1 ELSE 0) = 0
        BY <3>2, Zenon
      <4> QED
        BY <4>2, <4>3, <4>4, <4>5
    <3> QED
      BY <3>1, <3>2
  <2>3. TasksBalance(0)'
    <3>1. PICK A, B : A = Cardinality(RowsOf("TASK"))' /\ B = Cardinality(RowsOf("TASK"))
      OBVIOUS
    <3>2. PICK d : d = IF e.table = "TASK" THEN 1 ELSE 0
      OBVIOUS
    <3>3. A = B + d /\ Refused("TASK")' = Refused("TASK") + d
      BY <2>1, <2>2, <3>1, <3>2, Named_
    <3>4. B + 0 = Len(Table("TASK").rows) + Accepted + Refused("TASK")
      BY <3>1 DEF Answered, TasksBalance
    <3>5. B \in Nat /\ d \in Nat /\ Refused("TASK") \in Nat /\ Len(Table("TASK").rows) \in Nat
      BY <1>3, <1>4, <2>1, <3>1, <3>2, Named_
    <3>6. A + 0 = Len(Table("TASK").rows) + Accepted + Refused("TASK")'
      <4>1. PICK D, p, r, r2 : /\ D = Len(Table("TASK").rows) /\ p = Accepted
                               /\ r = Refused("TASK") /\ r2 = Refused("TASK")'
        OBVIOUS
      <4>2. B + 0 = D + p + r /\ {B, D, p, r, d} \subseteq Nat /\ r2 = r + d /\ A = B + d
        BY <1>11, <3>3, <3>4, <3>5, <4>1
      <4>3. A + 0 = D + p + r2
        BY <4>2
      <4> QED
        BY <4>1, <4>3
    <3> QED
      BY <1>5, <2>d, <3>1, <3>6, Named_ DEF TasksBalance
  <2>4. PredsBalance(0)'
    <3>1. PICK A, B : A = Cardinality(RowsOf("TASKPRED"))' /\ B = Cardinality(RowsOf("TASKPRED"))
      OBVIOUS
    <3>2. PICK d : d = IF e.table = "TASKPRED" THEN 1 ELSE 0
      OBVIOUS
    <3>3. A = B + d /\ Refused("TASKPRED")' = Refused("TASKPRED") + d
      BY <2>1, <2>2, <3>1, <3>2, Named_
    <3>4. B + 0 = Len(Table("TASKPRED").rows) + Len(report.relationships) + report.excluded_edges + Refused("TASKPRED")
      BY <3>1 DEF Answered, PredsBalance
    <3>5. B \in Nat /\ d \in Nat /\ Refused("TASKPRED") \in Nat /\ Len(Table("TASKPRED").rows) \in Nat
      BY <1>3, <1>4, <2>1, <3>1, <3>2, Named_
    <3>6. A + 0 = Len(Table("TASKPRED").rows) + Len(report.relationships) + report.excluded_edges + Refused("TASKPRED")'
      <4>1. PICK D, p, q, r, r2 : /\ D = Len(Table("TASKPRED").rows) /\ p = Len(report.relationships)
                                  /\ q = report.excluded_edges
                                  /\ r = Refused("TASKPRED") /\ r2 = Refused("TASKPRED")'
        OBVIOUS
      <4>2. B + 0 = D + p + q + r /\ {B, D, p, q, r, d} \subseteq Nat /\ r2 = r + d /\ A = B + d
        BY <1>4, <3>3, <3>4, <3>5, <4>1
      <4>3. A + 0 = D + p + q + r2
        BY <4>2
      <4> QED
        BY <4>1, <4>3
    <3> QED
      BY <1>2, <2>d, <3>1, <3>6, Named_ DEF PredsBalance
  <2>5. ListedOnce(0)'
    <3>1. ASSUME NEW code, code # None PROVE Listed(code)' = Listed(code)
      <4>1. ~IsAbout("rejected", e, code) => Tally(t, "rejected", code) = Tally(s, "rejected", code)
        <5>1. PICK list : list = "rejected"
          OBVIOUS
        <5>2. ~IsAbout(list, e, code) => Tally(t, list, code) = Tally(s, list, code)
          <6>1. IsSeq(s)
            BY <1>3
          <6> QED
            BY <6>1, <2>a, OneTallied
        <5> QED
          BY <5>1, <5>2
      <4>2. ~IsAbout("rejected", e, code)
        BY <2>b, <3>1 DEF IsAbout
      <4>3. Tally(t, "rejected", code) = Tally(s, "rejected", code)
        BY <1>3, <4>1, <4>2
      <4> QED
        BY <1>0, <1>2, <4>3 DEF Listed
    <3>2. 1 .. 0 = {}
      OBVIOUS
    <3>3. \A code : {m \in 1 .. 0 : Says("TASK", m, "task_code")' = code} = {m \in 1 .. 0 : Says("TASK", m, "task_code") = code}
      BY <3>2
    <3> QED
      BY <3>1, <3>3 DEF Answered, ListedOnce
  <2>6. Apart(0, 0)'
    <3>2. /\ \A j, k \in DOMAIN t : t[j].row = t[k].row => j = k
          /\ \A k \in DOMAIN t : \/ k \in DOMAIN s /\ t[k] = s[k]
                               \/ t[k] = e
      BY <1>3, <1>6, <2>a, <2>e, OneRefused
    <3>3. \A k \in DOMAIN s : s[k].row \in 1 .. line' /\ \A name : name # None => s[k].row \notin Whole(name)'
      BY <1>1, <1>7
    <3>4. e.row \in 1 .. line' /\ \A name : name # None => e.row \notin Whole(name)'
      BY <1>12, <2>b, <2>d
    <3>5. \A k \in DOMAIN t : t[k].row \in 1 .. line' /\ \A name : name # None => t[k].row \notin Whole(name)'
      BY <3>2, <3>3, <3>4
    <3> QED
      BY <1>0, <3>2, <3>5 DEF Apart, Settled
  <2>7. TablesOfRefused'
    <3>1. \A k \in DOMAIN t : \/ k \in DOMAIN s /\ t[k] = s[k]
                             \/ t[k] = e
      BY <1>3, <1>6, <2>a, <2>e, OneRefused
    <3> QED
      BY <1>0, <1>1, <2>b, <3>1 DEF TablesOfRefused
  <2> QED
    BY <2>3, <2>4, <2>5, <2>6, <2>7 DEF Answered
<1>10. \/ /\ t = s
          /\ \A name : name # None =>
               \/ RowsOf(name)' = RowsOf(name) /\ Len(Table(name)'.rows) = Len(Table(name).rows)
               \/ /\ RowsOf(name)' = RowsOf(name) \cup {line + 1}
                  /\ Len(Table(name)'.rows) = Len(Table(name).rows) + 1
       \/ \E e : /\ t = Append(s, e) /\ e.row = line + 1 /\ e.code = None /\ e.table \in DOMAIN tables \cup {Nameless}
                 /\ \A name : name # None /\ name # Nameless =>
                      RowsOf(name)' = IF e.table = name THEN RowsOf(name) \cup {line + 1} ELSE RowsOf(name)
                 /\ \A name : name # None => /\ line + 1 \notin Whole(name)'
                                             /\ Len(Table(name)'.rows) = Len(Table(name).rows)
  BY <1>0, LineAnswered
<1> QED
  BY <1>8, <1>9, <1>10

(* A TASK row answered for.                                                *)
LEMMA SectionsApart ==
  ASSUME NEW i
  PROVE  ~(i \in Whole("TASK") /\ i \in Whole("TASKPRED"))
BY DEF Whole, RowsOf

LEMMA TaskKeepsAnswers ==
  ASSUME Read, TaskStep, IsReport(report), at \in Nat, Answered(at, 0)
  PROVE  Answered(at, 0)'
<1> DEFINE code == Of("task_code")
<1>1. /\ at < Len(Tasks.rows) /\ at' = at + 1 /\ tables' = tables /\ line' = line
      /\ \E g \in Answers : \E e :
              /\ report'[g] = Append(report[g], e)
              /\ \A f \in ReportFields \ {g, "wall_clock_findings"} : report'[f] = report[f]
              /\ g = "activities" => e.code = code
              /\ g = "rejected" => e.row = Row.line /\ e.table = "TASK" /\ e.code = code
              /\ g \notin {"activities", "rejected"} => e = code
  BY TaskAnswered
<1>2. PICK g \in Answers : \E e :
              /\ report'[g] = Append(report[g], e)
              /\ \A f \in ReportFields \ {g, "wall_clock_findings"} : report'[f] = report[f]
              /\ g = "activities" => e.code = code
              /\ g = "rejected" => e.row = Row.line /\ e.table = "TASK" /\ e.code = code
              /\ g \notin {"activities", "rejected"} => e = code
  BY <1>1
<1>13. PICK e :
              /\ report'[g] = Append(report[g], e)
              /\ \A f \in ReportFields \ {g, "wall_clock_findings"} : report'[f] = report[f]
              /\ g = "activities" => e.code = code
              /\ g = "rejected" => e.row = Row.line /\ e.table = "TASK" /\ e.code = code
              /\ g \notin {"activities", "rejected"} => e = code
  BY <1>2
<1>3. \A f \in Answers \cup {"relationships", "excluded_edges"} : f # g => report'[f] = report[f]
  BY <1>13 DEF ReportFields, Answers
<1>4. \A name : Table(name)' = Table(name) /\ Whole(name)' = Whole(name) /\ RowsOf(name)' = RowsOf(name)
  BY KeepsExport, ReadAlready DEF TaskStep, Resolving
<1>5. /\ \A name, m : LineOf(name, m)' = LineOf(name, m)
      /\ \A m, f : Says("TASK", m, f)' = Says("TASK", m, f)
  BY <1>1, SaysAgain
<1>6. Row.line = LineOf("TASK", at + 1) /\ code = Says("TASK", at + 1, "task_code")
  BY DEF LineOf, Says, Of, Row, Tasks
<1>7. IsSeq(Tasks.rows)
  BY RowsSay, Named_ DEF Tasks
<1>8. 1 .. at' = (1 .. at) \cup {at + 1} /\ at + 1 \notin 1 .. at
      /\ at + 1 \in DOMAIN Tasks.rows /\ 1 .. at \subseteq DOMAIN Tasks.rows
  BY <1>1, <1>7, SeqIs
<1>9. \A f \in Answers : IsSeq(report[f])
  BY DEF IsReport
<1> HIDE DEF code
<1>10. TasksBalance(at)' /\ PredsBalance(0)'
  <2>1. \A f \in Answers : /\ Len(report[f]) \in Nat
                           /\ Len(report'[f]) = IF f = g THEN Len(report[f]) + 1 ELSE Len(report[f])
    <3> SUFFICES ASSUME NEW f \in Answers
                 PROVE  /\ Len(report[f]) \in Nat
                        /\ Len(report'[f]) = IF f = g THEN Len(report[f]) + 1 ELSE Len(report[f])
      OBVIOUS
    <3>1. PICK s : s = report[f] /\ IsSeq(s)
      BY <1>9
    <3>2. Len(Append(s, e)) = Len(s) + 1 /\ Len(s) \in Nat
      BY <3>1, Appending, SeqIs
    <3> QED
      BY <1>13, <1>3, <3>1, <3>2
  <2>2. PICK a, b, c, d : /\ a = Len(report.activities) /\ b = Len(report.excluded_loe)
                          /\ c = Len(report.excluded_wbs) /\ d = Len(report.excluded_project)
    OBVIOUS
  <2>3. PICK a2, b2, c2, d2 : /\ a2 = Len(report'.activities) /\ b2 = Len(report'.excluded_loe)
                              /\ c2 = Len(report'.excluded_wbs) /\ d2 = Len(report'.excluded_project)
    OBVIOUS
  <2>4. Accepted = a + b + c + d /\ Accepted' = a2 + b2 + c2 + d2
    BY <2>2, <2>3 DEF Accepted
  <2>5. a \in Nat /\ b \in Nat /\ c \in Nat /\ d \in Nat
    BY <2>1, <2>2 DEF Answers
  <2>6. Accepted' = IF g = "rejected" THEN Accepted ELSE Accepted + 1
    <3>1. CASE g = "rejected"
      <4>1. a2 = a /\ b2 = b /\ c2 = c /\ d2 = d
        BY <2>1, <2>2, <2>3, <3>1 DEF Answers
      <4> QED
        BY <2>4, <3>1, <4>1
    <3>2. CASE g = "activities"
      <4>1. a2 = a + 1 /\ b2 = b /\ c2 = c /\ d2 = d
        BY <2>1, <2>2, <2>3, <3>2 DEF Answers
      <4> QED
        BY <2>4, <2>5, <3>2, <4>1
    <3>3. CASE g = "excluded_loe"
      <4>1. a2 = a /\ b2 = b + 1 /\ c2 = c /\ d2 = d
        BY <2>1, <2>2, <2>3, <3>3 DEF Answers
      <4> QED
        BY <2>4, <2>5, <3>3, <4>1
    <3>4. CASE g = "excluded_wbs"
      <4>1. a2 = a /\ b2 = b /\ c2 = c + 1 /\ d2 = d
        BY <2>1, <2>2, <2>3, <3>4 DEF Answers
      <4> QED
        BY <2>4, <2>5, <3>4, <4>1
    <3>5. CASE g = "excluded_project"
      <4>1. a2 = a /\ b2 = b /\ c2 = c /\ d2 = d + 1
        BY <2>1, <2>2, <2>3, <3>5 DEF Answers
      <4> QED
        BY <2>4, <2>5, <3>5, <4>1
    <3> QED
      BY <3>1, <3>2, <3>3, <3>4, <3>5 DEF Answers
  <2>7. /\ Refused("TASK")' = IF g = "rejected" THEN Refused("TASK") + 1 ELSE Refused("TASK")
        /\ Refused("TASKPRED")' = Refused("TASKPRED") /\ Refused("TASK") \in Nat
    <3>1. PICK s, list : s = report.rejected /\ IsSeq(s) /\ list = "refused"
      BY <1>9 DEF Answers
    <3>2. \A name : Refused(name) = Tally(s, list, name)
      BY <3>1 DEF Refused
    <3>3. Refused("TASK") \in Nat
      BY <3>1, <3>2, OneTallied
    <3>4. CASE g = "rejected"
      <4>1. IsAbout(list, e, "TASK") /\ ~IsAbout(list, e, "TASKPRED")
        BY <1>13, <3>1, <3>4 DEF IsAbout
      <4>2. \A name : Refused(name)' = Tally(Append(s, e), list, name)
        BY <1>13, <3>1, <3>4 DEF Refused
      <4>3. PICK x, y : x = "TASK" /\ y = "TASKPRED"
        OBVIOUS
      <4>4. /\ Tally(Append(s, e), list, x) = Tally(s, list, x) + 1
            /\ Tally(Append(s, e), list, y) = Tally(s, list, y)
        BY <3>1, <4>1, <4>3, OneTallied
      <4> QED
        BY <3>2, <3>3, <3>4, <4>2, <4>3, <4>4
    <3>5. CASE g # "rejected"
      BY <1>3, <3>3, <3>5 DEF Refused, Answers
    <3> QED
      BY <3>4, <3>5
  <2>8. TasksBalance(at)'
    <3>1. PICK A, B, p, r, p2, r2 : /\ A = Cardinality(RowsOf("TASK")) /\ B = Len(Table("TASK").rows)
                                    /\ p = Accepted /\ r = Refused("TASK")
                                    /\ p2 = Accepted' /\ r2 = Refused("TASK")'
      OBVIOUS
    <3>2. A + at = B + p + r
      BY <3>1 DEF Answered, TasksBalance
    <3>3. A \in Nat /\ B \in Nat /\ p \in Nat /\ r \in Nat
      BY <2>7, <3>1, AcceptedIs, Counts, Named_
    <3>4. \/ p2 = p + 1 /\ r2 = r
          \/ p2 = p /\ r2 = r + 1
      BY <2>6, <2>7, <3>1
    <3>5. A + (at + 1) = B + p2 + r2
      BY <3>2, <3>3, <3>4
    <3> QED
      BY <1>1, <1>4, <3>1, <3>5 DEF TasksBalance
  <2>9. PredsBalance(0)'
    <3>1. report'.relationships = report.relationships /\ report'.excluded_edges = report.excluded_edges
      BY <1>3 DEF Answers
    <3> QED
      BY <1>4, <2>7, <3>1 DEF Answered, PredsBalance
  <2> QED
    BY <2>8, <2>9
<1>11. ListedOnce(at)'
  <2> SUFFICES ASSUME NEW x, x # None
               PROVE  Listed(x)' = Cardinality({m \in 1 .. at' : Says("TASK", m, "task_code") = x})
    BY <1>5 DEF ListedOnce
  <2>1. \A f \in Answers : /\ Tally(report[f], f, x) \in Nat
                           /\ Tally(report'[f], f, x) = IF f = g /\ x = code THEN Tally(report[f], f, x) + 1
                                                        ELSE Tally(report[f], f, x)
    <3> SUFFICES ASSUME NEW f \in Answers
                 PROVE  /\ Tally(report[f], f, x) \in Nat
                        /\ Tally(report'[f], f, x) = IF f = g /\ x = code THEN Tally(report[f], f, x) + 1
                                                     ELSE Tally(report[f], f, x)
      OBVIOUS
    <3>1. PICK s : s = report[f] /\ IsSeq(s)
      BY <1>9
    <3>2. /\ Tally(s, f, x) \in Nat
          /\ IsAbout(f, e, x) => Tally(Append(s, e), f, x) = Tally(s, f, x) + 1
          /\ ~IsAbout(f, e, x) => Tally(Append(s, e), f, x) = Tally(s, f, x)
      BY <3>1, OneTallied
    <3>3. CASE f = g
      <4>1. IsAbout(f, e, x) <=> x = code
        BY <1>13, <3>3 DEF IsAbout, Answers
      <4> QED
        BY <1>13, <3>1, <3>2, <3>3, <4>1
    <3>4. CASE f # g
      BY <1>3, <3>1, <3>2, <3>4
    <3> QED
      BY <3>3, <3>4
  <2>2. PICK a, b, c, d, r :
          /\ a = Tally(report.activities, "activities", x) /\ b = Tally(report.excluded_loe, "excluded_loe", x)
          /\ c = Tally(report.excluded_wbs, "excluded_wbs", x)
          /\ d = Tally(report.excluded_project, "excluded_project", x) /\ r = Tally(report.rejected, "rejected", x)
    OBVIOUS
  <2>3. PICK a2, b2, c2, d2, r2 :
          /\ a2 = Tally(report'.activities, "activities", x) /\ b2 = Tally(report'.excluded_loe, "excluded_loe", x)
          /\ c2 = Tally(report'.excluded_wbs, "excluded_wbs", x)
          /\ d2 = Tally(report'.excluded_project, "excluded_project", x) /\ r2 = Tally(report'.rejected, "rejected", x)
    OBVIOUS
  <2>4. Listed(x) = a + b + c + d + r /\ Listed(x)' = a2 + b2 + c2 + d2 + r2
    BY <2>2, <2>3 DEF Listed
  <2>5. a \in Nat /\ b \in Nat /\ c \in Nat /\ d \in Nat /\ r \in Nat
    BY <2>1, <2>2 DEF Answers
  <2>6. Listed(x)' = IF x = code THEN Listed(x) + 1 ELSE Listed(x)
    <3>1. a2 = IF g = "activities" /\ x = code THEN a + 1 ELSE a
      BY <2>1, <2>2, <2>3 DEF Answers
    <3>2. b2 = IF g = "excluded_loe" /\ x = code THEN b + 1 ELSE b
      BY <2>1, <2>2, <2>3 DEF Answers
    <3>3. c2 = IF g = "excluded_wbs" /\ x = code THEN c + 1 ELSE c
      BY <2>1, <2>2, <2>3 DEF Answers
    <3>4. d2 = IF g = "excluded_project" /\ x = code THEN d + 1 ELSE d
      BY <2>1, <2>2, <2>3 DEF Answers
    <3>5. r2 = IF g = "rejected" /\ x = code THEN r + 1 ELSE r
      BY <2>1, <2>2, <2>3 DEF Answers
    <3> QED
      BY <2>4, <2>5, <3>1, <3>2, <3>3, <3>4, <3>5 DEF Answers
  <2>7. PICK K, L : /\ K = {m \in 1 .. at : Says("TASK", m, "task_code") = x}
                    /\ L = {m \in 1 .. at' : Says("TASK", m, "task_code") = x}
    OBVIOUS
  <2>8. L = IF x = code THEN K \cup {at + 1} ELSE K
    BY <1>6, <1>8, <2>7
  <2>9. K \subseteq 1 .. at
    BY <2>7
  <2>10. Cardinality(K) \in Nat /\ Cardinality(K \cup {at + 1}) = Cardinality(K) + 1
    BY <2>9, Counting
  <2>11. Listed(x) = Cardinality(K)
    BY <2>7 DEF Answered, ListedOnce
  <2> QED
    BY <2>6, <2>7, <2>8, <2>10, <2>11
<1>12. Apart(at, 0)'
  <2>1. \A i : Settled(i, at, 0) => Settled(i, at, 0)'
    BY <1>4, <1>5, <1>8 DEF Settled
  <2>2. CASE g # "rejected"
    <3>1. report'.rejected = report.rejected
      BY <1>3, <2>2 DEF Answers
    <3> QED
      BY <1>1, <2>1, <3>1 DEF Answered, Apart
  <2>3. CASE g = "rejected"
    <3>1. PICK s, t : s = report.rejected /\ t = report'.rejected /\ IsSeq(s)
      BY <1>9 DEF Answers
    <3>2. t = Append(s, e) /\ e.row = LineOf("TASK", at + 1)
      BY <1>13, <1>6, <2>3, <3>1
    <3>3. /\ \A k \in DOMAIN s : s[k].row \in 1 .. line /\ Settled(s[k].row, at, 0)
          /\ \A j, k \in DOMAIN s : s[j].row = s[k].row => j = k
      BY <3>1 DEF Answered, Apart
    <3>4. /\ LineOf("TASK", at + 1) \in Whole("TASK")
          /\ \A m \in 1 .. at : LineOf("TASK", m) # LineOf("TASK", at + 1)
      BY <1>8, RowsSay, Named_ DEF Tasks
    <3>5. ~Settled(LineOf("TASK", at + 1), at, 0)
      <4>1. 1 .. 0 = {}
        OBVIOUS
      <4> QED
        BY <3>4, <4>1, Named_ DEF Settled
    <3>6. \A k \in DOMAIN s : s[k].row # e.row
      BY <3>2, <3>3, <3>5
    <3>7. /\ \A j, k \in DOMAIN t : t[j].row = t[k].row => j = k
          /\ \A k \in DOMAIN t : \/ k \in DOMAIN s /\ t[k] = s[k]
                               \/ t[k] = e
      <4>1. IsSeq(s) /\ t = Append(s, e)
        BY <3>1, <3>2
      <4>2. \A j, k \in DOMAIN s : s[j].row = s[k].row => j = k
        BY <3>3
      <4> QED
        BY <4>1, <4>2, <3>6, OneRefused
    <3>8. e.row \in 1 .. line /\ Settled(e.row, at, 0)'
      <4>1. e.row \in 1 .. line
        BY <3>2, <3>4 DEF Whole, RowsOf
      <4>2. Settled(e.row, at, 0)'
        BY <1>5, <1>8, <3>2 DEF Settled
      <4> QED
        BY <4>1, <4>2
    <3>9. \A k \in DOMAIN t : t[k].row \in 1 .. line' /\ Settled(t[k].row, at, 0)'
      BY <1>1, <2>1, <3>3, <3>7, <3>8
    <3> QED
      BY <3>1, <3>7, <3>9 DEF Apart
  <2> QED
    BY <2>2, <2>3
<1> QED
  BY <1>10, <1>11, <1>12 DEF Answered

(* A TASKPRED row answered for, the TASK rows all being so.                *)
LEMMA PredKeepsAnswers ==
  ASSUME Read, PredStep, IsReport(report), at \in Nat, NEW a, a = Len(Tasks.rows), Answered(a, at)
  PROVE  Answered(a, at)'
<1>1. /\ at < Len(Preds.rows) /\ at' = at + 1 /\ tables' = tables /\ line' = line
      /\ \/ /\ report'.excluded_edges = report.excluded_edges + 1
            /\ \A f \in ReportFields \ {"excluded_edges"} : report'[f] = report[f]
         \/ /\ \E e : /\ report'.rejected = Append(report.rejected, e)
                      /\ e.row = LineOf("TASKPRED", at + 1) /\ e.table = "TASKPRED"
            /\ \A f \in ReportFields \ {"rejected"} : report'[f] = report[f]
         \/ /\ \E e : report'.relationships = Append(report.relationships, e)
            /\ \A f \in ReportFields \ {"relationships"} : report'[f] = report[f]
  BY PredAnswered
<1>2. \A name : Table(name)' = Table(name) /\ Whole(name)' = Whole(name) /\ RowsOf(name)' = RowsOf(name)
  BY KeepsExport, ReadAlready DEF PredStep, Resolving
<1>3. /\ \A name, m : LineOf(name, m)' = LineOf(name, m)
      /\ \A m, f : Says("TASK", m, f)' = Says("TASK", m, f)
  BY <1>1, SaysAgain
<1>4. IsSeq(Preds.rows) /\ IsSeq(Tasks.rows)
  BY RowsSay, Named_ DEF Preds, Tasks
<1>5. 1 .. at' = (1 .. at) \cup {at + 1} /\ at + 1 \notin 1 .. at
      /\ at + 1 \in DOMAIN Preds.rows /\ 1 .. at \subseteq DOMAIN Preds.rows
      /\ 1 .. a = DOMAIN Tasks.rows
  BY <1>1, <1>4, SeqIs
<1>6. /\ report'.activities = report.activities /\ report'.excluded_loe = report.excluded_loe
      /\ report'.excluded_wbs = report.excluded_wbs /\ report'.excluded_project = report.excluded_project
  BY <1>1 DEF ReportFields, Answers
<1>7. \/ /\ report'.excluded_edges = report.excluded_edges + 1
         /\ report'.relationships = report.relationships /\ report'.rejected = report.rejected
      \/ /\ \E e : /\ report'.rejected = Append(report.rejected, e)
                   /\ e.row = LineOf("TASKPRED", at + 1) /\ e.table = "TASKPRED"
         /\ report'.excluded_edges = report.excluded_edges /\ report'.relationships = report.relationships
      \/ /\ \E e : report'.relationships = Append(report.relationships, e)
         /\ report'.excluded_edges = report.excluded_edges /\ report'.rejected = report.rejected
  BY <1>1 DEF ReportFields, Answers
<1>8. Accepted' = Accepted
  BY <1>6 DEF Accepted
<1>9. PICK s, t : s = report.rejected /\ t = report'.rejected
  OBVIOUS
<1>10. IsSeq(s)
  BY <1>9 DEF IsReport, Answers
<1>11. ASSUME NEW e, t = Append(s, e), e.row = LineOf("TASKPRED", at + 1), e.table = "TASKPRED"
       PROVE  /\ Refused("TASK")' = Refused("TASK") /\ Refused("TASKPRED")' = Refused("TASKPRED") + 1
              /\ \A x : Tally(t, "rejected", x) = Tally(s, "rejected", x)
              /\ Apart(a, at)'
  <2>a. t = Append(s, e)
    BY <1>11
  <2>b. e.row = LineOf("TASKPRED", at + 1) /\ e.table = "TASKPRED"
    BY <1>11
  <2>1. \A list, x : /\ IsAbout(list, e, x) => Tally(t, list, x) = Tally(s, list, x) + 1
                     /\ ~IsAbout(list, e, x) => Tally(t, list, x) = Tally(s, list, x)
    BY <1>10, <2>a, OneTallied
  <2>2. \A name : Refused(name) = Tally(s, "refused", name) /\ Refused(name)' = Tally(t, "refused", name)
    BY <1>9 DEF Refused
  <2>3. IsAbout("refused", e, "TASKPRED") /\ ~IsAbout("refused", e, "TASK") /\ \A x : ~IsAbout("rejected", e, x)
    BY <2>b DEF IsAbout
  <2>4. Refused("TASK")' = Refused("TASK") /\ Refused("TASKPRED")' = Refused("TASKPRED") + 1
    BY <2>1, <2>2, <2>3
  <2>5. \A x : Tally(t, "rejected", x) = Tally(s, "rejected", x)
    BY <2>1, <2>3
  <2>6. \A k \in DOMAIN s : s[k].row \in 1 .. line /\ Settled(s[k].row, a, at)
    BY <1>9 DEF Answered, Apart
  <2>7. \A j, k \in DOMAIN s : s[j].row = s[k].row => j = k
    BY <1>9 DEF Answered, Apart
  <2>8. /\ e.row \in Whole("TASKPRED") /\ \A m \in 1 .. at : LineOf("TASKPRED", m) # e.row
        /\ \A m \in 1 .. a : LineOf("TASK", m) \in Whole("TASK")
    BY <1>5, <2>b, RowsSay, Named_ DEF Tasks, Preds
  <2>9. ~Settled(e.row, a, at)
    BY <2>8, SectionsApart, Named_ DEF Settled
  <2>10. \A k \in DOMAIN s : s[k].row # e.row
    BY <2>6, <2>9
  <2>11. /\ \A j, k \in DOMAIN t : t[j].row = t[k].row => j = k
         /\ \A k \in DOMAIN t : \/ k \in DOMAIN s /\ t[k] = s[k]
                                \/ t[k] = e
    BY <1>10, <2>7, <2>10, <2>a, OneRefused
  <2>12. \A i : Settled(i, a, at) => Settled(i, a, at)'
    BY <1>2, <1>3, <1>5 DEF Settled
  <2>13. e.row \in 1 .. line /\ Settled(e.row, a, at)'
    <3>1. e.row \in 1 .. line
      BY <2>8 DEF Whole, RowsOf
    <3>2. Settled(e.row, a, at)'
      BY <1>3, <1>5, <2>b DEF Settled
    <3> QED
      BY <3>1, <3>2
  <2>14. \A k \in DOMAIN t : t[k].row \in 1 .. line' /\ Settled(t[k].row, a, at)'
    BY <1>1, <2>6, <2>11, <2>12, <2>13
  <2>15. Apart(a, at)'
    BY <1>9, <2>11, <2>14 DEF Apart
  <2> QED
    BY <2>4, <2>5, <2>15
<1>12. ASSUME t = s
       PROVE  /\ Refused("TASK")' = Refused("TASK") /\ Refused("TASKPRED")' = Refused("TASKPRED")
              /\ \A x : Tally(t, "rejected", x) = Tally(s, "rejected", x)
              /\ Apart(a, at)'
  <2>1. \A i : Settled(i, a, at) => Settled(i, a, at)'
    BY <1>2, <1>3, <1>5 DEF Settled
  <2>2. Apart(a, at)'
    BY <1>1, <1>9, <1>12, <2>1 DEF Answered, Apart
  <2> QED
    BY <1>9, <1>12, <2>2 DEF Refused
<1>13. /\ Refused("TASK")' = Refused("TASK") /\ \A x : Tally(t, "rejected", x) = Tally(s, "rejected", x)
       /\ Apart(a, at)'
  BY <1>7, <1>9, <1>11, <1>12
<1>14. TasksBalance(a)'
  BY <1>2, <1>8, <1>13 DEF Answered, TasksBalance
<1>15. ListedOnce(a)'
  <2>1. \A x : Listed(x)' = Listed(x)
    BY <1>6, <1>9, <1>13 DEF Listed
  <2> QED
    BY <1>3, <2>1 DEF Answered, ListedOnce
<1>16. PredsBalance(at)'
  <2>1. PICK A, B, p, q, r, p2, q2, r2 :
          /\ A = Cardinality(RowsOf("TASKPRED")) /\ B = Len(Table("TASKPRED").rows)
          /\ p = Len(report.relationships) /\ q = report.excluded_edges /\ r = Refused("TASKPRED")
          /\ p2 = Len(report'.relationships) /\ q2 = report'.excluded_edges /\ r2 = Refused("TASKPRED")'
    OBVIOUS
  <2>2. A + at = B + p + q + r
    BY <2>1 DEF Answered, PredsBalance
  <2>3. A \in Nat /\ B \in Nat /\ p \in Nat /\ q \in Nat /\ r \in Nat /\ at \in Nat
    <3>1. r \in Nat
      BY <1>9, <1>10, <2>1, OneTallied DEF Refused
    <3> QED
      BY <2>1, <3>1, Counts, Named_
  <2>4. \/ p2 = p + 1 /\ q2 = q /\ r2 = r
        \/ p2 = p /\ q2 = q + 1 /\ r2 = r
        \/ p2 = p /\ q2 = q /\ r2 = r + 1
    <3>1. CASE t = s /\ report'.excluded_edges = report.excluded_edges + 1
               /\ report'.relationships = report.relationships
      BY <1>12, <2>1, <3>1
    <3>2. CASE /\ \E e : t = Append(s, e) /\ e.row = LineOf("TASKPRED", at + 1) /\ e.table = "TASKPRED"
               /\ report'.excluded_edges = report.excluded_edges /\ report'.relationships = report.relationships
      BY <1>11, <2>1, <3>2
    <3>3. CASE /\ \E e : report'.relationships = Append(report.relationships, e)
               /\ report'.excluded_edges = report.excluded_edges /\ t = s
      <4>1. PICK u : u = report.relationships /\ IsSeq(u)
        BY DEF IsReport
      <4>2. PICK e : report'.relationships = Append(u, e)
        BY <3>3, <4>1
      <4>3. Len(Append(u, e)) = Len(u) + 1
        BY <4>1, Appending
      <4> QED
        BY <1>12, <2>1, <3>3, <4>1, <4>2, <4>3
    <3> QED
      BY <1>7, <1>9, <3>1, <3>2, <3>3
  <2>5. A + (at + 1) = B + p2 + q2 + r2
    BY <2>2, <2>3, <2>4
  <2> QED
    BY <1>1, <1>2, <2>1, <2>5 DEF PredsBalance
<1> QED
  BY <1>13, <1>14, <1>15, <1>16 DEF Answered

(* A step that makes no answer.                                            *)
LEMMA AnswersStay ==
  ASSUME Read, NEW a, NEW b, Answered(a, b), UNCHANGED <<input, line, cellCount, tables>>,
         stage' \in Stages, stage' = "reading" => stage = "reading" /\ current' = current,
         \A f \in Answers \cup {"relationships", "excluded_edges"} : report'[f] = report[f]
  PROVE  Answered(a, b)'
<1>1. \A name : Table(name)' = Table(name) /\ Whole(name)' = Whole(name) /\ RowsOf(name)' = RowsOf(name)
  BY ReadAlready
<1>2. /\ \A name, m : LineOf(name, m)' = LineOf(name, m)
      /\ \A m, f : Says("TASK", m, f)' = Says("TASK", m, f)
  BY SaysAgain
<1>3. /\ report'.activities = report.activities /\ report'.excluded_loe = report.excluded_loe
      /\ report'.excluded_wbs = report.excluded_wbs /\ report'.excluded_project = report.excluded_project
      /\ report'.rejected = report.rejected /\ report'.relationships = report.relationships
      /\ report'.excluded_edges = report.excluded_edges
  BY DEF Answers
<1>4. Accepted' = Accepted /\ \A x : Refused(x)' = Refused(x) /\ Listed(x)' = Listed(x)
  BY <1>3 DEF Accepted, Refused, Listed
<1>5. TasksBalance(a)' /\ PredsBalance(b)'
  BY <1>1, <1>3, <1>4 DEF Answered, TasksBalance, PredsBalance
<1>6. ListedOnce(a)'
  BY <1>2, <1>4 DEF Answered, ListedOnce
<1>7. \A i : Settled(i, a, b) => Settled(i, a, b)'
  BY <1>1, <1>2 DEF Settled
<1>8. Apart(a, b)'
  BY <1>3, <1>7 DEF Answered, Apart
<1> QED
  BY <1>5, <1>6, <1>8 DEF Answered

-----------------------------------------------------------------------------
(* The quarantine listed by line is the quarantine.                        *)
LEMMA OneForOne ==
  ASSUME NEW S, NEW T, NEW f \in [S -> T], IsFiniteSet(S),
         \A x, y \in S : f[x] = f[y] => x = y,
         \A t \in T : \E x \in S : f[x] = t
  PROVE  IsFiniteSet(T) /\ Cardinality(T) = Cardinality(S)
<1>1. f \in Injection(S, T) /\ f \in Surjection(S, T)
  BY DEF Injection, Surjection, IsInjective
<1> QED
  BY <1>1, FS_Surjection

LEMMA OntoItself ==
  ASSUME NEW S, IsFiniteSet(S), NEW f \in [S -> S], \A x, y \in S : f[x] = f[y] => x = y
  PROVE  \A t \in S : \E x \in S : f[x] = t
<1>1. f \in Injection(S, S)
  BY DEF Injection, IsInjective
<1>2. f \in Surjection(S, S)
  BY <1>1, FS_Injection
<1> QED
  BY <1>2 DEF Surjection

Precedes(list, j, k) == list[j].row < list[k].row \/ (list[j].row = list[k].row /\ j <= k)
UpTo(list, k) == {j \in DOMAIN list : Precedes(list, j, k)}

LEMMA PlacesApart ==
  ASSUME NEW s, IsSeq(s), \A k \in DOMAIN s : s[k].row \in Int
  PROVE  /\ \A k \in DOMAIN s : Place(s, k) \in DOMAIN s
         /\ \A j, k \in DOMAIN s : Place(s, j) = Place(s, k) => j = k
<1>1. PICK n : n = Len(s) /\ n \in Nat /\ DOMAIN s = 1 .. n
  BY SeqIs
<1>2. IsFiniteSet(1 .. n) /\ Cardinality(1 .. n) = n
  <2>1. 1 \in Int /\ n \in Int
    BY <1>1
  <2>2. IsFiniteSet(1 .. n) /\ Cardinality(1 .. n) = IF 1 > n THEN 0 ELSE n - 1 + 1
    BY <2>1, FS_Interval
  <2> QED
    BY <1>1, <2>2
<1>3. \A k : Place(s, k) = Cardinality(UpTo(s, k))
  BY DEF Place, UpTo, Precedes
<1>4. \A k : UpTo(s, k) \subseteq 1 .. n
  BY <1>1 DEF UpTo
<1>5. \A k : IsFiniteSet(UpTo(s, k)) /\ Cardinality(UpTo(s, k)) \in Nat /\ Cardinality(UpTo(s, k)) <= n
  BY <1>2, <1>4, FS_Subset, FS_CardinalityType
<1>6. \A k \in DOMAIN s : k \in UpTo(s, k)
  BY <1>1 DEF UpTo, Precedes
<1>7. \A k \in DOMAIN s : Place(s, k) \in DOMAIN s
  <2> SUFFICES ASSUME NEW k \in DOMAIN s PROVE Place(s, k) \in DOMAIN s
    OBVIOUS
  <2>1. Cardinality(UpTo(s, k)) # 0
    BY <1>5, <1>6, FS_EmptySet
  <2> QED
    BY <1>1, <1>3, <1>5, <2>1
<1>8. ASSUME NEW j \in DOMAIN s, NEW k \in DOMAIN s, j # k, Precedes(s, j, k)
      PROVE  Place(s, j) # Place(s, k)
  <2>1. UpTo(s, j) \subseteq UpTo(s, k)
    <3>1. \A i \in DOMAIN s : Precedes(s, i, j) => Precedes(s, i, k)
      BY <1>1, <1>8 DEF Precedes
    <3> QED
      BY <3>1 DEF UpTo
  <2>2. k \notin UpTo(s, j)
    BY <1>1, <1>8 DEF UpTo, Precedes
  <2>3. UpTo(s, j) # UpTo(s, k)
    BY <1>6, <2>2
  <2> QED
    BY <1>3, <1>5, <2>1, <2>3, FS_Subset
<1>9. \A j, k \in DOMAIN s : Precedes(s, j, k) \/ Precedes(s, k, j)
  BY <1>1 DEF Precedes
<1> QED
  BY <1>7, <1>8, <1>9

LEMMA Reordered ==
  ASSUME NEW s, IsSeq(s), \A k \in DOMAIN s : s[k].row \in Int
  PROVE  \E f \in [DOMAIN s -> DOMAIN s] :
           /\ \A m, n \in DOMAIN s : f[m] = f[n] => m = n
           /\ \A k \in DOMAIN s : \E m \in DOMAIN s : f[m] = k
           /\ ByRow(s) = [m \in DOMAIN s |-> s[f[m]]]
<1>1. PICK g : g = [k \in DOMAIN s |-> Place(s, k)]
  OBVIOUS
<1>2. g \in [DOMAIN s -> DOMAIN s] /\ \A j, k \in DOMAIN s : g[j] = g[k] => j = k
  BY <1>1, PlacesApart
<1>3. IsFiniteSet(DOMAIN s)
  BY SeqIs, FS_Interval
<1>4. \A m \in DOMAIN s : \E k \in DOMAIN s : g[k] = m
  BY <1>2, <1>3, OntoItself
<1>5. PICK f : f = [m \in DOMAIN s |-> CHOOSE k \in DOMAIN s : Place(s, k) = m]
  OBVIOUS
<1>6. \A m \in DOMAIN s : f[m] \in DOMAIN s /\ Place(s, f[m]) = m
  BY <1>1, <1>4, <1>5
<1>7. f \in [DOMAIN s -> DOMAIN s] /\ \A m, n \in DOMAIN s : f[m] = f[n] => m = n
  BY <1>5, <1>6
<1>8. \A k \in DOMAIN s : \E m \in DOMAIN s : f[m] = k
  BY <1>6, PlacesApart
<1>9. ByRow(s) = [m \in DOMAIN s |-> s[f[m]]]
  BY <1>5 DEF ByRow
<1> QED
  BY <1>7, <1>8, <1>9

LEMMA SameWhenReordered ==
  ASSUME NEW s, IsSeq(s), \A k \in DOMAIN s : s[k].row \in Int
  PROVE  /\ IsSeq(ByRow(s)) /\ DOMAIN ByRow(s) = DOMAIN s
         /\ \A list, x : Tally(ByRow(s), list, x) = Tally(s, list, x)
         /\ \A k \in DOMAIN s : \E m \in DOMAIN s : ByRow(s)[k] = s[m]
         /\ (\A j, k \in DOMAIN s : s[j].row = s[k].row => j = k)
              => \A j, k \in DOMAIN s : ByRow(s)[j].row = ByRow(s)[k].row => j = k
<1>1. PICK f \in [DOMAIN s -> DOMAIN s] :
        /\ \A m, n \in DOMAIN s : f[m] = f[n] => m = n
        /\ \A k \in DOMAIN s : \E m \in DOMAIN s : f[m] = k
        /\ ByRow(s) = [m \in DOMAIN s |-> s[f[m]]]
  BY Reordered
<1>2. PICK t : t = ByRow(s)
  OBVIOUS
<1>3. DOMAIN t = DOMAIN s /\ \A m \in DOMAIN s : t[m] = s[f[m]] /\ f[m] \in DOMAIN s
  BY <1>1, <1>2
<1>4. PICK n : n = Len(s) /\ n \in Nat /\ DOMAIN s = 1 .. n
  BY SeqIs
<1>5. IsSeq(t)
  <2>1. t \in [1 .. n -> {t[m] : m \in DOMAIN t}]
    BY <1>1, <1>2, <1>3, <1>4
  <2>2. t \in Seq({t[m] : m \in DOMAIN t})
    BY <1>4, <2>1
  <2> QED
    BY <2>2 DEF IsSeq, ToSet
<1>6. ASSUME NEW list, NEW x PROVE Tally(t, list, x) = Tally(s, list, x)
  <2>1. PICK K, L : K = {k \in DOMAIN s : IsAbout(list, s[k], x)} /\ L = {k \in DOMAIN t : IsAbout(list, t[k], x)}
    OBVIOUS
  <2>2. PICK g : g = [k \in L |-> f[k]]
    OBVIOUS
  <2>3. g \in [L -> K]
    BY <1>3, <2>1, <2>2
  <2>4. \A j, k \in L : g[j] = g[k] => j = k
    BY <1>1, <1>3, <2>1, <2>2
  <2>5. \A k \in K : \E m \in L : g[m] = k
    BY <1>1, <1>3, <2>1, <2>2
  <2>6. IsFiniteSet(L)
    <3>1. L \subseteq 1 .. n
      BY <1>3, <1>4, <2>1
    <3> QED
      BY <1>4, <3>1, Counting
  <2>7. Cardinality(K) = Cardinality(L)
    BY <2>3, <2>4, <2>5, <2>6, OneForOne
  <2> QED
    BY <2>1, <2>7 DEF Tally
<1>7. ASSUME \A j, k \in DOMAIN s : s[j].row = s[k].row => j = k
      PROVE  \A j, k \in DOMAIN s : t[j].row = t[k].row => j = k
  BY <1>1, <1>3, <1>7
<1> QED
  BY <1>2, <1>3, <1>5, <1>6, <1>7

(* The last step, which puts the quarantine in order.                      *)
LEMMA AnswersInOrder ==
  ASSUME Read, IsReport(report), LogicDone, NEW a, NEW b, Answered(a, b)
  PROVE  /\ Answered(a, b)' /\ IsReport(report')
         /\ \A f \in ReportFields \ {"rejected"} : report'[f] = report[f]
<1>1. UNCHANGED <<input, line, at, current, tables, cellCount, ctx, codeOf, absent>>
  BY DEF LogicDone
<1>2. PICK s, t : s = report.rejected /\ t = ByRow(s)
  OBVIOUS
<1>3. /\ IsRecord(report') /\ report'.rejected = t
      /\ \A f \in ReportFields \ {"rejected"} : report'[f] = report[f]
  <2>1. PICK r, q : r = report /\ q = report'
    OBVIOUS
  <2>2. r = [f \in ReportFields |-> r[f]] /\ q = [r EXCEPT !["rejected"] = t] /\ "rejected" \in ReportFields
    BY <1>2, <2>1 DEF LogicDone, IsReport, IsRecord, ReportFields, Answers
  <2>3. q = [f \in ReportFields |-> q[f]] /\ \A f \in ReportFields : q[f] = IF f = "rejected" THEN t ELSE r[f]
    BY <2>2, ReportWith
  <2> QED
    BY <2>1, <2>2, <2>3 DEF IsRecord
<1>4. IsSeq(s)
  BY <1>2 DEF IsReport, Answers
<1>5. \A k \in DOMAIN s : s[k].row \in 1 .. line /\ Settled(s[k].row, a, b)
  BY <1>2 DEF Answered, Apart
<1>6. \A k \in DOMAIN s : s[k].row \in Int
  BY <1>5 DEF Read
<1>7. \A j, k \in DOMAIN s : s[j].row = s[k].row => j = k
  BY <1>2 DEF Answered, Apart
<1>8. /\ IsSeq(t) /\ DOMAIN t = DOMAIN s
      /\ \A list, x : Tally(t, list, x) = Tally(s, list, x)
      /\ \A k \in DOMAIN s : \E m \in DOMAIN s : t[k] = s[m]
  BY <1>2, <1>4, <1>6, SameWhenReordered
<1>9. \A j, k \in DOMAIN t : t[j].row = t[k].row => j = k
  BY <1>2, <1>4, <1>6, <1>7, SameWhenReordered
<1>10. IsReport(report')
  <2>1. \A f \in Answers \cup {"relationships", "excluded_edges"} : f # "rejected" => report'[f] = report[f]
    BY <1>3 DEF ReportFields, Answers
  <2> QED
    BY <1>3, <1>8, <2>1 DEF IsReport
<1>11. \A name : Table(name)' = Table(name) /\ Whole(name)' = Whole(name) /\ RowsOf(name)' = RowsOf(name)
  <2>1. stage' = "done" /\ "done" \in Stages /\ "done" # "reading"
    BY DEF LogicDone, Stages
  <2> QED
    BY <1>1, <2>1, ReadAlready
<1>12. /\ \A name, m : LineOf(name, m)' = LineOf(name, m)
       /\ \A m, f : Says("TASK", m, f)' = Says("TASK", m, f)
  BY <1>1, SaysAgain
<1>13. /\ report'.activities = report.activities /\ report'.excluded_loe = report.excluded_loe
       /\ report'.excluded_wbs = report.excluded_wbs /\ report'.excluded_project = report.excluded_project
       /\ report'.relationships = report.relationships /\ report'.excluded_edges = report.excluded_edges
  BY <1>3 DEF ReportFields, Answers
<1>14. \A x : Refused(x)' = Refused(x) /\ Listed(x)' = Listed(x)
  BY <1>2, <1>3, <1>8, <1>13 DEF Refused, Listed
<1>15. TasksBalance(a)' /\ PredsBalance(b)'
  BY <1>11, <1>13, <1>14 DEF Answered, TasksBalance, PredsBalance, Accepted
<1>16. ListedOnce(a)'
  BY <1>12, <1>14 DEF Answered, ListedOnce
<1>17. \A i : Settled(i, a, b) => Settled(i, a, b)'
  BY <1>11, <1>12 DEF Settled
<1>18. Apart(a, b)'
  <2>1. \A k \in DOMAIN t : t[k].row \in 1 .. line' /\ Settled(t[k].row, a, b)'
    BY <1>1, <1>5, <1>8, <1>17
  <2> QED
    BY <1>3, <1>9, <2>1 DEF Apart
<1> QED
  BY <1>3, <1>10, <1>15, <1>16, <1>18 DEF Answered

-----------------------------------------------------------------------------
(* What is told at each stage.                                             *)
Unanswered ==
  /\ at = 0 /\ DOMAIN codeOf = {} /\ DOMAIN absent = {} /\ DOMAIN report.activities = {}
  /\ Len(report.relationships) = 0 /\ Accepted = 0
Told ==
  /\ IsReport(report)
  /\ stage \in {"reading", "tables"} => Unanswered /\ Answered(0, 0) /\ TablesOfRefused
  /\ stage = "tasks" => /\ at \in 0 .. Len(Tasks.rows) /\ Len(report.relationships) = 0
                        /\ Answered(at, 0) /\ Known(at)
  /\ stage = "logic" => /\ at \in 0 .. Len(Preds.rows) /\ Answered(Len(Tasks.rows), at)
                        /\ Known(Len(Tasks.rows)) /\ Logical(at)
  /\ stage = "done" => /\ Answered(Len(Tasks.rows), Len(Preds.rows))
                       /\ Known(Len(Tasks.rows)) /\ Logical(Len(Preds.rows))
  /\ stage \notin {"reading", "tables"} => report.task_rows = Cardinality(RowsOf("TASK"))

LEMMA KnownStays ==
  ASSUME NEW n, Known(n), UNCHANGED <<tables, codeOf, absent>>, report'.activities = report.activities
  PROVE  Known(n)'
<1>1. (\A m, f : Says("TASK", m, f)' = Says("TASK", m, f)) /\ RowsNamedOnce' = RowsNamedOnce
  BY SaysAgain
<1>2. \A c : Served(c)' = Served(c)
  BY DEF Served
<1>3. IdsKnown(n)'
  BY <1>1, <1>2 DEF Known, IdsKnown
<1>4. CodesKnown(n)'
  BY <1>1, <1>2 DEF Known, CodesKnown
<1>5. AbsentKnown(n)'
  BY <1>1 DEF Known, AbsentKnown
<1>6. NeverBoth'
  BY <1>1 DEF Known, NeverBoth
<1> QED
  BY <1>3, <1>4, <1>5, <1>6 DEF Known

LEMMA LogicStays ==
  ASSUME NEW n, Logical(n), UNCHANGED <<tables, codeOf>>, report'.relationships = report.relationships
  PROVE  Logical(n)'
<1>1. (\A m, f : Says("TASKPRED", m, f)' = Says("TASKPRED", m, f)) /\ RowsNamedOnce' = RowsNamedOnce
  BY SaysAgain
<1>2. \A k : Joins(k)' = Joins(k)
  BY <1>1 DEF Joins
<1>3. \A r, k : Joined(r, k)' = Joined(r, k)
  BY <1>1 DEF Joined
<1> QED
  BY <1>1, <1>2, <1>3 DEF Logical

LEMMA InitTold ==
  ASSUME Init
  PROVE  Told
<1>1. /\ stage = "reading" /\ line = 0 /\ at = 0 /\ tables = << >> /\ codeOf = << >> /\ absent = << >>
      /\ report = NoReport
  BY DEF Init
<1>2. /\ report.activities = << >> /\ report.relationships = << >> /\ report.rejected = << >>
      /\ report.excluded_loe = << >> /\ report.excluded_wbs = << >> /\ report.excluded_project = << >>
      /\ report.excluded_edges = 0
  BY <1>1 DEF NoReport
<1>3. IsRecord(report)
  BY <1>1 DEF NoReport, IsRecord, ReportFields, Answers
<1>4. IsSeq(<< >>) /\ Len(<< >>) = 0 /\ DOMAIN << >> = {}
  BY DEF IsSeq
<1>5. \A f \in Answers \cup {"relationships"} : IsSeq(report[f])
  BY <1>2, <1>4 DEF Answers
<1>6. IsReport(report)
  BY <1>2, <1>3, <1>5 DEF IsReport
<1>7. Accepted = 0
  BY <1>2, <1>4 DEF Accepted
<1>8. \A name : RowsOf(name) = {} /\ Whole(name) = {}
  BY <1>1 DEF RowsOf, Whole
<1>9. \A name : Table(name).rows = << >>
  BY <1>1, <1>4 DEF Table, Empty
<1>10. \A list, x : Tally(<< >>, list, x) = 0
  BY <1>4, FS_EmptySet DEF Tally
<1>11. TasksBalance(0) /\ PredsBalance(0)
  <2>1. \A name : Cardinality(RowsOf(name)) = 0 /\ Len(Table(name).rows) = 0 /\ Refused(name) = 0
    BY <1>2, <1>4, <1>8, <1>9, <1>10, FS_EmptySet DEF Refused
  <2>2. Len(report.relationships) = 0 /\ report.excluded_edges = 0
    BY <1>2, <1>4
  <2> QED
    BY <1>7, <2>1, <2>2 DEF TasksBalance, PredsBalance
<1>12. ListedOnce(0)
  <2>1. \A code : Listed(code) = 0
    BY <1>2, <1>10 DEF Listed
  <2>2. \A code : {m \in 1 .. 0 : Says("TASK", m, "task_code") = code} = {}
    OBVIOUS
  <2> QED
    BY <2>1, <2>2, FS_EmptySet DEF ListedOnce
<1>13. Apart(0, 0) /\ TablesOfRefused
  BY <1>2, <1>4 DEF Apart, TablesOfRefused
<1>14. Unanswered
  BY <1>1, <1>2, <1>4, <1>7 DEF Unanswered
<1> QED
  BY <1>1, <1>6, <1>11, <1>12, <1>13, <1>14 DEF Told, Answered

LEMMA ReadingTold ==
  ASSUME Read, Told, Reading
  PROVE  Told'
<1>1. /\ stage = "reading" /\ stage' \in {"reading", "tables"}
      /\ UNCHANGED <<input, at, ctx, codeOf, absent>>
      /\ IsReport(report') /\ \A f \in ReportFields \ {"rejected"} : report'[f] = report[f]
  BY LineAnswered DEF Told
<1>2. Unanswered /\ Answered(0, 0) /\ TablesOfRefused /\ IsReport(report)
  BY <1>1 DEF Told
<1>3. Answered(0, 0)' /\ TablesOfRefused'
  BY <1>2, LineKeepsAnswers
<1>4. /\ report'.activities = report.activities /\ report'.excluded_loe = report.excluded_loe
      /\ report'.excluded_wbs = report.excluded_wbs /\ report'.excluded_project = report.excluded_project
      /\ report'.relationships = report.relationships
  BY <1>1 DEF ReportFields, Answers
<1>5. Unanswered'
  BY <1>1, <1>2, <1>4 DEF Unanswered, Accepted
<1> QED
  BY <1>1, <1>3, <1>5 DEF Told

LEMMA EndTold ==
  ASSUME Read, Told, EndOfFile
  PROVE  Told'
<1>1. /\ stage = "reading" /\ stage' = "tables"
      /\ UNCHANGED <<input, line, at, current, tables, cellCount, codeOf, absent, report>>
  BY DEF EndOfFile, KeepsRead
<1>2. Unanswered /\ Answered(0, 0) /\ TablesOfRefused /\ IsReport(report)
  BY <1>1 DEF Told
<1>3. PICK a, b : a = 0 /\ b = 0
  OBVIOUS
<1>4. Answered(a, b)'
  BY <1>1, <1>2, <1>3, AnswersStay DEF Stages
<1>5. Unanswered' /\ TablesOfRefused'
  BY <1>1, <1>2 DEF Unanswered, TablesOfRefused, Accepted
<1> QED
  BY <1>1, <1>2, <1>3, <1>4, <1>5 DEF Told

(* What ResolveTables finds is put beside what was read.                   *)
LEMMA Resolves ==
  ASSUME ResolveTables, IsReport(report)
  PROVE  /\ stage = "tables" /\ stage' = "tasks"
         /\ UNCHANGED <<input, line, at, current, tables, cellCount, codeOf, absent>>
         /\ IsReport(report')
         /\ \A f \in Answers \cup {"relationships", "excluded_edges"} : report'[f] = report[f]
         /\ report'.task_rows = IF "TASK" \notin DOMAIN tables THEN 0
                                ELSE Len(Table("TASK").rows) + Count(report.rejected, LAMBDA r : r.table = "TASK")
         /\ report'.findings = resource_findings \cup findings_against(survey)
                \cup (IF map.projects = << >> /\ Cardinality(DOMAIN projects.all) > 1
                        THEN {[what |-> "many_projects"]} ELSE {})
                \cup {[what |-> "matched_by_label", name |-> s] :
                        s \in {q \in Slots : [t \in Slots |-> resolve_slot(map[t])][q].by = "label"}}
         /\ ctx'.slots = [s \in Slots |-> resolve_slot(map[s])]
<1>1. /\ stage = "tables" /\ stage' = "tasks"
      /\ UNCHANGED <<input, line, at, current, tables, cellCount, codeOf, absent>>
      /\ ctx'.slots = [s \in Slots |-> resolve_slot(map[s])]
  BY DEF ResolveTables
<1>2. PICK ms, es, tr, fs :
        /\ ms = skipped("material") /\ es = skipped("equipment")
        /\ tr = IF "TASK" \notin DOMAIN tables THEN 0
                ELSE Len(Table("TASK").rows) + Count(report.rejected, LAMBDA r : r.table = "TASK")
        /\ fs = resource_findings \cup findings_against(survey)
                \cup (IF map.projects = << >> /\ Cardinality(DOMAIN projects.all) > 1
                        THEN {[what |-> "many_projects"]} ELSE {})
                \cup {[what |-> "matched_by_label", name |-> s] :
                        s \in {q \in Slots : [t \in Slots |-> resolve_slot(map[t])][q].by = "label"}}
  OBVIOUS
<1>3. report' = [report EXCEPT !["material_skipped"] = ms, !["equipment_skipped"] = es,
                               !["task_rows"] = tr, !["findings"] = fs]
  BY <1>2 DEF ResolveTables
<1>4. PICK r, q1, q2, q3, q4 :
        /\ r = report /\ q1 = [r EXCEPT !["material_skipped"] = ms] /\ q2 = [q1 EXCEPT !["equipment_skipped"] = es]
        /\ q3 = [q2 EXCEPT !["task_rows"] = tr] /\ q4 = [q3 EXCEPT !["findings"] = fs]
  OBVIOUS
<1>5. r = [f \in ReportFields |-> r[f]]
      /\ {"material_skipped", "equipment_skipped", "task_rows", "findings"} \subseteq ReportFields
  BY <1>4 DEF IsReport, IsRecord, ReportFields
<1>6. q1 = [f \in ReportFields |-> q1[f]] /\ \A f \in ReportFields : q1[f] = IF f = "material_skipped" THEN ms ELSE r[f]
  BY <1>4, <1>5, ReportWith
<1>7. q2 = [f \in ReportFields |-> q2[f]] /\ \A f \in ReportFields : q2[f] = IF f = "equipment_skipped" THEN es ELSE q1[f]
  BY <1>4, <1>5, <1>6, ReportWith
<1>8. q3 = [f \in ReportFields |-> q3[f]] /\ \A f \in ReportFields : q3[f] = IF f = "task_rows" THEN tr ELSE q2[f]
  BY <1>4, <1>5, <1>7, ReportWith
<1>9. q4 = [f \in ReportFields |-> q4[f]] /\ \A f \in ReportFields : q4[f] = IF f = "findings" THEN fs ELSE q3[f]
  BY <1>4, <1>5, <1>8, ReportWith
<1>10. report' = q4
  BY <1>3, <1>4
<1>11. report'.task_rows = tr /\ report'.findings = fs
  BY <1>5, <1>8, <1>9, <1>10
<1>12. \A f \in Answers \cup {"relationships", "excluded_edges"} : report'[f] = report[f]
  BY <1>4, <1>6, <1>7, <1>8, <1>9, <1>10 DEF ReportFields, Answers
<1>13. IsRecord(report')
  BY <1>9, <1>10 DEF IsRecord
<1>14. IsReport(report')
  BY <1>12, <1>13 DEF IsReport
<1> QED
  BY <1>1, <1>2, <1>11, <1>12, <1>14

LEMMA TablesTold ==
  ASSUME Read, Told, ResolveTables
  PROVE  Told'
<1>1. /\ stage = "tables" /\ stage' = "tasks"
      /\ UNCHANGED <<input, line, at, current, tables, cellCount, codeOf, absent>>
      /\ IsReport(report')
      /\ \A f \in Answers \cup {"relationships", "excluded_edges"} : report'[f] = report[f]
      /\ report'.task_rows = IF "TASK" \notin DOMAIN tables THEN 0
                             ELSE Len(Table("TASK").rows) + Count(report.rejected, LAMBDA r : r.table = "TASK")
  BY Resolves DEF Told
<1>2. Unanswered /\ Answered(0, 0) /\ TablesOfRefused /\ IsReport(report)
  BY <1>1 DEF Told
<1>3. PICK a, b : a = 0 /\ b = 0
  OBVIOUS
<1>4. Answered(a, b)'
  BY <1>1, <1>2, <1>3, AnswersStay DEF Stages
<1>5. Known(a)'
  <2>1. DOMAIN codeOf' = {} /\ DOMAIN absent' = {} /\ \A c : ~Served(c)'
    BY <1>1, <1>2 DEF Unanswered, Served, Answers
  <2> QED
    BY <2>1 DEF Known, IdsKnown, CodesKnown, AbsentKnown, NeverBoth
<1>6. report'.task_rows = Cardinality(RowsOf("TASK"))
  <2>1. Cardinality(RowsOf("TASK")) = Len(Table("TASK").rows) + Refused("TASK")
        /\ Len(Table("TASK").rows) \in Nat /\ Refused("TASK") \in Nat
    <3>1. PICK A, B, r : A = Cardinality(RowsOf("TASK")) /\ B = Len(Table("TASK").rows) /\ r = Refused("TASK")
      OBVIOUS
    <3>2. A + 0 = B + 0 + r
      BY <1>2, <3>1 DEF Answered, TasksBalance, Unanswered
    <3>3. A \in Nat /\ B \in Nat
      BY <1>2, <3>1, Counts, Named_
    <3>4. r \in Nat
      <4>1. IsSeq(report.rejected)
        BY <1>2 DEF IsReport, Answers
      <4> QED
        BY <3>1, <4>1, OneTallied DEF Refused
    <3> QED
      BY <3>1, <3>2, <3>3, <3>4
  <2>2. Count(report.rejected, LAMBDA r : r.table = "TASK") = Refused("TASK")
    BY DEF Count, Refused, Tally, IsAbout
  <2>3. CASE "TASK" \notin DOMAIN tables
    <3>1. Len(Table("TASK").rows) = 0
      BY <2>3 DEF Table, Empty
    <3>2. \A k \in DOMAIN report.rejected : report.rejected[k].table # "TASK"
      BY <1>2, <2>3, Named_ DEF TablesOfRefused
    <3>3. {k \in DOMAIN report.rejected : IsAbout("refused", report.rejected[k], "TASK")} = {}
      BY <3>2 DEF IsAbout
    <3>4. Refused("TASK") = 0
      BY <3>3, FS_EmptySet DEF Refused, Tally
    <3> QED
      BY <1>1, <2>1, <2>3, <3>1, <3>4
  <2>4. CASE "TASK" \in DOMAIN tables
    BY <1>1, <2>1, <2>2, <2>4
  <2> QED
    BY <2>3, <2>4
<1>7. /\ RowsOf("TASK")' = RowsOf("TASK") /\ Tasks' = Tasks
  BY <1>1, ReadAlready, SaysAgain DEF Stages
<1>8. report'.relationships = report.relationships
  BY <1>1
<1>9. at' = 0 /\ Len(report'.relationships) = 0 /\ Len(Tasks.rows) \in Nat
  BY <1>1, <1>2, <1>8, Counts, Named_ DEF Unanswered, Tasks
<1>10. at' \in 0 .. Len(Tasks.rows)
  BY <1>9
<1>11. Answered(at, 0)' /\ Known(at)'
  BY <1>3, <1>4, <1>5, <1>9
<1> QED
  BY <1>1, <1>6, <1>7, <1>9, <1>10, <1>11 DEF Told

LEMMA TaskTold ==
  ASSUME Read, Told, TaskStep
  PROVE  Told'
<1>1. /\ stage = "tasks" /\ at < Len(Tasks.rows) /\ at' = at + 1 /\ IsReport(report')
      /\ UNCHANGED <<input, stage, line, current, tables, cellCount, ctx>>
      /\ \E g \in Answers : \A f \in ReportFields \ {g, "wall_clock_findings"} : report'[f] = report[f]
  BY TaskAnswered DEF Told
<1>2. /\ at \in 0 .. Len(Tasks.rows) /\ Len(report.relationships) = 0 /\ Answered(at, 0) /\ Known(at)
      /\ IsReport(report) /\ report.task_rows = Cardinality(RowsOf("TASK"))
  BY <1>1 DEF Told
<1>3. at \in Nat /\ IsSeq(Tasks.rows) /\ Len(Tasks.rows) \in Nat
  BY <1>2, RowsSay, SeqIs, Named_ DEF Tasks
<1>4. Answered(at, 0)' /\ Known(at)'
  BY <1>2, <1>3, TaskKeepsAnswers, KnownGrows
<1>5. report'.relationships = report.relationships /\ report'.task_rows = report.task_rows
  BY <1>1 DEF ReportFields, Answers
<1>6. Tasks' = Tasks /\ RowsOf("TASK")' = RowsOf("TASK")
  BY <1>1, ReadAlready, SaysAgain DEF Stages
<1>7. at' \in 0 .. Len(Tasks.rows)
  BY <1>1, <1>3
<1>8. Len(report'.relationships) = 0 /\ report'.task_rows = Cardinality(RowsOf("TASK"))
  BY <1>2, <1>5
<1> QED
  BY <1>1, <1>4, <1>6, <1>7, <1>8 DEF Told

LEMMA TasksDoneTold ==
  ASSUME Read, Told, TasksDone
  PROVE  Told'
<1>1. /\ stage = "tasks" /\ stage' = "logic" /\ at = Len(Tasks.rows) /\ at' = 0
      /\ UNCHANGED <<input, line, current, tables, cellCount, ctx, codeOf, absent, report>>
  BY DEF TasksDone
<1>2. /\ Len(report.relationships) = 0 /\ Answered(at, 0) /\ Known(at)
      /\ IsReport(report) /\ report.task_rows = Cardinality(RowsOf("TASK"))
  BY <1>1 DEF Told
<1>3. PICK a, b : a = Len(Tasks.rows) /\ b = 0
  OBVIOUS
<1>4. Answered(a, b) /\ Known(a)
  BY <1>1, <1>2, <1>3
<1>5. Answered(a, b)' /\ Known(a)'
  BY <1>1, <1>4, AnswersStay, KnownStays DEF Stages
<1>6. Logical(b)
  <2>1. {k \in 1 .. 0 : Joins(k)} = {} /\ 1 .. 0 = {}
    OBVIOUS
  <2> QED
    BY <1>2, <1>3, <2>1, FS_EmptySet DEF Logical
<1>7. Logical(b)'
  BY <1>1, <1>6, LogicStays
<1>8. Tasks' = Tasks /\ Preds' = Preds /\ RowsOf("TASK")' = RowsOf("TASK")
  BY <1>1, ReadAlready, SaysAgain DEF Stages
<1>9. at' \in 0 .. Len(Preds.rows)
  BY <1>1, Counts, Named_, <1>2 DEF Preds
<1>10. Answered(a, at)' /\ Logical(at)'
  BY <1>1, <1>3, <1>5, <1>7
<1> QED
  BY <1>1, <1>2, <1>3, <1>5, <1>8, <1>9, <1>10 DEF Told

LEMMA PredTold ==
  ASSUME Read, Told, PredStep
  PROVE  Told'
<1>1. /\ stage = "logic" /\ at < Len(Preds.rows) /\ at' = at + 1 /\ IsReport(report')
      /\ UNCHANGED <<input, stage, line, current, tables, cellCount, ctx, codeOf, absent>>
      /\ \E g \in {"excluded_edges", "rejected", "relationships"} :
           \A f \in ReportFields \ {g} : report'[f] = report[f]
  BY PredAnswered DEF Told
<1>2. PICK a : a = Len(Tasks.rows)
  OBVIOUS
<1>3. /\ at \in 0 .. Len(Preds.rows) /\ Answered(a, at) /\ Known(a) /\ Logical(at)
      /\ IsReport(report) /\ report.task_rows = Cardinality(RowsOf("TASK"))
  BY <1>1, <1>2 DEF Told
<1>4. at \in Nat /\ Len(Preds.rows) \in Nat
  BY <1>3, Counts, Named_ DEF Preds
<1>5. Answered(a, at)'
  BY <1>2, <1>3, <1>4, PredKeepsAnswers
<1>6. report'.activities = report.activities /\ report'.task_rows = report.task_rows
  BY <1>1 DEF ReportFields, Answers
<1>7. Known(a)' /\ Logical(at)'
  <2>1. Known(a)'
    BY <1>1, <1>3, <1>6, KnownStays
  <2>2. Logical(at)'
    BY <1>3, <1>4, LogicGrows DEF Known
  <2> QED
    BY <2>1, <2>2
<1>8. Tasks' = Tasks /\ Preds' = Preds /\ RowsOf("TASK")' = RowsOf("TASK")
  BY <1>1, ReadAlready, SaysAgain DEF Stages
<1>9. at' \in 0 .. Len(Preds.rows)
  BY <1>1, <1>4
<1> QED
  BY <1>1, <1>2, <1>3, <1>5, <1>6, <1>7, <1>8, <1>9 DEF Told

LEMMA DoneTold ==
  ASSUME Read, Told, LogicDone
  PROVE  Told'
<1>1. /\ stage = "logic" /\ stage' = "done" /\ at = Len(Preds.rows)
      /\ UNCHANGED <<input, line, at, current, tables, cellCount, ctx, codeOf, absent>>
  BY DEF LogicDone
<1>2. PICK a, b : a = Len(Tasks.rows) /\ b = Len(Preds.rows)
  OBVIOUS
<1>3. /\ Answered(a, b) /\ Known(a) /\ Logical(b)
      /\ IsReport(report) /\ report.task_rows = Cardinality(RowsOf("TASK"))
  BY <1>1, <1>2 DEF Told
<1>4. /\ Answered(a, b)' /\ IsReport(report')
      /\ \A f \in ReportFields \ {"rejected"} : report'[f] = report[f]
  BY <1>3, AnswersInOrder
<1>5. /\ report'.activities = report.activities /\ report'.task_rows = report.task_rows
      /\ report'.relationships = report.relationships
  BY <1>4 DEF ReportFields, Answers
<1>6. Known(a)' /\ Logical(b)'
  BY <1>1, <1>3, <1>5, KnownStays, LogicStays
<1>7. Tasks' = Tasks /\ Preds' = Preds /\ RowsOf("TASK")' = RowsOf("TASK")
  BY <1>1, ReadAlready, SaysAgain DEF Stages
<1> QED
  BY <1>1, <1>2, <1>3, <1>4, <1>5, <1>6, <1>7 DEF Told

LEMMA NoStepTold ==
  ASSUME Read, Told, UNCHANGED vars
  PROVE  Told'
<1>1. UNCHANGED <<input, line, at, current, tables, cellCount, ctx, codeOf, absent, report, stage>>
  BY DEF vars
<1>2. PICK a, b, c : a = Len(Tasks.rows) /\ b = Len(Preds.rows) /\ c = at
  OBVIOUS
<1>3. PICK o : o = 0
  OBVIOUS
<1>4. \A x, y : Answered(x, y) => Answered(x, y)'
  <2> SUFFICES ASSUME NEW x, NEW y, Answered(x, y) PROVE Answered(x, y)'
    OBVIOUS
  <2>1. stage' \in Stages
    BY <1>1 DEF Read
  <2> QED
    BY <1>1, <2>1, AnswersStay
<1>5. \A x : (Known(x) => Known(x)') /\ (Logical(x) => Logical(x)')
  BY <1>1, KnownStays, LogicStays
<1>6. Tasks' = Tasks /\ Preds' = Preds /\ RowsOf("TASK")' = RowsOf("TASK")
  BY <1>1, ReadAlready, SaysAgain DEF Read
<1>7. IsReport(report') /\ report' = report
  BY <1>1 DEF Told
<1>8. (Unanswered => Unanswered') /\ (TablesOfRefused => TablesOfRefused')
  BY <1>1 DEF Unanswered, TablesOfRefused, Accepted
<1>9. stage \in {"reading", "tables"} => Unanswered' /\ Answered(o, o)' /\ TablesOfRefused'
  BY <1>3, <1>4, <1>8 DEF Told
<1>10. stage = "tasks" => Answered(c, o)' /\ Known(c)'
  BY <1>2, <1>3, <1>4, <1>5 DEF Told
<1>11. stage = "logic" => Answered(a, c)' /\ Known(a)' /\ Logical(c)'
  BY <1>2, <1>4, <1>5 DEF Told
<1>12. stage = "done" => Answered(a, b)' /\ Known(a)' /\ Logical(b)'
  BY <1>2, <1>4, <1>5 DEF Told
<1>13. Answered(c, o)' = Answered(at, 0)' /\ Known(c)' = Known(at)' /\ Answered(a, c)' = Answered(a, at)'
       /\ Logical(c)' = Logical(at)' /\ Answered(o, o)' = Answered(0, 0)'
  BY <1>1, <1>2, <1>3
<1> QED
  BY <1>1, <1>2, <1>6, <1>7, <1>9, <1>10, <1>11, <1>12, <1>13 DEF Told

LEMMA ToldStep ==
  ASSUME Read, Told, [Next]_vars
  PROVE  Told'
BY ReadingTold, EndTold, TablesTold, TaskTold, TasksDoneTold, PredTold, DoneTold, NoStepTold
   DEF Next, Reading, TaskStep, PredStep

(* All along, what has been read is the export's and what is told is told.  *)
THEOREM IngestsInOrder ==
  Spec => [](Read /\ Told)
<1>1. Init => Read /\ Told
  BY InitRead, InitTold
<1>2. Read /\ Told /\ [Next]_vars => (Read /\ Told)'
  BY ReadStep, ToldStep
<1> QED
  BY <1>1, <1>2, PTL DEF Spec

-----------------------------------------------------------------------------
(* Logic between served activities.                                        *)
ServedCodes == {report.activities[k].code : k \in DOMAIN report.activities}
CodesOf(id) == {Said(i, "task_code") : i \in {j \in Whole("TASK") : Said(j, "task_id") = id}}
JoinedLines ==
  {i \in Whole("TASKPRED") :
     /\ \A end \in {"task_id", "pred_task_id"} :
          /\ Said(i, end) # None
          /\ CodesOf(Said(i, end)) \cap ServedCodes # {}
     /\ Said(i, "pred_type") # None}

LEMMA NamedOnceRowByRow ==
  ASSUME Read, HeadedOnce, TasksAreNamedOnce
  PROVE  RowsNamedOnce
<1> SUFFICES ASSUME NEW j \in DOMAIN Tasks.rows, NEW k \in DOMAIN Tasks.rows,
                    Says("TASK", j, "task_id") = Says("TASK", k, "task_id"), Says("TASK", j, "task_id") # None
             PROVE  j = k
  BY DEF RowsNamedOnce
<1>1. /\ LineOf("TASK", j) \in Whole("TASK") /\ LineOf("TASK", k) \in Whole("TASK")
      /\ Says("TASK", j, "task_id") = Said(LineOf("TASK", j), "task_id")
      /\ Says("TASK", k, "task_id") = Said(LineOf("TASK", k), "task_id")
      /\ LineOf("TASK", j) = LineOf("TASK", k) => j = k
  BY RowsSay, Named_ DEF Tasks
<1> QED
  BY <1>1 DEF TasksAreNamedOnce

LEMMA CodesAreServed ==
  ASSUME Read, HeadedOnce, TasksAreNamedOnce, Known(Len(Tasks.rows)), NEW id, id # None
  PROVE  /\ id \in DOMAIN codeOf <=> CodesOf(id) \cap ServedCodes # {}
         /\ id \in DOMAIN codeOf => codeOf[id] \in CodesOf(id)
<1>1. 1 .. Len(Tasks.rows) = DOMAIN Tasks.rows
  BY RowsSay, SeqIs, Named_ DEF Tasks
<1>2. \A m \in DOMAIN Tasks.rows :
        /\ LineOf("TASK", m) \in Whole("TASK")
        /\ \A f : Says("TASK", m, f) = Said(LineOf("TASK", m), f)
  BY RowsSay, Named_ DEF Tasks
<1>3. \A c : c \in ServedCodes <=> Served(c)
  BY DEF ServedCodes, Served
<1>4. ASSUME id \in DOMAIN codeOf
      PROVE  codeOf[id] \in CodesOf(id) /\ codeOf[id] \in ServedCodes
  <2>1. PICK m \in 1 .. Len(Tasks.rows) :
          Says("TASK", m, "task_id") = id /\ Says("TASK", m, "task_code") = codeOf[id] /\ Served(codeOf[id])
    BY <1>4 DEF Known, IdsKnown
  <2> QED
    BY <1>1, <1>2, <1>3, <2>1 DEF CodesOf
<1>5. ASSUME CodesOf(id) \cap ServedCodes # {}
      PROVE  id \in DOMAIN codeOf
  <2>1. PICK i \in Whole("TASK") : Said(i, "task_id") = id /\ Said(i, "task_code") \in ServedCodes
    BY <1>5 DEF CodesOf
  <2>2. PICK c : c = Said(i, "task_code") /\ Served(c)
    BY <1>3, <2>1
  <2>3. PICK m \in 1 .. Len(Tasks.rows) : Says("TASK", m, "task_code") = c /\ Says("TASK", m, "task_id") \in DOMAIN codeOf
    BY <2>2 DEF Known, CodesKnown
  <2>4. c # None
    BY <2>2 DEF Known, CodesKnown
  <2>5. /\ LineOf("TASK", m) \in Whole("TASK") /\ Said(LineOf("TASK", m), "task_code") = c
        /\ Said(LineOf("TASK", m), "task_id") \in DOMAIN codeOf
    BY <1>1, <1>2, <2>3
  <2>6. LineOf("TASK", m) = i
    BY <2>1, <2>2, <2>4, <2>5 DEF TasksAreNamedOnce
  <2> QED
    BY <2>1, <2>5, <2>6
<1> QED
  BY <1>4, <1>5

LEMMA JoinedRowByRow ==
  ASSUME Read, HeadedOnce, TasksAreNamedOnce, Known(Len(Tasks.rows))
  PROVE  /\ \A k \in DOMAIN Preds.rows : Joins(k) <=> LineOf("TASKPRED", k) \in JoinedLines
         /\ Cardinality(JoinedLines) = Cardinality({k \in 1 .. Len(Preds.rows) : Joins(k)})
<1>1. 1 .. Len(Preds.rows) = DOMAIN Preds.rows /\ Len(Preds.rows) \in Nat
  BY RowsSay, SeqIs, Named_ DEF Preds
<1>2. /\ \A k \in DOMAIN Preds.rows :
           /\ LineOf("TASKPRED", k) \in Whole("TASKPRED")
           /\ \A f : Says("TASKPRED", k, f) = Said(LineOf("TASKPRED", k), f)
      /\ \A i \in Whole("TASKPRED") : \E k \in DOMAIN Preds.rows : LineOf("TASKPRED", k) = i
      /\ \A j, k \in DOMAIN Preds.rows : LineOf("TASKPRED", j) = LineOf("TASKPRED", k) => j = k
  BY RowsSay, Named_ DEF Preds
<1>3. \A id : id # None => (id \in DOMAIN codeOf <=> CodesOf(id) \cap ServedCodes # {})
  BY CodesAreServed
<1>4. \A k \in DOMAIN Preds.rows : Joins(k) <=> LineOf("TASKPRED", k) \in JoinedLines
  BY <1>2, <1>3 DEF Joins, JoinedLines
<1>5. PICK K : K = {k \in 1 .. Len(Preds.rows) : Joins(k)}
  OBVIOUS
<1>6. PICK g : g = [k \in K |-> LineOf("TASKPRED", k)]
  OBVIOUS
<1>7. g \in [K -> JoinedLines] /\ \A x, y \in K : g[x] = g[y] => x = y
  BY <1>1, <1>2, <1>4, <1>5, <1>6
<1>8. \A i \in JoinedLines : \E k \in K : g[k] = i
  <2> SUFFICES ASSUME NEW i \in JoinedLines PROVE \E k \in K : g[k] = i
    OBVIOUS
  <2>1. i \in Whole("TASKPRED")
    BY DEF JoinedLines
  <2>2. PICK k \in DOMAIN Preds.rows : LineOf("TASKPRED", k) = i
    BY <1>2, <2>1
  <2> QED
    BY <1>1, <1>4, <1>5, <1>6, <2>2
<1>9. IsFiniteSet(K)
  BY <1>1, <1>5, Counting
<1>10. Cardinality(JoinedLines) = Cardinality(K)
  BY <1>7, <1>8, <1>9, OneForOne
<1> QED
  BY <1>4, <1>5, <1>10

(* Logic between two activities the import serves is imported, and no other *)
(* is, of any export whose tasks go by one id and one code (ingest_xer_with,*)
(* the TASKPRED pass).                                                      *)
THEOREM LogicAlwaysWhole ==
  Spec => []LogicIsWhole
<1>1. Read /\ Told => LogicIsWhole
  <2> SUFFICES ASSUME Read, Told, Done, HeadedOnce, TasksAreNamedOnce
               PROVE  /\ Len(report.relationships) = Cardinality(JoinedLines)
                      /\ \A i \in JoinedLines : \E r \in ToSet(report.relationships) :
                           /\ r.succ \in CodesOf(Said(i, "task_id"))
                           /\ r.pred \in CodesOf(Said(i, "pred_task_id"))
                           /\ r.kind = Said(i, "pred_type")
    BY DEF LogicIsWhole, JoinedLines, CodesOf, ServedCodes
  <2>1. Known(Len(Tasks.rows)) /\ Logical(Len(Preds.rows))
    BY DEF Told, Done
  <2>2. RowsNamedOnce
    BY NamedOnceRowByRow
  <2>3. PICK n : n = Len(Preds.rows)
    OBVIOUS
  <2>4. /\ Len(report.relationships) = Cardinality({k \in 1 .. n : Joins(k)})
        /\ \A k \in 1 .. n : Joins(k) =>
             \E x \in DOMAIN report.relationships : Joined(report.relationships[x], k)
    BY <2>1, <2>2, <2>3 DEF Logical
  <2>5. Len(report.relationships) = Cardinality(JoinedLines)
    BY <2>1, <2>3, <2>4, JoinedRowByRow
  <2>6. ASSUME NEW i \in JoinedLines
        PROVE  \E r \in ToSet(report.relationships) :
                 /\ r.succ \in CodesOf(Said(i, "task_id"))
                 /\ r.pred \in CodesOf(Said(i, "pred_task_id"))
                 /\ r.kind = Said(i, "pred_type")
    <3>1. i \in Whole("TASKPRED")
      BY DEF JoinedLines
    <3>2. PICK k \in DOMAIN Preds.rows :
            LineOf("TASKPRED", k) = i /\ \A f : Says("TASKPRED", k, f) = Said(i, f)
      BY <3>1, RowsSay, Named_ DEF Preds
    <3>3. Joins(k) /\ k \in 1 .. n
      <4>1. DOMAIN Preds.rows = 1 .. n
        BY <2>3, RowsSay, SeqIs, Named_ DEF Preds
      <4> QED
        BY <2>1, <2>6, <3>2, <4>1, JoinedRowByRow
    <3>4. PICK x \in DOMAIN report.relationships : Joined(report.relationships[x], k)
      BY <2>4, <3>3
    <3>5. PICK r : r = report.relationships[x] /\ r \in ToSet(report.relationships)
      BY DEF ToSet
    <3>6. /\ r.succ = codeOf[Said(i, "task_id")] /\ r.pred = codeOf[Said(i, "pred_task_id")]
          /\ r.kind = Said(i, "pred_type")
      BY <3>2, <3>4, <3>5 DEF Joined
    <3>7. \A end \in {"task_id", "pred_task_id"} : Said(i, end) # None /\ Said(i, end) \in DOMAIN codeOf
      BY <3>2, <3>3 DEF Joins
    <3>8. \A id : id # None /\ id \in DOMAIN codeOf => codeOf[id] \in CodesOf(id)
      BY <2>1, CodesAreServed
    <3> QED
      BY <3>5, <3>6, <3>7, <3>8
  <2> QED
    BY <2>5, <2>6
<1> QED
  BY <1>1, IngestsInOrder, PTL

-----------------------------------------------------------------------------
(* What became of the rows.                                                *)
LEMMA AllAnswered ==
  ASSUME Read, Told
  PROVE  EveryRowAnswered
<1> SUFFICES ASSUME Done
             PROVE  /\ report.task_rows = Cardinality(RowsOf("TASK"))
                    /\ HeadedOnce =>
                         \A code \in {Said(i, "task_code") : i \in Whole("TASK")} \ {None} :
                           Listed(code) = Cardinality({i \in Whole("TASK") : Said(i, "task_code") = code})
                    /\ report.task_rows = Len(report.activities) + Len(report.excluded_loe)
                         + Len(report.excluded_wbs) + Len(report.excluded_project) + Refused("TASK")
                    /\ Cardinality(RowsOf("TASKPRED")) =
                         Len(report.relationships) + report.excluded_edges + Refused("TASKPRED")
                    /\ \A i, j \in DOMAIN report.rejected :
                         report.rejected[i].row = report.rejected[j].row => i = j
  <2>1. \A x : Refused(x) = Cardinality({k \in DOMAIN report.rejected : report.rejected[k].table = x})
    BY DEF Refused, Tally, IsAbout
  <2>2. \A x : Listed(x) =
          Cardinality({k \in DOMAIN report.activities : report.activities[k].code = x})
          + Cardinality({k \in DOMAIN report.excluded_loe : report.excluded_loe[k] = x})
          + Cardinality({k \in DOMAIN report.excluded_wbs : report.excluded_wbs[k] = x})
          + Cardinality({k \in DOMAIN report.excluded_project : report.excluded_project[k] = x})
          + Cardinality({k \in DOMAIN report.rejected :
                           report.rejected[k].table = "TASK" /\ report.rejected[k].code = x})
    BY DEF Listed, Tally, IsAbout
  <2> QED
    BY <2>1, <2>2 DEF EveryRowAnswered, Count
<1>1. PICK a, b : a = Len(Tasks.rows) /\ b = Len(Preds.rows)
  OBVIOUS
<1>2. /\ Answered(a, b) /\ IsReport(report) /\ report.task_rows = Cardinality(RowsOf("TASK"))
  BY <1>1 DEF Told, Done
<1>3. Refused("TASK") \in Nat /\ Refused("TASKPRED") \in Nat
  <2>1. IsSeq(report.rejected)
    BY <1>2 DEF IsReport, Answers
  <2> QED
    BY <2>1, OneTallied DEF Refused
<1>4. report.task_rows = Accepted + Refused("TASK")
  <2>1. PICK A, B, p, r : /\ A = Cardinality(RowsOf("TASK")) /\ B = Len(Table("TASK").rows)
                          /\ p = Accepted /\ r = Refused("TASK")
    OBVIOUS
  <2>2. A + B = B + p + r
    BY <1>1, <1>2, <2>1 DEF Answered, TasksBalance, Tasks
  <2>3. A \in Nat /\ B \in Nat /\ p \in Nat /\ r \in Nat
    BY <1>2, <1>3, <2>1, Counts, AcceptedIs, Named_
  <2> QED
    BY <1>2, <2>1, <2>2, <2>3
<1>5. Cardinality(RowsOf("TASKPRED")) = Len(report.relationships) + report.excluded_edges + Refused("TASKPRED")
  <2>1. PICK A, B, p, q, r : /\ A = Cardinality(RowsOf("TASKPRED")) /\ B = Len(Table("TASKPRED").rows)
                             /\ p = Len(report.relationships) /\ q = report.excluded_edges /\ r = Refused("TASKPRED")
    OBVIOUS
  <2>2. A + B = B + p + q + r
    BY <1>1, <1>2, <2>1 DEF Answered, PredsBalance, Preds
  <2>3. A \in Nat /\ B \in Nat /\ p \in Nat /\ q \in Nat /\ r \in Nat
    BY <1>2, <1>3, <2>1, Counts, Named_
  <2>4. A = p + q + r
    BY <2>2, <2>3
  <2> QED
    BY <2>1, <2>4
<1>6. ASSUME HeadedOnce, NEW code, code # None
      PROVE  Listed(code) = Cardinality({i \in Whole("TASK") : Said(i, "task_code") = code})
  <2>1. PICK K, L : /\ K = {m \in 1 .. a : Says("TASK", m, "task_code") = code}
                    /\ L = {i \in Whole("TASK") : Said(i, "task_code") = code}
    OBVIOUS
  <2>2. 1 .. a = DOMAIN Tasks.rows /\ a \in Nat
    BY <1>1, RowsSay, SeqIs, Named_ DEF Tasks
  <2>3. /\ \A k \in DOMAIN Tasks.rows :
             /\ LineOf("TASK", k) \in Whole("TASK")
             /\ \A f : Says("TASK", k, f) = Said(LineOf("TASK", k), f)
        /\ \A i \in Whole("TASK") : \E k \in DOMAIN Tasks.rows : LineOf("TASK", k) = i
        /\ \A j, k \in DOMAIN Tasks.rows : LineOf("TASK", j) = LineOf("TASK", k) => j = k
    BY <1>6, RowsSay, Named_ DEF Tasks
  <2>4. PICK g : g = [k \in K |-> LineOf("TASK", k)]
    OBVIOUS
  <2>5. g \in [K -> L] /\ \A x, y \in K : g[x] = g[y] => x = y
    BY <2>1, <2>2, <2>3, <2>4
  <2>6. \A i \in L : \E k \in K : g[k] = i
    BY <2>1, <2>2, <2>3, <2>4
  <2>7. IsFiniteSet(K)
    BY <2>1, <2>2, Counting
  <2>8. Cardinality(L) = Cardinality(K)
    BY <2>5, <2>6, <2>7, OneForOne
  <2>9. Listed(code) = Cardinality(K)
    BY <1>2, <1>6, <2>1 DEF Answered, ListedOnce
  <2> QED
    BY <2>1, <2>8, <2>9
<1>7. \A i, j \in DOMAIN report.rejected : report.rejected[i].row = report.rejected[j].row => i = j
  BY <1>2 DEF Answered, Apart
<1> QED
  BY <1>2, <1>4, <1>5, <1>6, <1>7 DEF Accepted

-----------------------------------------------------------------------------
(* The fields the map names and the export does not carry.                 *)
LEMMA FirstOf ==
  ASSUME NEW K, NEW n \in Nat, K \subseteq 1 .. n
  PROVE  K # {} => Min(K) \in K /\ Min(K) # 0
<1>1. K \subseteq Nat /\ 0 \notin K
  OBVIOUS
<1> QED
  BY <1>1, Least

Called(name, k, field, wanted) == Says(name, k, field) # None /\ same_field(Says(name, k, field), wanted)
Carried(name, field, wanted) == \E k \in DOMAIN Table(name).rows : Called(name, k, field, wanted)
CodeTypeCarried(wanted) ==
  \E k \in DOMAIN Table("ACTVTYPE").rows :
    Called("ACTVTYPE", k, "actv_code_type", wanted) /\ Says("ACTVTYPE", k, "actv_code_type_id") # None

LEMMA FieldFound ==
  ASSUME Read, NEW wanted
  PROVE  udf_type(wanted).by = IF Carried("UDFTYPE", "udf_type_name", wanted) THEN "name"
                               ELSE IF Carried("UDFTYPE", "udf_type_label", wanted) THEN "label" ELSE None
<1>1. PICK t : t = Table("UDFTYPE")
  OBVIOUS
<1>2. DOMAIN t.rows = 1 .. Len(t.rows) /\ Len(t.rows) \in Nat
  BY <1>1, RowsSay, SeqIs, Named_
<1>3. PICK K, L : /\ K = {k \in 1 .. Len(t.rows) : get(t, t.rows[k], "udf_type_name") # None
                                                   /\ same_field(get(t, t.rows[k], "udf_type_name"), wanted)}
                  /\ L = {k \in 1 .. Len(t.rows) : get(t, t.rows[k], "udf_type_label") # None
                                                   /\ same_field(get(t, t.rows[k], "udf_type_label"), wanted)}
  OBVIOUS
<1>4. (K # {} <=> Carried("UDFTYPE", "udf_type_name", wanted)) /\ (L # {} <=> Carried("UDFTYPE", "udf_type_label", wanted))
  BY <1>1, <1>2, <1>3 DEF Carried, Called, Says
<1>5. (K # {} => Min(K) # 0) /\ (L # {} => Min(L) # 0)
  <2>1. K \subseteq 1 .. Len(t.rows) /\ L \subseteq 1 .. Len(t.rows)
    BY <1>3
  <2> QED
    BY <1>2, <2>1, FirstOf
<1>6. udf_type(wanted).by = IF (IF K # {} THEN Min(K) ELSE 0) # 0 THEN "name"
                            ELSE IF (IF L # {} THEN Min(L) ELSE 0) # 0 THEN "label" ELSE None
  BY <1>1, <1>3 DEF udf_type, SelectInSeq
<1> QED
  BY <1>4, <1>5, <1>6

LEMMA CodeTypeFound ==
  ASSUME Read, NEW wanted
  PROVE  activity_code_type(wanted) # None <=> CodeTypeCarried(wanted)
<1>1. PICK t : t = Table("ACTVTYPE")
  OBVIOUS
<1>2. DOMAIN t.rows = 1 .. Len(t.rows) /\ Len(t.rows) \in Nat
  BY <1>1, RowsSay, SeqIs, Named_
<1>3. PICK K : K = {k \in 1 .. Len(t.rows) : /\ get(t, t.rows[k], "actv_code_type") # None
                                             /\ same_field(get(t, t.rows[k], "actv_code_type"), wanted)
                                             /\ get(t, t.rows[k], "actv_code_type_id") # None}
  OBVIOUS
<1>4. K # {} <=> CodeTypeCarried(wanted)
  BY <1>1, <1>2, <1>3 DEF CodeTypeCarried, Called, Says
<1>5. K # {} => Min(K) \in K /\ Min(K) # 0
  <2>1. K \subseteq 1 .. Len(t.rows)
    BY <1>3
  <2> QED
    BY <1>2, <2>1, FirstOf
<1>6. activity_code_type(wanted) = IF (IF K # {} THEN Min(K) ELSE 0) = 0 THEN None
                                   ELSE get(t, t.rows[IF K # {} THEN Min(K) ELSE 0], "actv_code_type_id")
  BY <1>1, <1>3 DEF activity_code_type, SelectInSeq
<1>7. CASE K = {}
  BY <1>4, <1>6, <1>7
<1>8. CASE K # {}
  BY <1>3, <1>4, <1>5, <1>6, <1>8
<1> QED
  BY <1>7, <1>8

(* Of an export whose types are named, what the survey sees is what is      *)
(* found.                                                                  *)
LEMMA FieldSeen ==
  ASSUME Read, HeadedOnce, TypesAreNamed, NEW wanted
  PROVE  /\ carries_udf(survey, wanted)
              <=> Carried("UDFTYPE", "udf_type_name", wanted) \/ Carried("UDFTYPE", "udf_type_label", wanted)
         /\ carries_code_type(survey, wanted) <=> CodeTypeCarried(wanted)
<1>1. PICK u, c : u = Table("UDFTYPE") /\ c = Table("ACTVTYPE")
  OBVIOUS
<1>2. /\ \A k \in DOMAIN u.rows : Says("UDFTYPE", k, "udf_type_name") # None
      /\ \A k \in DOMAIN c.rows : /\ Says("ACTVTYPE", k, "actv_code_type") # None
                                  /\ Says("ACTVTYPE", k, "actv_code_type_id") # None
  <2>1. \A k \in DOMAIN u.rows : /\ LineOf("UDFTYPE", k) \in Whole("UDFTYPE")
                                 /\ \A f : Says("UDFTYPE", k, f) = Said(LineOf("UDFTYPE", k), f)
    BY <1>1, RowsSay, Named_
  <2>2. \A k \in DOMAIN c.rows : /\ LineOf("ACTVTYPE", k) \in Whole("ACTVTYPE")
                                 /\ \A f : Says("ACTVTYPE", k, f) = Said(LineOf("ACTVTYPE", k), f)
    BY <1>1, RowsSay, Named_
  <2> QED
    BY <2>1, <2>2 DEF TypesAreNamed
<1>3. /\ survey.udfs = {[name |-> Named(u, r, "udf_type_name", "udf_type_id"),
                         label |-> get(u, r, "udf_type_label")] : r \in ToSet(u.rows)}
      /\ survey.code_types = {Named(c, r, "actv_code_type", "actv_code_type_id") : r \in ToSet(c.rows)}
  BY <1>1 DEF survey
<1>4. carries_udf(survey, wanted) <=>
        \E k \in DOMAIN u.rows : \E n \in {Named(u, u.rows[k], "udf_type_name", "udf_type_id"),
                                           get(u, u.rows[k], "udf_type_label")} \ {None} : same_field(n, wanted)
  <2>1. PICK U : U = survey.udfs
    OBVIOUS
  <2>2. carries_udf(survey, wanted) <=> \E e \in U : \E n \in {e.name, e.label} \ {None} : same_field(n, wanted)
    BY <2>1 DEF carries_udf
  <2>3. \A k \in DOMAIN u.rows : \E e \in U : /\ e.name = Named(u, u.rows[k], "udf_type_name", "udf_type_id")
                                            /\ e.label = get(u, u.rows[k], "udf_type_label")
    <3> SUFFICES ASSUME NEW k \in DOMAIN u.rows
                 PROVE  \E e \in U : /\ e.name = Named(u, u.rows[k], "udf_type_name", "udf_type_id")
                                     /\ e.label = get(u, u.rows[k], "udf_type_label")
      OBVIOUS
    <3>1. PICK e : e = [name |-> Named(u, u.rows[k], "udf_type_name", "udf_type_id"),
                        label |-> get(u, u.rows[k], "udf_type_label")]
      OBVIOUS
    <3>2. u.rows[k] \in ToSet(u.rows)
      BY DEF ToSet
    <3>3. e \in U
      BY <1>3, <2>1, <3>1, <3>2
    <3> QED
      BY <3>1, <3>3
  <2>4. \A e \in U : \E k \in DOMAIN u.rows : /\ e.name = Named(u, u.rows[k], "udf_type_name", "udf_type_id")
                                            /\ e.label = get(u, u.rows[k], "udf_type_label")
    BY <1>3, <2>1 DEF ToSet
  <2> QED
    BY <2>2, <2>3, <2>4
<1>5. \A k \in DOMAIN u.rows : /\ Named(u, u.rows[k], "udf_type_name", "udf_type_id") = Says("UDFTYPE", k, "udf_type_name")
                               /\ get(u, u.rows[k], "udf_type_label") = Says("UDFTYPE", k, "udf_type_label")
  BY <1>1, <1>2 DEF Named, Says
<1>6. carries_code_type(survey, wanted) <=>
        \E k \in DOMAIN c.rows : same_field(Named(c, c.rows[k], "actv_code_type", "actv_code_type_id"), wanted)
  BY <1>3 DEF carries_code_type, ToSet
<1>7. \A k \in DOMAIN c.rows : Named(c, c.rows[k], "actv_code_type", "actv_code_type_id") = Says("ACTVTYPE", k, "actv_code_type")
  BY <1>1, <1>2 DEF Named, Says
<1>8. carries_udf(survey, wanted)
        <=> Carried("UDFTYPE", "udf_type_name", wanted) \/ Carried("UDFTYPE", "udf_type_label", wanted)
  BY <1>1, <1>2, <1>4, <1>5 DEF Carried, Called
<1>9. carries_code_type(survey, wanted) <=> CodeTypeCarried(wanted)
  BY <1>1, <1>2, <1>6, <1>7 DEF CodeTypeCarried, Called
<1> QED
  BY <1>8, <1>9

Unseen(s) ==
  \/ map[s].source = "udf" /\ ~carries_udf(survey, map[s].name)
  \/ map[s].source = "activity_code" /\ ~carries_code_type(survey, map[s].name)
SlotsSaid(slots, findings) ==
  HeadedOnce /\ TypesAreNamed =>
    \A s \in Slots : map[s].source \in {"udf", "activity_code"} =>
      /\ (\E f \in findings : f.what = "field_not_carried" /\ f.name = s) <=> slots[s] = NoSlot
      /\ (\E f \in findings : f.what = "matched_by_label" /\ f.name = s) <=>
           /\ map[s].source = "udf"
           /\ \A i \in Whole("UDFTYPE") :
                Said(i, "udf_type_name") # None => ~same_field(Said(i, "udf_type_name"), map[s].name)
           /\ \E i \in Whole("UDFTYPE") :
                Said(i, "udf_type_label") # None /\ same_field(Said(i, "udf_type_label"), map[s].name)

LEMMA SlotFound ==
  ASSUME Read, HeadedOnce, TypesAreNamed, NEW s \in Slots, map[s].source \in {"udf", "activity_code"}
  PROVE  /\ resolve_slot(map[s]) = NoSlot <=> Unseen(s)
         /\ resolve_slot(map[s]).by = "label" <=>
              /\ map[s].source = "udf"
              /\ ~Carried("UDFTYPE", "udf_type_name", map[s].name)
              /\ Carried("UDFTYPE", "udf_type_label", map[s].name)
<1>1. PICK m, wanted, udf, type : /\ m = map[s] /\ wanted = m.name /\ udf = udf_type(wanted)
                                  /\ type = activity_code_type(wanted)
  OBVIOUS
<1>2. None # "name" /\ None # "label"
  BY ExportsAssumption DEF Words
<1>3. /\ udf.by = IF Carried("UDFTYPE", "udf_type_name", wanted) THEN "name"
                  ELSE IF Carried("UDFTYPE", "udf_type_label", wanted) THEN "label" ELSE None
      /\ type # None <=> CodeTypeCarried(wanted)
  BY <1>1, FieldFound, CodeTypeFound
<1>4. /\ carries_udf(survey, wanted)
           <=> Carried("UDFTYPE", "udf_type_name", wanted) \/ Carried("UDFTYPE", "udf_type_label", wanted)
      /\ carries_code_type(survey, wanted) <=> CodeTypeCarried(wanted)
  BY FieldSeen
<1>5. PICK high, medium : /\ high = [values |-> udf_values(udf.id), grade |-> "high", by |-> udf.by]
                          /\ medium = [values |-> activity_code_values(type), grade |-> "medium", by |-> "name"]
  OBVIOUS
<1>6. /\ high # NoSlot /\ medium # NoSlot /\ NoSlot.by = None /\ high.by = udf.by /\ medium.by = "name"
  <2>1. NoSlot.grade = "low" /\ high.grade = "high" /\ medium.grade = "medium"
    BY <1>5 DEF NoSlot
  <2> QED
    BY <1>5, <2>1 DEF NoSlot
<1>7. resolve_slot(m) = IF m.source = "udf" /\ udf.by # None THEN high
                        ELSE IF m.source = "activity_code" /\ type # None THEN medium ELSE NoSlot
  BY <1>1, <1>5 DEF resolve_slot
<1>8. CASE m.source = "udf"
  BY <1>1, <1>2, <1>3, <1>4, <1>6, <1>7, <1>8 DEF Unseen
<1>9. CASE m.source = "activity_code"
  BY <1>1, <1>2, <1>3, <1>4, <1>6, <1>7, <1>9 DEF Unseen
<1> QED
  BY <1>1, <1>8, <1>9

(* What the survey and the slots have said of them, and nothing else does.  *)
FindingsOf(slots) ==
  resource_findings \cup findings_against(survey)
    \cup (IF map.projects = << >> /\ Cardinality(DOMAIN projects.all) > 1
            THEN {[what |-> "many_projects"]} ELSE {})
    \cup {[what |-> "matched_by_label", name |-> q] : q \in {t \in Slots : slots[t].by = "label"}}

LEMMA FindingsAbout ==
  ASSUME NEW slots, NEW s \in Slots
  PROVE  /\ (\E f \in FindingsOf(slots) : f.what = "field_not_carried" /\ f.name = s) <=> Unseen(s)
         /\ (\E f \in FindingsOf(slots) : f.what = "matched_by_label" /\ f.name = s) <=> slots[s].by = "label"
<1>0. PICK fs : fs = FindingsOf(slots)
  OBVIOUS
<1>1. PICK A, B, C, D, E, F :
        /\ A = resource_findings
        /\ B = {[what |-> "field_not_carried", name |-> slot] : slot \in {t \in Slots : Unseen(t)}}
        /\ C = {[what |-> "project_not_carried", name |-> p] :
                  p \in {q \in ToSet(map.projects) : ~\E t \in survey.projects : same_field(t, q)}}
        /\ D = IF map.compartment.source = "none" /\ ~map.placards_from_names
                 THEN {[what |-> "every_row_unlocated"]} ELSE {}
        /\ E = IF map.projects = << >> /\ Cardinality(DOMAIN projects.all) > 1
                 THEN {[what |-> "many_projects"]} ELSE {}
        /\ F = {[what |-> "matched_by_label", name |-> q] : q \in {t \in Slots : slots[t].by = "label"}}
  OBVIOUS
<1>2. fs = A \cup B \cup C \cup D \cup E \cup F
  <2>1. findings_against(survey) = B \cup C \cup D
    BY <1>1 DEF findings_against, Unseen
  <2> QED
    BY <1>0, <1>1, <2>1 DEF FindingsOf
<1>3. \A f \in A : f.what \in {"untyped_resource", "no_rsrc_type"}
  <2>1. \/ A = {}
        \/ A = {[what |-> "no_rsrc_type"]}
        \/ \E R : A = {[what |-> "untyped_resource", name |-> get(Table("RSRC"), r, "rsrc_short_name")] : r \in R}
    BY <1>1 DEF resource_findings
  <2> QED
    BY <2>1
<1>4. \A f \in C \cup D \cup E : f.what \in {"project_not_carried", "every_row_unlocated", "many_projects"}
  <2>1. \A f \in C : f.what = "project_not_carried"
    BY <1>1
  <2>2. \A f \in D : f.what = "every_row_unlocated"
    BY <1>1
  <2>3. \A f \in E : f.what = "many_projects"
    BY <1>1
  <2> QED
    BY <2>1, <2>2, <2>3
<1>5. /\ \A f \in B : f.what = "field_not_carried" /\ f.name \in Slots /\ Unseen(f.name)
      /\ Unseen(s) => \E f \in B : f.what = "field_not_carried" /\ f.name = s
  <2>1. \A f \in B : f.what = "field_not_carried" /\ f.name \in Slots /\ Unseen(f.name)
    BY <1>1
  <2>2. ASSUME Unseen(s) PROVE \E f \in B : f.what = "field_not_carried" /\ f.name = s
    <3>1. PICK f : f = [what |-> "field_not_carried", name |-> s]
      OBVIOUS
    <3>2. f \in B
      BY <1>1, <2>2, <3>1
    <3> QED
      BY <3>1, <3>2
  <2> QED
    BY <2>1, <2>2
<1>6. /\ \A f \in F : f.what = "matched_by_label" /\ slots[f.name].by = "label"
      /\ slots[s].by = "label" => \E f \in F : f.what = "matched_by_label" /\ f.name = s
  <2>1. \A f \in F : f.what = "matched_by_label" /\ slots[f.name].by = "label"
    BY <1>1
  <2>2. ASSUME slots[s].by = "label" PROVE \E f \in F : f.what = "matched_by_label" /\ f.name = s
    <3>1. PICK f : f = [what |-> "matched_by_label", name |-> s]
      OBVIOUS
    <3>2. f \in F
      BY <1>1, <2>2, <3>1
    <3> QED
      BY <3>1, <3>2
  <2> QED
    BY <2>1, <2>2
<1>7. (\E f \in fs : f.what = "field_not_carried" /\ f.name = s) <=> Unseen(s)
  BY <1>2, <1>3, <1>4, <1>5, <1>6
<1>8. (\E f \in fs : f.what = "matched_by_label" /\ f.name = s) <=> slots[s].by = "label"
  BY <1>2, <1>3, <1>4, <1>5, <1>6
<1> QED
  BY <1>0, <1>7, <1>8

SlotsResolved == [s \in Slots |-> resolve_slot(map[s])]

LEMMA SlotsAreSaid ==
  ASSUME Read
  PROVE  SlotsSaid(SlotsResolved, FindingsOf(SlotsResolved))
<1>0. PICK slots, fs : slots = SlotsResolved /\ fs = FindingsOf(slots)
  OBVIOUS
<1> SUFFICES ASSUME HeadedOnce, TypesAreNamed, NEW s \in Slots, map[s].source \in {"udf", "activity_code"}
             PROVE  /\ (\E f \in fs : f.what = "field_not_carried" /\ f.name = s) <=> slots[s] = NoSlot
                    /\ (\E f \in fs : f.what = "matched_by_label" /\ f.name = s) <=>
                         /\ map[s].source = "udf"
                         /\ \A i \in Whole("UDFTYPE") :
                              Said(i, "udf_type_name") # None => ~same_field(Said(i, "udf_type_name"), map[s].name)
                         /\ \E i \in Whole("UDFTYPE") :
                              Said(i, "udf_type_label") # None /\ same_field(Said(i, "udf_type_label"), map[s].name)
  BY <1>0 DEF SlotsSaid
<1>1. slots[s] = resolve_slot(map[s])
  BY <1>0 DEF SlotsResolved
<1>2. /\ (\E f \in fs : f.what = "field_not_carried" /\ f.name = s) <=> Unseen(s)
      /\ (\E f \in fs : f.what = "matched_by_label" /\ f.name = s) <=> slots[s].by = "label"
  BY <1>0, FindingsAbout
<1>3. /\ slots[s] = NoSlot <=> Unseen(s)
      /\ slots[s].by = "label" <=>
              /\ map[s].source = "udf"
              /\ ~Carried("UDFTYPE", "udf_type_name", map[s].name)
              /\ Carried("UDFTYPE", "udf_type_label", map[s].name)
  BY <1>1, SlotFound
<1>4. \A field : Carried("UDFTYPE", field, map[s].name)
                   <=> \E i \in Whole("UDFTYPE") : Said(i, field) # None /\ same_field(Said(i, field), map[s].name)
  <2>1. /\ \A k \in DOMAIN Table("UDFTYPE").rows :
             LineOf("UDFTYPE", k) \in Whole("UDFTYPE") /\ \A f : Says("UDFTYPE", k, f) = Said(LineOf("UDFTYPE", k), f)
        /\ \A i \in Whole("UDFTYPE") : \E k \in DOMAIN Table("UDFTYPE").rows : LineOf("UDFTYPE", k) = i
    BY RowsSay, Named_
  <2> QED
    BY <2>1 DEF Carried, Called
<1> QED
  BY <1>2, <1>3, <1>4

FieldsTold == stage \notin {"reading", "tables"} => SlotsSaid(ctx.slots, report.findings)

LEMMA SlotsStay ==
  ASSUME Read, UNCHANGED <<input, line, cellCount, tables>>, stage' \in Stages,
         stage' = "reading" => stage = "reading" /\ current' = current,
         NEW slots, NEW findings, SlotsSaid(slots, findings)
  PROVE  SlotsSaid(slots, findings)'
<1>1. \A name : Whole(name)' = Whole(name)
  BY ReadAlready
<1>2. /\ map' = map /\ \A i : HeaderOf(i)' = HeaderOf(i)
      /\ \A i, field : Said(i, field)' = Said(i, field)
  BY SameExport
<1>3. HeadedOnce' = HeadedOnce
  BY <1>1, <1>2 DEF HeadedOnce
<1>4. TypesAreNamed' = TypesAreNamed
  BY <1>1, <1>2 DEF TypesAreNamed
<1> QED
  BY <1>1, <1>2, <1>3, <1>4 DEF SlotsSaid

LEMMA FieldsStep ==
  ASSUME Read, Told, FieldsTold, [Next]_vars
  PROVE  FieldsTold'
<1>1. CASE Reading
  <2>1. stage' \in {"reading", "tables"}
    BY <1>1, LineAnswered DEF Told
  <2> QED
    BY <2>1 DEF FieldsTold
<1>2. CASE EndOfFile
  BY <1>2 DEF EndOfFile, FieldsTold
<1>3. CASE ResolveTables
  <2>1. /\ report'.findings = FindingsOf(SlotsResolved) /\ ctx'.slots = SlotsResolved
        /\ UNCHANGED <<input, line, cellCount, tables>> /\ stage' = "tasks"
    BY <1>3, Resolves DEF Told, FindingsOf, SlotsResolved
  <2>2. PICK slots, findings : slots = SlotsResolved /\ findings = FindingsOf(SlotsResolved)
    OBVIOUS
  <2>3. SlotsSaid(slots, findings)
    BY <2>2, SlotsAreSaid
  <2>4. SlotsSaid(slots, findings)'
    BY <2>1, <2>3, SlotsStay DEF Stages
  <2>5. SlotsSaid(ctx.slots, report.findings)'
    <3>1. ctx'.slots = slots /\ report'.findings = findings
      BY <2>1, <2>2
    <3> QED
      BY <2>4, <3>1 DEF SlotsSaid
  <2> QED
    BY <2>5 DEF FieldsTold
<1>4. CASE TaskStep \/ TasksDone \/ PredStep \/ LogicDone \/ UNCHANGED vars
  <2>1. UNCHANGED <<input, line, cellCount, tables, ctx>> /\ stage' \in Stages
        /\ (stage' = "reading" => stage = "reading" /\ current' = current)
        /\ (stage \in {"reading", "tables"} => stage' \in {"reading", "tables"})
    <3>1. /\ UNCHANGED <<input, line, cellCount, tables>> /\ stage' \in Stages
          /\ stage' = "reading" => stage = "reading" /\ current' = current
      BY <1>4, KeepsExport DEF Resolving, TaskStep, PredStep
    <3>2. ctx' = ctx /\ (stage \in {"reading", "tables"} => stage' \in {"reading", "tables"})
      BY <1>4, TaskAnswered, PredAnswered DEF TasksDone, LogicDone, vars, Told
    <3> QED
      BY <3>1, <3>2
  <2>2. report'.findings = report.findings
    <3>1. CASE TaskStep
      BY <3>1, TaskAnswered DEF Told, ReportFields, Answers
    <3>2. CASE PredStep
      BY <3>2, PredAnswered DEF Told, ReportFields, Answers
    <3>3. CASE LogicDone
      <4>1. PICK t : report' = [report EXCEPT !["rejected"] = t]
        BY <3>3 DEF LogicDone
      <4>2. IsRecord(report) /\ {"findings", "rejected"} \subseteq ReportFields
        BY DEF Told, IsReport, ReportFields, Answers
      <4> QED
        BY <4>1, <4>2 DEF IsRecord
    <3>4. CASE TasksDone \/ UNCHANGED vars
      BY <3>4 DEF TasksDone, vars
    <3> QED
      BY <1>4, <3>1, <3>2, <3>3, <3>4
  <2>3. SUFFICES ASSUME stage' \notin {"reading", "tables"} PROVE SlotsSaid(ctx.slots, report.findings)'
    BY DEF FieldsTold
  <2>4. PICK slots, findings : slots = ctx.slots /\ findings = report.findings
    OBVIOUS
  <2>5. SlotsSaid(slots, findings)
    BY <2>1, <2>3, <2>4 DEF FieldsTold
  <2>6. SlotsSaid(slots, findings)'
    BY <2>1, <2>5, SlotsStay
  <2> QED
    <3>1. ctx'.slots = slots /\ report'.findings = findings
      BY <2>1, <2>2, <2>4
    <3> QED
      BY <2>6, <3>1 DEF SlotsSaid
<1> QED
  BY <1>1, <1>2, <1>3, <1>4 DEF Next, Reading, TaskStep, PredStep

(* Every row of TASK and TASKPRED is told in one list, the quarantine names *)
(* no line twice, and a mapped field the file does not carry is said, and   *)
(* only such a field (ingest_xer_with; findings_against).                   *)
THEOREM NothingAlwaysSilent ==
  Spec => []NothingIsSilent
<1>1. Init => FieldsTold
  BY DEF Init, FieldsTold
<1>2. Read /\ Told /\ FieldsTold /\ [Next]_vars => FieldsTold'
  BY FieldsStep
<1>3. Read /\ Told /\ FieldsTold => NothingIsSilent
  <2>1. FieldsTold => MissingFieldsAreSaid
    <3> SUFFICES ASSUME FieldsTold, Done PROVE MissingFieldsAreSaid
      BY DEF MissingFieldsAreSaid
    <3>1. SlotsSaid(ctx.slots, report.findings)
      BY DEF FieldsTold, Done
    <3> QED
      BY <3>1 DEF MissingFieldsAreSaid, SlotsSaid
  <2> QED
    BY <2>1, AllAnswered DEF NothingIsSilent
<1> QED
  BY <1>1, <1>2, <1>3, IngestsInOrder, PTL DEF Spec

-----------------------------------------------------------------------------
(* A wall time, and the instants that read as it.                          *)
LEMMA OffsetsAre ==
  ASSUME NEW clock, valid_clock(clock)
  PROVE  /\ \E k \in -56 .. 56 : clock.standard = 15 * k
         /\ clock.daylight # None => /\ \E k \in -56 .. 56 : clock.daylight.offset = 15 * k
                                     /\ clock.daylight.offset # clock.standard
BY DEF valid_clock, offset_problem

LEMMA OnOneWall ==
  ASSUME NEW wall \in [days : Int, minute : 0 .. (Day - 1)], NEW shifted \in Int
  PROVE  OnTheWall(shifted) = wall <=> shifted = wall.days * Day + wall.minute
<1>1. PICK d, m : d = wall.days /\ m = wall.minute
  OBVIOUS
<1>2. wall = [days |-> d, minute |-> m] /\ d \in Int /\ m \in 0 .. 1439
  BY <1>1 DEF Day
<1>3. OnTheWall(shifted) = wall <=> shifted \div Day = d /\ shifted % Day = m
  BY <1>2 DEF OnTheWall
<1>4. shifted \div 1440 = d /\ shifted % 1440 = m => shifted = d * 1440 + m
  BY <1>2
<1>5. shifted = d * 1440 + m => shifted \div 1440 = d /\ shifted % 1440 = m
  BY <1>2
<1> QED
  BY <1>1, <1>2, <1>3, <1>4, <1>5 DEF Day

(* One takes standard time where it is in force, or daylight time.         *)
Minutes(wall) == wall.days * Day + wall.minute
InstantsOf(clock, wall) ==
  {t \in {wall.days * Day + wall.minute - 15 * k : k \in -56 .. 56} : local(clock, t) = wall}

LEMMA InstantsAre ==
  ASSUME NEW clock, valid_clock(clock), NEW wall \in [days : Int, minute : 0 .. (Day - 1)]
  PROVE  LET S == InstantsOf(clock, wall)
             W == Minutes(wall)
             InForce(t) == in_force(clock.daylight, clock.standard, t)
         IN  /\ W - clock.standard \in Int
             /\ clock.daylight = None => S = {W - clock.standard}
             /\ clock.daylight # None =>
                  /\ W - clock.daylight.offset \in Int
                  /\ \A t : t \in S <=> \/ t = W - clock.standard /\ ~InForce(t)
                                        \/ t = W - clock.daylight.offset /\ InForce(t)
<1>0. wall.days \in Int /\ wall.minute \in 0 .. 1439
  BY DEF Day
<1>0a. Minutes(wall) \in Int
  BY <1>0 DEF Minutes, Day
<1> DEFINE InForce(t) == in_force(clock.daylight, clock.standard, t)
           W == Minutes(wall)
           T == {W - 15 * k : k \in -56 .. 56}
<1>1. W \in Int
  BY <1>0a
<1> HIDE DEF W
<1>2. \A t \in T : t \in Int
  BY <1>1
<1>3. ASSUME NEW o, \E k \in -56 .. 56 : o = 15 * k
      PROVE  o \in Int /\ W - o \in T
  BY <1>1, <1>3
<1>4. ASSUME NEW t \in T, NEW o, o \in Int, offset_at(clock, t) = o
      PROVE  local(clock, t) = wall <=> t = W - o
  <2>1. t \in Int /\ t + o \in Int
    BY <1>2, <1>4
  <2>2. local(clock, t) = wall <=> t + o = W
    BY <1>4, <2>1, OnOneWall DEF local, W, Minutes
  <2> QED
    BY <1>1, <1>4, <2>1, <2>2
<1>5. PICK std : std = clock.standard
  OBVIOUS
<1>6. std \in Int /\ W - std \in T
  BY <1>3, <1>5, OffsetsAre
<1>9. InstantsOf(clock, wall) = {t \in T : local(clock, t) = wall}
  <2>1. PICK U : U = {wall.days * Day + wall.minute - 15 * k : k \in -56 .. 56}
    OBVIOUS
  <2>2. PICK V : V = T
    OBVIOUS
  <2>3. W = wall.days * Day + wall.minute
    BY DEF W, Minutes
  <2>7. ASSUME NEW k \in -56 .. 56
        PROVE  wall.days * Day + wall.minute - 15 * k = W - 15 * k
    <3>1. wall.days \in Int /\ wall.minute \in Int /\ Day \in Int
      BY DEF Day
    <3>2. PICK d, m, j : d = wall.days * Day /\ m = wall.minute /\ j = 15 * k
      OBVIOUS
    <3>3. d \in Int /\ m \in Int /\ j \in Int
      BY <3>1, <3>2
    <3> QED
      BY <2>3, <3>2, <3>3
  <2>8. ASSUME NEW t \in U PROVE t \in V
    <3>1. PICK k \in -56 .. 56 : t = wall.days * Day + wall.minute - 15 * k
      BY <2>1
    <3> QED
      BY <2>2, <2>7, <3>1
  <2>9. ASSUME NEW t \in V PROVE t \in U
    <3>1. PICK k \in -56 .. 56 : t = W - 15 * k
      BY <2>2
    <3> QED
      BY <2>1, <2>7, <3>1
  <2>4. \A t : t \in U <=> t \in V
    BY <2>8, <2>9
  <2>5. U = V
    BY <2>4
  <2>6. InstantsOf(clock, wall) = {t \in U : local(clock, t) = wall}
    BY <2>1 DEF InstantsOf
  <2> QED
    BY <2>2, <2>5, <2>6
<1>7. CASE clock.daylight = None
  <2>1. \A t : offset_at(clock, t) = std
    BY <1>5, <1>7 DEF offset_at
  <2>2. \A t \in T : local(clock, t) = wall <=> t = W - std
    BY <1>4, <1>6, <2>1
  <2> QED
    BY <1>1, <1>5, <1>6, <1>7, <1>9, <2>2 DEF W
<1>8. CASE clock.daylight # None
  <2>1. PICK dl : dl = clock.daylight.offset
    OBVIOUS
  <2>2. dl \in Int /\ W - dl \in T
    BY <1>3, <1>8, <2>1, OffsetsAre
  <2>3. \A t : offset_at(clock, t) = IF InForce(t) THEN dl ELSE std
    BY <1>5, <1>8, <2>1 DEF offset_at
  <2> HIDE DEF InForce
  <2>4. \A t \in T : local(clock, t) = wall <=> t = W - (IF InForce(t) THEN dl ELSE std)
    BY <1>4, <1>6, <2>2, <2>3
  <2> HIDE DEF T
  <2>5. ASSUME NEW t
        PROVE  t \in {u \in T : local(clock, u) = wall}
                 <=> \/ t = W - std /\ ~InForce(t)
                     \/ t = W - dl /\ InForce(t)
    <3>1. CASE t \in T
      BY <2>4, <3>1
    <3>2. CASE t \notin T
      BY <1>6, <2>2, <3>2
    <3> QED
      BY <3>1, <3>2
  <2>6. W - std \in Int /\ W - dl \in Int
    BY <1>1, <1>6, <2>2
  <2> QED
    BY <1>5, <1>8, <1>9, <2>1, <2>5, <2>6 DEF InForce, W
<1> QED
  BY <1>7, <1>8

LEMMA Two ==
  ASSUME NEW a, NEW b, a # b
  PROVE  Cardinality({a, b}) = 2
<1>1. IsFiniteSet({b}) /\ Cardinality({b}) = 1
  BY FS_Singleton
<1>2. Cardinality({b} \cup {a}) = 2
  BY <1>1, FS_AddElement
<1>3. {a, b} = {b} \cup {a}
  OBVIOUS
<1> QED
  BY <1>2, <1>3

(* The reading names an instant that reads as it does, where there is one.  *)
ReadsRightly(clock, S, r) ==
  /\ r.at \in Int
  /\ \/ S = {} /\ r.note = "gap"
     \/ r.at \in S /\ Cardinality(S) = 1 /\ r.note = None
     \/ /\ r.at \in S /\ Cardinality(S) = 2 /\ r.note = "overlap"
        /\ clock.daylight.offset > clock.standard => r.at = Min(S)

LEMMA WallIsRead ==
  ASSUME NEW clock, valid_clock(clock), NEW wall \in [days : Int, minute : 0 .. (Day - 1)],
         NEW r, r = to_utc(clock, wall.days, wall.minute)
  PROVE  ReadsRightly(clock, InstantsOf(clock, wall), r)
<1> DEFINE InForce(t) == in_force(clock.daylight, clock.standard, t)
<1>1. PICK W, S : W = Minutes(wall) /\ S = InstantsOf(clock, wall)
  OBVIOUS
<1>4. SUFFICES ReadsRightly(clock, S, r)
  BY <1>1
<1>2. r = WallRead(clock, W)
  BY <1>1 DEF to_utc, Minutes
<1>3. PICK s : s = W - clock.standard
  OBVIOUS
<1>5. /\ s \in Int
      /\ clock.daylight = None => S = {s}
      /\ clock.daylight # None =>
           /\ W - clock.daylight.offset \in Int
           /\ \A t : t \in S <=> \/ t = s /\ ~InForce(t)
                                 \/ t = W - clock.daylight.offset /\ InForce(t)
  BY <1>1, <1>3, InstantsAre
<1>6. \A x : Cardinality({x}) = 1
  BY FS_Singleton
<1>7. CASE clock.daylight = None
  <2>1. r.at = s /\ r.note = None
    BY <1>2, <1>3, <1>7 DEF WallRead
  <2> QED
    BY <1>5, <1>6, <1>7, <2>1 DEF ReadsRightly
<1>8. CASE clock.daylight # None
  <2>1. PICK d : d = W - clock.daylight.offset
    OBVIOUS
  <2>2. d \in Int /\ \A t : t \in S <=> \/ t = s /\ ~InForce(t)
                                        \/ t = d /\ InForce(t)
    BY <1>5, <1>8, <2>1
  <2>3. s # d /\ (clock.daylight.offset > clock.standard => d < s)
    <3>1. PICK std, dl : std = clock.standard /\ dl = clock.daylight.offset
      OBVIOUS
    <3>2. std \in Int /\ dl \in Int /\ std # dl
      BY <1>8, <3>1, OffsetsAre
    <3>3. W \in Int
      BY <1>1 DEF Day, Minutes
    <3> QED
      BY <1>3, <2>1, <3>1, <3>2, <3>3
  <2>4. /\ r.at = IF InForce(d) THEN d ELSE s
        /\ r.note = IF ~InForce(s) /\ InForce(d) THEN "overlap"
                    ELSE IF InForce(s) /\ ~InForce(d) THEN "gap" ELSE None
    BY <1>2, <1>3, <1>8, <2>1 DEF WallRead, ReadIn
  <2> HIDE DEF InForce
  <2>5. CASE InForce(s) /\ ~InForce(d)
    BY <1>5, <2>2, <2>4, <2>5 DEF ReadsRightly
  <2>6. CASE ~InForce(s) /\ ~InForce(d)
    <3>1. S = {s}
      BY <2>2, <2>6
    <3> QED
      BY <1>5, <1>6, <2>4, <2>6, <3>1 DEF ReadsRightly
  <2>7. CASE InForce(s) /\ InForce(d)
    <3>1. S = {d}
      BY <2>2, <2>7
    <3> QED
      BY <1>6, <2>2, <2>4, <2>7, <3>1 DEF ReadsRightly
  <2>8. CASE ~InForce(s) /\ InForce(d)
    <3>1. S = {s, d}
      BY <2>2, <2>8
    <3>2. Cardinality(S) = 2
      BY <2>3, <3>1, Two
    <3>3. d < s => Min(S) = d
      BY <1>5, <2>2, <3>1 DEF Min
    <3> QED
      BY <2>2, <2>3, <2>4, <2>8, <3>1, <3>2, <3>3 DEF ReadsRightly
  <2> QED
    BY <2>5, <2>6, <2>7, <2>8
<1> QED
  BY <1>7, <1>8

-----------------------------------------------------------------------------
(* What the k-th TASK row's dates read as, and what is noted of them.      *)
CellAt(k, actual, early) ==
  IF Says("TASK", k, actual) # None THEN Says("TASK", k, actual) ELSE Says("TASK", k, early)
StartAt(k) == parse_when(CellAt(k, "act_start_date", "early_start_date"))
FinishAt(k) == parse_when(CellAt(k, "act_end_date", "early_end_date"))
NoteAt(k, a, what) ==
  IF a = None \/ a.note = None THEN {} ELSE {[row |-> LineOf("TASK", k), what |-> what, note |-> a.note]}
NotesAt(k) == NoteAt(k, StartAt(k), "start") \cup NoteAt(k, FinishAt(k), "finish")
DatedAs(a, k) ==
  /\ a.code = Says("TASK", k, "task_code")
  /\ a.planned # None =>
       /\ StartAt(k) # None /\ FinishAt(k) # None /\ ~(FinishAt(k).at < StartAt(k).at)
       /\ a.planned.start = StartAt(k).at
       /\ a.planned.end = IF FinishAt(k).at = StartAt(k).at THEN FinishAt(k).at + 1 ELSE FinishAt(k).at
       /\ NotesAt(k) \subseteq report.wall_clock_findings
Dated(n) ==
  /\ \A w \in report.wall_clock_findings : \E k \in 1 .. n : w \in NotesAt(k)
  /\ \A x \in DOMAIN report.activities : \E k \in 1 .. n : DatedAs(report.activities[x], k)
WindowsTold ==
  /\ valid_clock(input.clock)
  /\ stage \in {"reading", "tables"} => Dated(0)
  /\ stage = "tasks" => Dated(at)
  /\ stage \in {"logic", "done"} => Dated(Len(Tasks.rows))

LEMMA DatesStay ==
  ASSUME UNCHANGED <<input, tables>>
  PROVE  \A k : StartAt(k)' = StartAt(k) /\ FinishAt(k)' = FinishAt(k) /\ NotesAt(k)' = NotesAt(k)
<1>1. \A c : parse_when(c)' = parse_when(c)
  BY DEF parse_when
<1>2. /\ \A m, f : Says("TASK", m, f)' = Says("TASK", m, f)
      /\ \A m : LineOf("TASK", m)' = LineOf("TASK", m)
  BY SaysAgain
<1>3. \A k : StartAt(k)' = StartAt(k) /\ FinishAt(k)' = FinishAt(k)
  BY <1>1, <1>2 DEF StartAt, FinishAt, CellAt
<1> QED
  BY <1>2, <1>3 DEF NotesAt, NoteAt

(* The row at hand reads as its place does.                                *)
LEMMA RowIsDated ==
  /\ planned_window.findings \subseteq NotesAt(at + 1)
  /\ planned_window.class = None /\ planned_window.window # None =>
       LET a == StartAt(at + 1)
           b == FinishAt(at + 1)
       IN  /\ a # None /\ b # None /\ ~(b.at < a.at)
           /\ planned_window.window = [start |-> a.at, end |-> IF b.at = a.at THEN b.at + 1 ELSE b.at]
           /\ planned_window.findings = NotesAt(at + 1)
<1>1. PICK start, finish : /\ start = Cell("act_start_date", "early_start_date")
                           /\ finish = Cell("act_end_date", "early_end_date")
  OBVIOUS
<1>2. PICK a, b : a = parse_when(start) /\ b = parse_when(finish)
  OBVIOUS
<1>3. planned_window = WindowOf(start, finish, a, b)
  BY <1>1, <1>2 DEF planned_window, Window
<1>4. a = StartAt(at + 1) /\ b = FinishAt(at + 1)
  BY <1>1, <1>2 DEF StartAt, FinishAt, CellAt, Cell, Of, Says, Row, Tasks
<1>5. Note(a, "start") = NoteAt(at + 1, a, "start") /\ Note(b, "finish") = NoteAt(at + 1, b, "finish")
  BY DEF Note, NoteAt, Row, LineOf, Tasks
<1>6. NotesAt(at + 1) = Note(a, "start") \cup Note(b, "finish")
  BY <1>4, <1>5 DEF NotesAt
<1>7. PICK p : p = planned_window
  OBVIOUS
<1>8. /\ p.findings = Note(a, "start") \cup (IF start # None /\ a = None THEN {} ELSE Note(b, "finish"))
      /\ p.class = IF \/ start # None /\ a = None
                      \/ finish # None /\ b = None THEN "unparseable_date"
                   ELSE IF None \notin {a, b} /\ b.at < a.at THEN "backwards_window" ELSE None
      /\ p.window = IF None \in {a, b} THEN None
                    ELSE [start |-> a.at, end |-> IF b.at = a.at THEN b.at + 1 ELSE b.at]
  BY <1>3, <1>7 DEF WindowOf
<1>9. None # "backwards_window" /\ None # "unparseable_date"
  BY ExportsAssumption DEF Words
<1>10. p.findings \subseteq NotesAt(at + 1)
  BY <1>6, <1>8
<1>11. ASSUME p.class = None, p.window # None
       PROVE  /\ a # None /\ b # None /\ ~(b.at < a.at)
              /\ p.window = [start |-> a.at, end |-> IF b.at = a.at THEN b.at + 1 ELSE b.at]
              /\ p.findings = NotesAt(at + 1)
  <2>1. a # None /\ b # None
    BY <1>8, <1>11
  <2>2. ~(b.at < a.at)
    BY <1>8, <1>9, <1>11, <2>1
  <2> QED
    BY <1>6, <1>8, <1>11, <2>1, <2>2
<1> QED
  BY <1>4, <1>7, <1>10, <1>11

(* A TASK row serves at most an activity, and notes no more than its dates. *)
Dates_(k) ==
  /\ report.wall_clock_findings \subseteq report'.wall_clock_findings
  /\ report'.wall_clock_findings \subseteq report.wall_clock_findings \cup NotesAt(k)
  /\ \/ report'.activities = report.activities
     \/ \E e : report'.activities = Append(report.activities, e) /\ DatedAs(e, k)'

LEMMA DatesAnswered ==
  ASSUME TaskStep, IsReport(report)
  PROVE  \E k : k = at + 1 /\ Dates_(k)
<1>1. PICK k : k = at + 1
  OBVIOUS
<1>2. /\ IsRecord(report) /\ "activities" \in ReportFields /\ "wall_clock_findings" \in ReportFields
      /\ {"excluded_project", "excluded_loe", "excluded_wbs", "rejected"} \subseteq ReportFields
  BY DEF IsReport, ReportFields, Answers
<1>3. CASE ExcludeProject \/ ExcludeLoe \/ ExcludeWbs
  <2>1. PICK g \in {"excluded_project", "excluded_loe", "excluded_wbs"} :
          report' = [report EXCEPT ![g] = Append(@, Of("task_code"))]
    BY <1>3 DEF ExcludeProject, ExcludeLoe, ExcludeWbs, Excluded
  <2>2. report'.activities = report.activities /\ report'.wall_clock_findings = report.wall_clock_findings
    BY <1>2, <2>1 DEF IsRecord
  <2> QED
    BY <1>1, <2>2 DEF Dates_
<1>4. Noted \subseteq NotesAt(k)
  BY <1>1, RowIsDated DEF Noted
<1>5. CASE Quarantine
  <2>1. PICK e, w : e = Reject(Row.line, "TASK", Of("task_code"), Refusal)
                    /\ w = report.wall_clock_findings \cup Noted
    OBVIOUS
  <2>2. report' = [report EXCEPT !["rejected"] = Append(@, e), !["wall_clock_findings"] = w]
    BY <1>5, <2>1 DEF Quarantine
  <2>3. report'.activities = report.activities /\ report'.wall_clock_findings = w
    BY <1>2, <2>2 DEF IsRecord
  <2> QED
    BY <1>1, <1>4, <2>1, <2>3 DEF Dates_
<1>6. CASE Serve
  <2>1. PICK e, w : e = extract_activity /\ w = report.wall_clock_findings \cup Noted
    OBVIOUS
  <2>2. /\ report' = [report EXCEPT !["activities"] = Append(@, e), !["wall_clock_findings"] = w]
        /\ Refusal = None /\ UNCHANGED <<input, tables>>
    BY <1>6, <2>1 DEF Serve, Extracts, KeepsTasks
  <2>3. report'.activities = Append(report.activities, e) /\ report'.wall_clock_findings = w
    BY <1>2, <2>2 DEF IsRecord
  <2>4. Anonymous = None /\ planned_window.class = None /\ Noted = planned_window.findings
    BY <2>2 DEF Refusal, Noted
  <2>5. e.code = Says("TASK", k, "task_code") /\ e.planned = planned_window.window
    BY <1>1, <2>1 DEF extract_activity, Of, Says, Row, Tasks
  <2>6. \A n, f : Says("TASK", n, f)' = Says("TASK", n, f)
    BY <2>2, SaysAgain
  <2>7. StartAt(k)' = StartAt(k) /\ FinishAt(k)' = FinishAt(k) /\ NotesAt(k)' = NotesAt(k)
    BY <2>2, DatesStay
  <2>8. PICK a, b : a = StartAt(k) /\ b = FinishAt(k)
    OBVIOUS
  <2>9. e.planned # None =>
          /\ a # None /\ b # None /\ ~(b.at < a.at)
          /\ e.planned = [start |-> a.at, end |-> IF b.at = a.at THEN b.at + 1 ELSE b.at]
          /\ Noted = NotesAt(k)
    BY <1>1, <2>4, <2>5, <2>8, RowIsDated
  <2>10. e.planned # None =>
           /\ e.planned.start = a.at
           /\ e.planned.end = IF b.at = a.at THEN b.at + 1 ELSE b.at
           /\ NotesAt(k) \subseteq w
    BY <2>1, <2>9
  <2>11. DatedAs(e, k)'
    BY <2>3, <2>5, <2>6, <2>7, <2>8, <2>9, <2>10 DEF DatedAs
  <2> QED
    BY <1>1, <1>4, <2>1, <2>3, <2>11 DEF Dates_
<1> QED
  BY <1>3, <1>5, <1>6 DEF TaskStep

(* Every other step leaves the activities and the notes.                   *)
LEMMA DatesLeft ==
  ASSUME Read, Told, Reading \/ Resolving \/ UNCHANGED vars, ~TaskStep
  PROVE  report'.activities = report.activities /\ report'.wall_clock_findings = report.wall_clock_findings
<1>1. IsReport(report) /\ IsRecord(report) /\ "activities" \in ReportFields /\ "wall_clock_findings" \in ReportFields
  BY DEF Told, IsReport, ReportFields, Answers
<1>2. CASE Reading
  BY <1>1, <1>2, LineAnswered DEF ReportFields, Answers
<1>3. CASE ResolveTables
  <2>1. PICK ms, es, tr, fs :
          report' = [report EXCEPT !["material_skipped"] = ms, !["equipment_skipped"] = es,
                                   !["task_rows"] = tr, !["findings"] = fs]
    BY <1>3 DEF ResolveTables
  <2> QED
    BY <1>1, <2>1 DEF IsRecord
<1>4. CASE PredStep
  BY <1>1, <1>4, PredAnswered DEF ReportFields, Answers
<1>5. CASE LogicDone
  <2>1. PICK t : report' = [report EXCEPT !["rejected"] = t]
    BY <1>5 DEF LogicDone
  <2> QED
    BY <1>1, <2>1 DEF IsRecord
<1>6. CASE EndOfFile \/ TasksDone \/ UNCHANGED vars
  BY <1>6 DEF EndOfFile, TasksDone, vars
<1> QED
  BY <1>2, <1>3, <1>4, <1>5, <1>6 DEF Resolving, TaskStep, PredStep

LEMMA DatedStays ==
  ASSUME NEW n, Dated(n), UNCHANGED <<input, tables>>,
         report'.activities = report.activities, report'.wall_clock_findings = report.wall_clock_findings
  PROVE  Dated(n)'
<1>1. /\ \A m, f : Says("TASK", m, f)' = Says("TASK", m, f)
      /\ \A k : StartAt(k)' = StartAt(k) /\ FinishAt(k)' = FinishAt(k) /\ NotesAt(k)' = NotesAt(k)
  BY SaysAgain, DatesStay
<1>2. \A a, k : DatedAs(a, k)' = DatedAs(a, k)
  BY <1>1 DEF DatedAs
<1> QED
  BY <1>1, <1>2 DEF Dated

LEMMA DatedGrows ==
  ASSUME NEW n \in Nat, NEW m, m = n + 1, Dated(n), Dates_(m), UNCHANGED <<input, tables>>, IsReport(report)
  PROVE  Dated(m)'
<1>1. /\ \A j, f : Says("TASK", j, f)' = Says("TASK", j, f)
      /\ \A k : StartAt(k)' = StartAt(k) /\ FinishAt(k)' = FinishAt(k) /\ NotesAt(k)' = NotesAt(k)
  BY SaysAgain, DatesStay
<1>2. 1 .. m = (1 .. n) \cup {m}
  OBVIOUS
<1>3. \A w \in report'.wall_clock_findings : \E k \in 1 .. m : w \in NotesAt(k)'
  BY <1>1, <1>2 DEF Dated, Dates_
<1>4. \A a, k : DatedAs(a, k) => DatedAs(a, k)'
  BY <1>1 DEF DatedAs, Dates_
<1>5. PICK s : s = report.activities /\ IsSeq(s)
  BY DEF IsReport, Answers
<1>6. ASSUME NEW x \in DOMAIN report'.activities, NEW a, a = report'.activities[x]
      PROVE  \E k \in 1 .. m : DatedAs(a, k)'
  <2>1. CASE report'.activities = s
    BY <1>2, <1>4, <1>5, <1>6, <2>1 DEF Dated
  <2>2. ASSUME NEW e, report'.activities = Append(s, e), DatedAs(e, m)'
        PROVE  \E k \in 1 .. m : DatedAs(a, k)'
    <3>1. PICK t : t = Append(s, e)
      OBVIOUS
    <3>2. /\ DOMAIN t = DOMAIN s \cup {Len(s) + 1} /\ t[Len(s) + 1] = e
          /\ \A k \in DOMAIN s : t[k] = s[k]
      BY <1>5, <3>1, Appending
    <3>3. x \in DOMAIN t /\ a = t[x]
      BY <1>6, <2>2, <3>1
    <3>4. CASE x \in DOMAIN s
      <4>1. PICK k \in 1 .. n : DatedAs(s[x], k)
        BY <1>5, <3>4 DEF Dated
      <4>2. DatedAs(a, k)
        BY <3>2, <3>3, <3>4, <4>1
      <4> QED
        BY <1>2, <1>4, <4>2
    <3>5. CASE x = Len(s) + 1
      <4>1. a = e
        BY <3>2, <3>3, <3>5
      <4> QED
        BY <1>2, <2>2, <4>1
    <3> QED
      BY <3>2, <3>3, <3>4, <3>5
  <2> QED
    BY <1>5, <2>1, <2>2 DEF Dates_
<1>7. ASSUME NEW x \in DOMAIN report'.activities
      PROVE  \E k \in 1 .. m : DatedAs(report.activities[x], k)'
  <2>1. PICK a : a = report'.activities[x]
    OBVIOUS
  <2>2. PICK k \in 1 .. m : DatedAs(a, k)'
    BY <1>6, <2>1
  <2>3. DatedAs(report.activities[x], k)'
    BY <2>1, <2>2 DEF DatedAs
  <2> QED
    BY <2>3
<1> QED
  BY <1>3, <1>7 DEF Dated

LEMMA InitDated ==
  ASSUME Init
  PROVE  WindowsTold
<1>1. stage = "reading" /\ valid_clock(input.clock) /\ report = NoReport
  BY DEF Init
<1>2. report.activities = << >> /\ report.wall_clock_findings = {} /\ DOMAIN << >> = {}
  BY <1>1 DEF NoReport
<1>3. Dated(0)
  BY <1>2 DEF Dated
<1> QED
  BY <1>1, <1>3 DEF WindowsTold

LEMMA DatedStep ==
  ASSUME Read, Told, WindowsTold, [Next]_vars
  PROVE  WindowsTold'
<1>1. CASE Reading
  <2>1. stage = "reading" /\ stage' \in {"reading", "tables"} /\ input' = input
    BY <1>1, LineAnswered DEF Told
  <2>2. report'.activities = report.activities /\ report'.wall_clock_findings = report.wall_clock_findings
    BY <1>1, DatesLeft, TaskAnswered, <2>1 DEF Told
  <2>3. Dated(0)
    BY <2>1 DEF WindowsTold
  <2>4. report.activities = report'.activities /\ DOMAIN report.activities = {} /\ report.wall_clock_findings = {}
    <3>1. \A k \in 1 .. 0 : FALSE
      OBVIOUS
    <3> QED
      BY <2>2, <2>3, <3>1 DEF Dated
  <2>5. Dated(0)'
    BY <2>2, <2>4 DEF Dated
  <2> QED
    BY <2>1, <2>5 DEF WindowsTold
<1>2. CASE TaskStep
  <2>1. /\ stage = "tasks" /\ stage' = "tasks" /\ at' = at + 1 /\ IsReport(report)
        /\ UNCHANGED <<input, tables>> /\ at \in Nat
    BY <1>2, TaskAnswered DEF Told
  <2>2. PICK n, k : n = at /\ k = at + 1 /\ Dates_(k)
    BY <1>2, <2>1, DatesAnswered
  <2>3. Dated(n) /\ n \in Nat /\ k = n + 1
    BY <2>1, <2>2 DEF WindowsTold
  <2>4. Dated(k)'
    BY <2>1, <2>2, <2>3, DatedGrows
  <2>5. Dated(at)'
    BY <2>1, <2>2, <2>4
  <2> QED
    BY <2>1, <2>5 DEF WindowsTold
<1>3. CASE (Resolving \/ UNCHANGED vars) /\ ~TaskStep
  <2>1. UNCHANGED <<input, tables>>
    BY <1>3, KeepsExport
  <2>2. report'.activities = report.activities /\ report'.wall_clock_findings = report.wall_clock_findings
    BY <1>3, DatesLeft
  <2>3. \A n : Dated(n) => Dated(n)'
    BY <2>1, <2>2, DatedStays
  <2>4. Tasks' = Tasks
    BY <2>1, SaysAgain
  <2>5. PICK a, b, c : a = 0 /\ b = at /\ c = Len(Tasks.rows)
    OBVIOUS
  <2>6. /\ stage \in {"reading", "tables"} => Dated(a)'
        /\ stage = "tasks" => Dated(b)'
        /\ stage \in {"logic", "done"} => Dated(c)'
    BY <2>3, <2>5 DEF WindowsTold
  <2>7. Dated(a)' = Dated(0)' /\ Dated(c)' = Dated(Len(Tasks.rows))' /\ (at' = b => Dated(b)' = Dated(at)')
    BY <2>4, <2>5
  <2>8. \/ stage \in {"reading", "tables"} /\ stage' \in {"reading", "tables"}
        \/ stage = "tables" /\ stage' = "tasks" /\ at' = 0
        \/ stage = "tasks" /\ stage' = "logic" /\ at = Len(Tasks.rows)
        \/ stage \in {"logic", "done"} /\ stage' \in {"logic", "done"}
        \/ UNCHANGED <<stage, at>>
    <3>1. CASE EndOfFile \/ UNCHANGED vars \/ TasksDone \/ LogicDone
      BY <3>1 DEF EndOfFile, vars, TasksDone, LogicDone
    <3>2. CASE ResolveTables
      BY <3>2 DEF ResolveTables, Told, Unanswered
    <3>3. CASE PredStep
      BY <3>3, PredAnswered DEF Told
    <3> QED
      BY <1>3, <3>1, <3>2, <3>3 DEF Resolving, TaskStep, PredStep
  <2>9. valid_clock(input.clock)'
    BY <2>1 DEF WindowsTold
  <2>10. CASE stage = "tables" /\ stage' = "tasks" /\ at' = 0
    <3>1. Dated(a)' /\ (Dated(a)' = Dated(at)')
      BY <2>5, <2>6, <2>10
    <3> QED
      BY <2>9, <2>10, <3>1 DEF WindowsTold
  <2>11. CASE stage = "tasks" /\ stage' = "logic" /\ at = Len(Tasks.rows)
    <3>1. Dated(b)' /\ b = c
      BY <2>5, <2>6, <2>11
    <3> QED
      BY <2>7, <2>9, <2>11, <3>1 DEF WindowsTold
  <2>12. CASE stage \in {"reading", "tables"} /\ stage' \in {"reading", "tables"}
    BY <2>6, <2>7, <2>9, <2>12 DEF WindowsTold
  <2>13. CASE stage \in {"logic", "done"} /\ stage' \in {"logic", "done"}
    BY <2>6, <2>7, <2>9, <2>13 DEF WindowsTold
  <2>14. CASE UNCHANGED <<stage, at>>
    BY <2>5, <2>6, <2>7, <2>9, <2>14 DEF WindowsTold
  <2> QED
    BY <2>8, <2>10, <2>11, <2>12, <2>13, <2>14
<1> QED
  BY <1>1, <1>2, <1>3 DEF Next, Reading, Resolving

(* A note of a served row's date, and what it says.                        *)
NotesOf(i, what) == {w.note : w \in {v \in report.wall_clock_findings : v.row = i /\ v.what = what}}
TheNote(a) == IF a.note = None THEN {} ELSE {a.note}

LEMMA NotedOf ==
  ASSUME Read, NEW k \in DOMAIN Tasks.rows, NEW n, Dated(n), 1 .. n = DOMAIN Tasks.rows,
         NotesAt(k) \subseteq report.wall_clock_findings, NEW what, NEW a,
         \/ what = "start" /\ a = StartAt(k)
         \/ what = "finish" /\ a = FinishAt(k),
         a # None
  PROVE  NotesOf(LineOf("TASK", k), what) = TheNote(a)
<1>1. \A j \in DOMAIN Tasks.rows : LineOf("TASK", j) = LineOf("TASK", k) => j = k
  BY RowsSay, Named_ DEF Tasks
<1>2. "start" # "finish"
  OBVIOUS
<1>3. \A j, b, x, w : w \in NoteAt(j, b, x) <=>
        b # None /\ b.note # None /\ w = [row |-> LineOf("TASK", j), what |-> x, note |-> b.note]
  BY DEF NoteAt
<1>4. \A j, w : w \in NotesAt(j) => w.row = LineOf("TASK", j)
  BY <1>3 DEF NotesAt
<1>5. ASSUME NEW w \in report.wall_clock_findings, w.row = LineOf("TASK", k), w.what = what
      PROVE  a.note # None /\ w.note = a.note
  <2>1. PICK j \in DOMAIN Tasks.rows : w \in NotesAt(j)
    BY DEF Dated
  <2>2. j = k
    BY <1>1, <1>4, <1>5, <2>1
  <2>3. w \in NoteAt(k, StartAt(k), "start") \/ w \in NoteAt(k, FinishAt(k), "finish")
    BY <2>1, <2>2 DEF NotesAt
  <2>4. PICK s, f : s = StartAt(k) /\ f = FinishAt(k)
    OBVIOUS
  <2>5. \/ s.note # None /\ w.what = "start" /\ w.note = s.note
        \/ f.note # None /\ w.what = "finish" /\ w.note = f.note
    BY <1>3, <2>3, <2>4
  <2> QED
    BY <1>2, <1>5, <2>4, <2>5
<1>6. ASSUME a.note # None
      PROVE  \E w \in report.wall_clock_findings : w.row = LineOf("TASK", k) /\ w.what = what /\ w.note = a.note
  <2>1. PICK w : w = [row |-> LineOf("TASK", k), what |-> what, note |-> a.note]
    OBVIOUS
  <2>2. w \in NoteAt(k, a, what)
    BY <1>3, <1>6, <2>1
  <2>3. w \in NotesAt(k)
    BY <2>2 DEF NotesAt
  <2> QED
    BY <2>1, <2>3
<1> QED
  BY <1>5, <1>6 DEF NotesOf, TheNote

LEMMA ReadsSo ==
  ASSUME valid_clock(input.clock), NEW cell, NEW a, a = parse_when(cell), a # None, NEW i, NEW what,
         NotesOf(i, what) = TheNote(a)
  PROVE  a.at \in Int /\ ReadsAs(i, cell, what, a.at)
<1>1. PICK wall : wall = WallOf[cell]
  OBVIOUS
<1>2. cell \in DOMAIN WallOf /\ a = to_utc(input.clock, wall.days, wall.minute)
  BY <1>1 DEF parse_when
<1>3. wall \in [days : Int, minute : 0 .. (Day - 1)]
  BY <1>1, <1>2, WallAssumption
<1>4. PICK S : S = InstantsOf(input.clock, wall)
  OBVIOUS
<1>5. ReadsRightly(input.clock, S, a)
  BY <1>2, <1>3, <1>4, WallIsRead
<1>6. PICK noted : noted = NotesOf(i, what)
  OBVIOUS
<1>7. Instants(WallOf[cell]) = S
  <2>2. PICK T : T = {wall.days * Day + wall.minute - 15 * k : k \in -56 .. 56}
    OBVIOUS
  <2>3. S = {t \in T : local(input.clock, t) = wall}
    BY <1>4, <2>2 DEF InstantsOf
  <2>4. Instants(wall) = {t \in T : local(input.clock, t) = wall}
    BY <2>2 DEF Instants
  <2>1. Instants(wall) = S
    BY <2>3, <2>4
  <2> QED
    BY <1>1, <2>1
<1>8. None # "gap" /\ None # "overlap"
  BY ExportsAssumption DEF Words
<1>9. Cardinality({}) = 0
  BY FS_EmptySet
<1>10. \/ S = {} /\ noted = {"gap"}
       \/ S # {} /\ Cardinality(S) = 1 /\ a.at \in S /\ noted = {}
       \/ /\ S # {} /\ Cardinality(S) # 1 /\ a.at \in S /\ noted = {"overlap"}
          /\ input.clock.daylight.offset > input.clock.standard => a.at = Min(S)
  BY <1>5, <1>6, <1>8, <1>9 DEF ReadsRightly, TheNote
<1>11. ReadsAs(i, cell, what, a.at)
         = CASE S = {} -> noted = {"gap"}
             [] Cardinality(S) = 1 -> a.at \in S /\ noted = {}
             [] OTHER -> /\ a.at \in S /\ noted = {"overlap"}
                         /\ input.clock.daylight.offset > input.clock.standard => a.at = Min(S)
  BY <1>6, <1>7 DEF ReadsAs, NotesOf
<1>12. CASE S = {}
  <2>1. noted = {"gap"} /\ Cardinality(S) # 1 /\ a.at \in Int
    BY <1>5, <1>9, <1>10, <1>12 DEF ReadsRightly
  <2> QED
    BY <1>11, <1>12, <2>1
<1>13. CASE S # {} /\ Cardinality(S) = 1
  BY <1>5, <1>10, <1>11, <1>13 DEF ReadsRightly
<1>14. CASE S # {} /\ Cardinality(S) # 1
  BY <1>5, <1>10, <1>11, <1>14 DEF ReadsRightly
<1> QED
  BY <1>12, <1>13, <1>14

(* A served window reads on the yard's wall as the file states it, with a   *)
(* note where the wall names no instant or two (planned_window, to_utc).   *)
THEOREM WindowsAlwaysHonest ==
  Spec => []WindowsAreHonest
<1>1. Init => WindowsTold
  BY InitDated
<1>2. Read /\ Told /\ WindowsTold /\ [Next]_vars => WindowsTold'
  BY DatedStep
<1>3. Read /\ Told /\ WindowsTold => WindowsAreHonest
  <2> SUFFICES ASSUME Read, Told, WindowsTold, Done, HeadedOnce,
                      NEW a \in ToSet(report.activities), a.planned # None
               PROVE  \E i \in Whole("TASK") :
                        /\ Said(i, "task_code") = a.code
                        /\ a.planned.start < a.planned.end
                        /\ ReadsAs(i, Stated(i, "act_start_date", "early_start_date"), "start",
                                   a.planned.start)
                        /\ \/ ReadsAs(i, Stated(i, "act_end_date", "early_end_date"), "finish", a.planned.end)
                           \/ /\ a.planned.end = a.planned.start + 1
                              /\ ReadsAs(i, Stated(i, "act_end_date", "early_end_date"), "finish",
                                         a.planned.start)
    BY DEF WindowsAreHonest
  <2>1. PICK n : n = Len(Tasks.rows)
    OBVIOUS
  <2>2. Dated(n) /\ valid_clock(input.clock) /\ 1 .. n = DOMAIN Tasks.rows
    BY <2>1, RowsSay, SeqIs, Named_ DEF WindowsTold, Done, Tasks
  <2>3. PICK k \in DOMAIN Tasks.rows : DatedAs(a, k)
    BY <2>2 DEF Dated, ToSet
  <2>4. PICK i : i = LineOf("TASK", k)
    OBVIOUS
  <2>5. i \in Whole("TASK") /\ \A f : Said(i, f) = Says("TASK", k, f)
    BY <2>4, RowsSay, Named_ DEF Tasks
  <2>6. PICK s, f : s = StartAt(k) /\ f = FinishAt(k)
    OBVIOUS
  <2>7. /\ Said(i, "task_code") = a.code
        /\ s # None /\ f # None /\ ~(f.at < s.at) /\ a.planned.start = s.at
        /\ a.planned.end = IF f.at = s.at THEN f.at + 1 ELSE f.at
        /\ NotesAt(k) \subseteq report.wall_clock_findings
    BY <2>3, <2>5, <2>6 DEF DatedAs
  <2>8. PICK c, d : /\ c = CellAt(k, "act_start_date", "early_start_date")
                    /\ d = CellAt(k, "act_end_date", "early_end_date")
    OBVIOUS
  <2>9. /\ Stated(i, "act_start_date", "early_start_date") = c /\ s = parse_when(c)
        /\ Stated(i, "act_end_date", "early_end_date") = d /\ f = parse_when(d)
    BY <2>5, <2>6, <2>8 DEF Stated, CellAt, StartAt, FinishAt
  <2>10. NotesOf(i, "start") = TheNote(s)
    BY <2>2, <2>4, <2>6, <2>7, NotedOf
  <2>11. NotesOf(i, "finish") = TheNote(f)
    BY <2>2, <2>4, <2>6, <2>7, NotedOf
  <2>12. s.at \in Int /\ ReadsAs(i, c, "start", s.at)
    BY <2>2, <2>7, <2>9, <2>10, ReadsSo
  <2>13. f.at \in Int /\ ReadsAs(i, d, "finish", f.at)
    BY <2>2, <2>7, <2>9, <2>11, ReadsSo
  <2>14. a.planned.start < a.planned.end
    BY <2>7, <2>12, <2>13
  <2>15. CASE f.at = s.at
    BY <2>5, <2>7, <2>9, <2>12, <2>13, <2>14, <2>15
  <2>16. CASE f.at # s.at
    BY <2>5, <2>7, <2>9, <2>12, <2>13, <2>14, <2>16
  <2> QED
    BY <2>15, <2>16
<1> QED
  BY <1>1, <1>2, <1>3, IngestsInOrder, PTL DEF Spec

-----------------------------------------------------------------------------
LEMMA Climb ==
  ASSUME NEW m \in Nat, NEW P, 0 \in P, \A n \in 1 .. m : n - 1 \in P => n \in P
  PROVE  \A n \in 0 .. m : n \in P
<1> DEFINE Bad == {n \in 0 .. m : n \notin P}
<1>1. SUFFICES ASSUME Bad # {} PROVE FALSE
  OBVIOUS
<1>2. PICK n \in Bad : \A k \in Bad : n <= k
  <2> HIDE DEF Bad
  <2>1. Bad \subseteq Nat
    BY DEF Bad
  <2> QED
    BY <1>1, <2>1, Least
<1>3. n \in 1 .. m /\ n - 1 \in 0 .. m /\ n - 1 \notin Bad
  BY <1>2
<1> QED
  BY <1>2, <1>3

(* Sums over finite sets, as the fold that adds an element at a time finds *)
(* them: Sums(f) of every set of places of f.                              *)
One(s) == CHOOSE x \in s : TRUE
IsSum(it, f) ==
  it = [s \in SUBSET DOMAIN f |-> IF s = {} THEN 0 ELSE f[One(s)] + it[s \ {One(s)}]]
Sums(f) == CHOOSE it : IsSum(it, f)

(* The same of the sets of n elements at most.                             *)
NoMore(f, n) == {s \in SUBSET DOMAIN f : Cardinality(s) <= n}
IsPart(it, f, n) ==
  it = [s \in NoMore(f, n) |-> IF s = {} THEN 0 ELSE f[One(s)] + it[s \ {One(s)}]]

LEMMA OneOf ==
  ASSUME NEW s, s # {}
  PROVE  One(s) \in s
BY DEF One

(* There is such a sum, built up from the smaller sets.                    *)
LEMMA SumExists ==
  ASSUME NEW f, IsFiniteSet(DOMAIN f)
  PROVE  IsSum(Sums(f), f)
<1>1. PICK m \in Nat : m = Cardinality(DOMAIN f)
  BY FS_CardinalityType
<1>2. \A s \in SUBSET DOMAIN f : IsFiniteSet(s) /\ Cardinality(s) \in 0 .. m
  <2>1. ASSUME NEW s \in SUBSET DOMAIN f PROVE IsFiniteSet(s) /\ Cardinality(s) \in 0 .. m
    <3>1. IsFiniteSet(s) /\ Cardinality(s) <= m
      BY <1>1, FS_Subset
    <3>2. Cardinality(s) \in Nat
      BY <3>1, FS_CardinalityType
    <3> QED
      BY <3>1, <3>2
  <2> QED
    BY <2>1
<1>3. ASSUME NEW n \in 1 .. m, NEW s \in NoMore(f, n), s # {}
      PROVE  One(s) \in s /\ s \ {One(s)} \in NoMore(f, n - 1)
  <2>1. s \in SUBSET DOMAIN f /\ Cardinality(s) <= n
    BY <1>3 DEF NoMore
  <2>2. One(s) \in s
    BY <1>3, OneOf
  <2>3. Cardinality(s \ {One(s)}) = Cardinality(s) - 1
    BY <1>2, <2>1, <2>2, FS_RemoveElement
  <2>4. s \ {One(s)} \in SUBSET DOMAIN f
    BY <2>1
  <2> QED
    BY <1>2, <2>1, <2>2, <2>3, <2>4 DEF NoMore
<1> DEFINE P == {n \in 0 .. m : \E it : IsPart(it, f, n)}
<1>4. 0 \in P
  <2>1. PICK a : a = [s \in NoMore(f, 0) |-> 0]
    OBVIOUS
  <2>2. ASSUME NEW s \in NoMore(f, 0) PROVE s = {}
    <3>1. IsFiniteSet(s) /\ Cardinality(s) = 0
      BY <1>2 DEF NoMore
    <3> QED
      BY <3>1, FS_EmptySet
  <2>3. a = [s \in NoMore(f, 0) |-> IF s = {} THEN 0 ELSE f[One(s)] + a[s \ {One(s)}]]
    BY <2>1, <2>2
  <2>4. IsPart(a, f, 0)
    BY <2>3 DEF IsPart
  <2> QED
    BY <2>4
<1>5. ASSUME NEW n \in 1 .. m, n - 1 \in P PROVE n \in P
  <2>1. PICK a : IsPart(a, f, n - 1)
    BY <1>5
  <2>2. PICK b : b = [s \in NoMore(f, n) |-> IF s = {} THEN 0 ELSE f[One(s)] + a[s \ {One(s)}]]
    OBVIOUS
  <2>3. NoMore(f, n - 1) \subseteq NoMore(f, n)
    BY <1>2 DEF NoMore
  <2>4. ASSUME NEW s \in NoMore(f, n - 1) PROVE b[s] = a[s]
    <3>1. PICK c : c = [t \in NoMore(f, n - 1) |-> IF t = {} THEN 0 ELSE f[One(t)] + a[t \ {One(t)}]]
      OBVIOUS
    <3>2. a = c
      BY <2>1, <3>1 DEF IsPart
    <3>3. c[s] = IF s = {} THEN 0 ELSE f[One(s)] + a[s \ {One(s)}]
      BY <3>1
    <3>4. b[s] = IF s = {} THEN 0 ELSE f[One(s)] + a[s \ {One(s)}]
      BY <2>2, <2>3
    <3> QED
      BY <3>2, <3>3, <3>4
  <2>5. \A s \in NoMore(f, n) : s # {} => b[s \ {One(s)}] = a[s \ {One(s)}]
    BY <1>3, <2>4
  <2>6. b = [s \in NoMore(f, n) |-> IF s = {} THEN 0 ELSE f[One(s)] + b[s \ {One(s)}]]
    BY <2>2, <2>5
  <2>7. IsPart(b, f, n)
    BY <2>6 DEF IsPart
  <2> QED
    BY <2>7
<1>6. m \in P
  <2>1. m \in 0 .. m
    OBVIOUS
  <2> HIDE DEF P
  <2> QED
    BY <1>4, <1>5, <2>1, Climb
<1>7. NoMore(f, m) = SUBSET DOMAIN f
  BY <1>2 DEF NoMore
<1>8. \E it : IsSum(it, f)
  BY <1>6, <1>7 DEF IsPart, IsSum
<1> QED
  BY <1>8 DEF Sums

(* A set of finite sets closed under one element more holds every one.     *)
LEMMA Gather ==
  ASSUME NEW S, IsFiniteSet(S), NEW Q, {} \in Q,
         \A s \in SUBSET S : \A x \in S \ s : s \in Q => s \cup {x} \in Q
  PROVE  \A s \in SUBSET S : s \in Q
<1>1. PICK m \in Nat : m = Cardinality(S)
  BY FS_CardinalityType
<1> DEFINE P == {n \in 0 .. m : \A s \in SUBSET S : Cardinality(s) = n => s \in Q}
<1>2. \A s \in SUBSET S : IsFiniteSet(s) /\ Cardinality(s) \in 0 .. m
  <2>1. ASSUME NEW s \in SUBSET S PROVE IsFiniteSet(s) /\ Cardinality(s) \in 0 .. m
    <3>1. IsFiniteSet(s) /\ Cardinality(s) <= m
      BY <1>1, FS_Subset
    <3>2. Cardinality(s) \in Nat
      BY <3>1, FS_CardinalityType
    <3> QED
      BY <3>1, <3>2
  <2> QED
    BY <2>1
<1>3. 0 \in P
  BY <1>2, FS_EmptySet
<1>4. ASSUME NEW n \in 1 .. m, n - 1 \in P PROVE n \in P
  <2>1. ASSUME NEW s \in SUBSET S, Cardinality(s) = n PROVE s \in Q
    <3>1. s # {}
      BY <2>1, FS_EmptySet
    <3>2. PICK x \in s : TRUE
      BY <3>1
    <3>3. PICK t : t = s \ {x}
      OBVIOUS
    <3>4. t \in SUBSET S /\ x \in S \ t /\ s = t \cup {x}
      BY <3>3
    <3>5. Cardinality(t) = n - 1
      BY <1>2, <2>1, <3>3, FS_RemoveElement
    <3>6. t \in Q
      BY <1>4, <3>4, <3>5
    <3> QED
      BY <3>4, <3>6
  <2> QED
    BY <2>1
<1>5. \A n \in 0 .. m : n \in P
  <2> HIDE DEF P
  <2> QED
    BY <1>3, <1>4, Climb
<1> QED
  BY <1>2, <1>5

(* It does not matter which is added first.                                *)
LEMMA SumsOf ==
  ASSUME NEW f, IsFiniteSet(DOMAIN f), \A x \in DOMAIN f : f[x] \in Int
  PROVE  /\ Sums(f)[{}] = 0
         /\ \A s \in SUBSET DOMAIN f : Sums(f)[s] \in Int
         /\ \A s \in SUBSET DOMAIN f : \A x \in s : Sums(f)[s] = f[x] + Sums(f)[s \ {x}]
<1>1. PICK S : S = DOMAIN f
  OBVIOUS
<1>2. PICK it : it = Sums(f)
  OBVIOUS
<1>3. it = [s \in SUBSET S |-> IF s = {} THEN 0 ELSE f[One(s)] + it[s \ {One(s)}]]
  BY <1>1, <1>2, SumExists DEF IsSum
<1>4. \A s \in SUBSET S : it[s] = IF s = {} THEN 0 ELSE f[One(s)] + it[s \ {One(s)}]
  <2>1. PICK c : c = [s \in SUBSET S |-> IF s = {} THEN 0 ELSE f[One(s)] + it[s \ {One(s)}]]
    OBVIOUS
  <2>2. it = c
    BY <1>3, <2>1
  <2> QED
    BY <2>1, <2>2
<1>5. it[{}] = 0
  BY <1>4
<1>6. PICK m \in Nat : m = Cardinality(S)
  BY <1>1, FS_CardinalityType
<1>7. \A s \in SUBSET S : IsFiniteSet(s) /\ Cardinality(s) \in 0 .. m
  <2>1. ASSUME NEW s \in SUBSET S PROVE IsFiniteSet(s) /\ Cardinality(s) \in 0 .. m
    <3>1. IsFiniteSet(s) /\ Cardinality(s) <= m
      BY <1>1, <1>6, FS_Subset
    <3>2. Cardinality(s) \in Nat
      BY <3>1, FS_CardinalityType
    <3> QED
      BY <3>1, <3>2
  <2> QED
    BY <2>1
<1> DEFINE Fine(s) == it[s] \in Int /\ \A x \in s : it[s] = f[x] + it[s \ {x}]
           P == {n \in 0 .. m : \A s \in SUBSET S : Cardinality(s) <= n => Fine(s)}
<1>8. 0 \in P
  <2>1. ASSUME NEW s \in SUBSET S, Cardinality(s) <= 0 PROVE Fine(s)
    <3>1. s = {}
      BY <1>7, <2>1, FS_EmptySet
    <3> QED
      BY <1>5, <3>1
  <2> QED
    BY <2>1
<1>9. ASSUME NEW n \in 1 .. m, n - 1 \in P PROVE n \in P
  <2>1. \A s \in SUBSET S : Cardinality(s) <= n - 1 => Fine(s)
    BY <1>9
  <2>2. ASSUME NEW s \in SUBSET S, Cardinality(s) = n PROVE Fine(s)
    <3>1. s # {}
      BY <2>2, FS_EmptySet
    <3>2. PICK y : y = One(s)
      OBVIOUS
    <3>3. y \in s /\ it[s] = f[y] + it[s \ {y}]
      BY <1>4, <3>1, <3>2, OneOf
    <3>4. \A x \in s : s \ {x} \in SUBSET S /\ Cardinality(s \ {x}) <= n - 1
      <4>1. \A x \in s : Cardinality(s \ {x}) = n - 1
        BY <1>7, <2>2, FS_RemoveElement
      <4> QED
        BY <4>1
    <3>5. \A x \in s : Fine(s \ {x})
      BY <2>1, <3>4
    <3>6. it[s] \in Int
      BY <1>1, <3>3, <3>5
    <3>7. ASSUME NEW x \in s, x # y PROVE it[s] = f[x] + it[s \ {x}]
      <4>1. PICK t : t = (s \ {y}) \ {x}
        OBVIOUS
      <4>2. t = (s \ {x}) \ {y} /\ x \in s \ {y} /\ y \in s \ {x}
        BY <3>3, <3>7, <4>1
      <4>3. it[s \ {y}] = f[x] + it[t]
        BY <3>3, <3>5, <4>1, <4>2
      <4>4. it[s \ {x}] = f[y] + it[t]
        BY <3>5, <4>2
      <4>5. it[t] \in Int
        <5>1. t \in SUBSET S /\ Cardinality(t) <= n - 1
          <6>1. t \in SUBSET (s \ {y}) /\ IsFiniteSet(s \ {y}) /\ Cardinality(s \ {y}) <= n - 1
            BY <1>7, <3>3, <3>4, <4>1
          <6>2. Cardinality(t) <= Cardinality(s \ {y})
            BY <6>1, FS_Subset
          <6>3. Cardinality(t) \in 0 .. m /\ Cardinality(s \ {y}) \in 0 .. m
            BY <1>7, <3>4, <3>3, <6>1
          <6> QED
            BY <6>1, <6>2, <6>3
        <5> QED
          BY <2>1, <5>1
      <4>6. f[x] \in Int /\ f[y] \in Int
        BY <1>1, <3>3
      <4>7. PICK i \in Int : i = it[t]
        BY <4>5
      <4>8. it[s] = f[y] + (f[x] + i)
        BY <3>3, <4>3, <4>7
      <4>9. it[s \ {x}] = f[y] + i
        BY <4>4, <4>7
      <4> QED
        BY <4>6, <4>8, <4>9
    <3> QED
      BY <3>3, <3>6, <3>7
  <2>3. \A s \in SUBSET S : Cardinality(s) <= n => Fine(s)
    <3> HIDE DEF Fine
    <3> QED
      BY <1>7, <2>1, <2>2
  <2> QED
    BY <2>3
<1>10. m \in P
  <2>1. m \in 0 .. m
    OBVIOUS
  <2> HIDE DEF P
  <2> QED
    BY <1>8, <1>9, <2>1, Climb
<1>11. \A s \in SUBSET S : Fine(s)
  BY <1>7, <1>10
<1> QED
  BY <1>1, <1>2, <1>5, <1>11

(* A family of numbers: its places are finite.                             *)
Family(f) == IsFiniteSet(DOMAIN f) /\ \A x \in DOMAIN f : f[x] \in Int

(* One element more.                                                       *)
LEMMA SumsAdd ==
  ASSUME NEW f, Family(f), NEW s \in SUBSET DOMAIN f, NEW x \in DOMAIN f, x \notin s
  PROVE  /\ s \cup {x} \in SUBSET DOMAIN f
         /\ Sums(f)[s \cup {x}] = f[x] + Sums(f)[s]
         /\ Sums(f)[s] \in Int /\ f[x] \in Int
<1>1. PICK t : t = s \cup {x}
  OBVIOUS
<1>2. t \in SUBSET DOMAIN f /\ x \in t /\ t \ {x} = s
  BY <1>1
<1>3. Sums(f)[t] = f[x] + Sums(f)[t \ {x}] /\ Sums(f)[s] \in Int
  BY <1>2, SumsOf DEF Family
<1> QED
  BY <1>1, <1>2, <1>3 DEF Family

(* Families alike on a set have one sum over it.                           *)
LEMMA SumsAgree ==
  ASSUME NEW f, Family(f), NEW g, Family(g), NEW S, S \subseteq DOMAIN f, S \subseteq DOMAIN g,
         \A x \in S : f[x] = g[x]
  PROVE  Sums(f)[S] = Sums(g)[S]
<1> DEFINE Q == {s \in SUBSET S : Sums(f)[s] = Sums(g)[s]}
<1>1. IsFiniteSet(S)
  BY FS_Subset DEF Family
<1>2. {} \in Q
  BY SumsOf DEF Family
<1>3. ASSUME NEW s \in SUBSET S, NEW x \in S \ s, s \in Q PROVE s \cup {x} \in Q
  <2>1. Sums(f)[s \cup {x}] = f[x] + Sums(f)[s]
    BY <1>3, SumsAdd
  <2>2. Sums(g)[s \cup {x}] = g[x] + Sums(g)[s]
    BY <1>3, SumsAdd
  <2> QED
    BY <1>3, <2>1, <2>2
<1>4. S \in Q
  <2> HIDE DEF Q
  <2> QED
    BY <1>1, <1>2, <1>3, Gather
<1> QED
  BY <1>4

(* There is one sum.                                                       *)
LEMMA SumIs ==
  ASSUME NEW f, Family(f), NEW it, IsSum(it, f)
  PROVE  it[DOMAIN f] = Sums(f)[DOMAIN f]
<1>1. IsSum(Sums(f), f)
  BY SumExists DEF Family
<1>2. \A s \in SUBSET DOMAIN f : it[s] = IF s = {} THEN 0 ELSE f[One(s)] + it[s \ {One(s)}]
  <2>1. PICK c : c = [s \in SUBSET DOMAIN f |-> IF s = {} THEN 0 ELSE f[One(s)] + it[s \ {One(s)}]]
    OBVIOUS
  <2>2. it = c
    BY <2>1 DEF IsSum
  <2> QED
    BY <2>1, <2>2
<1>3. PICK sums : sums = Sums(f)
  OBVIOUS
<1>4. \A s \in SUBSET DOMAIN f : sums[s] = IF s = {} THEN 0 ELSE f[One(s)] + sums[s \ {One(s)}]
  <2>1. PICK c : c = [s \in SUBSET DOMAIN f |-> IF s = {} THEN 0 ELSE f[One(s)] + sums[s \ {One(s)}]]
    OBVIOUS
  <2>2. sums = c
    BY <1>1, <1>3, <2>1 DEF IsSum
  <2> QED
    BY <2>1, <2>2
<1> DEFINE R == {n \in 0 .. Cardinality(DOMAIN f) :
                   \A s \in SUBSET DOMAIN f : Cardinality(s) = n => it[s] = sums[s]}
<1>5. PICK m \in Nat : m = Cardinality(DOMAIN f)
  BY FS_CardinalityType DEF Family
<1>6. \A s \in SUBSET DOMAIN f : IsFiniteSet(s) /\ Cardinality(s) \in 0 .. m
  <2>1. ASSUME NEW s \in SUBSET DOMAIN f PROVE IsFiniteSet(s) /\ Cardinality(s) \in 0 .. m
    <3>1. IsFiniteSet(s) /\ Cardinality(s) <= m
      BY <1>5, FS_Subset DEF Family
    <3>2. Cardinality(s) \in Nat
      BY <3>1, FS_CardinalityType
    <3> QED
      BY <3>1, <3>2
  <2> QED
    BY <2>1
<1>7. 0 \in R
  BY <1>2, <1>4, <1>5, <1>6, FS_EmptySet
<1>8. ASSUME NEW n \in 1 .. m, n - 1 \in R PROVE n \in R
  <2>1. ASSUME NEW s \in SUBSET DOMAIN f, Cardinality(s) = n PROVE it[s] = sums[s]
    <3>1. s # {}
      BY <2>1, FS_EmptySet
    <3>2. One(s) \in s
      BY <3>1, OneOf
    <3>3. Cardinality(s \ {One(s)}) = n - 1 /\ s \ {One(s)} \in SUBSET DOMAIN f
      BY <1>6, <2>1, <3>2, FS_RemoveElement
    <3>4. it[s \ {One(s)}] = sums[s \ {One(s)}]
      BY <1>8, <3>3
    <3> QED
      BY <1>2, <1>4, <3>1, <3>4
  <2> QED
    BY <1>5, <2>1
<1>9. m \in R
  <2>1. m \in 0 .. m
    OBVIOUS
  <2> HIDE DEF R
  <2> QED
    BY <1>7, <1>8, <2>1, Climb
<1> QED
  BY <1>3, <1>5, <1>9

(* One family's places told for another's, one for one.                    *)
LEMMA SumsReindexed ==
  ASSUME NEW f, Family(f), NEW g, Family(g), NEW S, S \subseteq DOMAIN f, NEW h \in [S -> DOMAIN g],
         \A x, y \in S : h[x] = h[y] => x = y, \A x \in S : g[h[x]] = f[x],
         NEW T, \A y : y \in T <=> \E x \in S : h[x] = y
  PROVE  Sums(f)[S] = Sums(g)[T]
<1> DEFINE Q == {s \in SUBSET S : Sums(f)[s] = Sums(g)[{h[x] : x \in s}]}
<1>1. IsFiniteSet(S)
  BY FS_Subset DEF Family
<1>2. {} \in Q
  <2>1. {h[x] : x \in {}} = {}
    OBVIOUS
  <2>2. Sums(f)[{}] = 0 /\ Sums(g)[{}] = 0
    BY SumsOf DEF Family
  <2> QED
    BY <2>1, <2>2
<1>3. ASSUME NEW s \in SUBSET S, NEW x \in S \ s, s \in Q PROVE s \cup {x} \in Q
  <2>1. PICK t : t = {h[y] : y \in s}
    OBVIOUS
  <2>2. t \in SUBSET DOMAIN g /\ h[x] \in DOMAIN g /\ h[x] \notin t
    BY <2>1
  <2>3. {h[y] : y \in s \cup {x}} = t \cup {h[x]}
    BY <2>1
  <2>4. Sums(f)[s \cup {x}] = f[x] + Sums(f)[s]
    BY <1>3, SumsAdd
  <2>5. Sums(g)[t \cup {h[x]}] = g[h[x]] + Sums(g)[t]
    BY <2>2, SumsAdd
  <2>6. Sums(f)[s] = Sums(g)[t]
    BY <1>3, <2>1
  <2> QED
    BY <1>3, <2>3, <2>4, <2>5, <2>6
<1>4. S \in Q
  <2>1. PICK q : q = Q
    OBVIOUS
  <2>2. \A s \in SUBSET S : \A x \in S \ s : s \in q => s \cup {x} \in q
    BY <1>3, <2>1
  <2>3. {} \in q
    BY <1>2, <2>1
  <2> HIDE DEF Q
  <2>4. \A s \in SUBSET S : s \in q
    BY <1>1, <2>2, <2>3, Gather
  <2> QED
    BY <2>1, <2>4
<1>5. {h[x] : x \in S} = T
  OBVIOUS
<1> QED
  BY <1>4, <1>5

-----------------------------------------------------------------------------
(* A row says a string, or nothing.                                        *)
LEMMA SaysIs ==
  ASSUME Read, NEW name, name # None, NEW k \in DOMAIN Table(name).rows, NEW f
  PROVE  Says(name, k, f) \in STRING \cup {None}
<1>1. PICK row : row = Table(name).rows[k]
  OBVIOUS
<1>2. PICK i : i = row.line
  OBVIOUS
<1>3. i \in Whole(name) /\ row.cells = file[i].cells
  BY <1>1, <1>2 DEF Read, Tabled, RowsAre
<1>4. i \in 1 .. line /\ file[i].tag = "R" /\ line \in 0 .. Len(file)
  BY <1>3 DEF Whole, RowsOf, Read
<1>5. i \in 1 .. Len(file) /\ file[i] \in Lines
  BY <1>4, Export DEF Read
<1>6. row.cells \in Seq(STRING)
  BY <1>3, <1>4, <1>5, LineIs
<1>7. PICK index : index = SelectInSeq(Table(name).fields, LAMBDA x : x = f)
  OBVIOUS
<1>8. Says(name, k, f) = IF index \notin DOMAIN row.cells \/ row.cells[index] = "" THEN None ELSE row.cells[index]
  BY <1>1, <1>7 DEF Says, get
<1>9. \A n \in DOMAIN row.cells : row.cells[n] \in STRING
  BY <1>6
<1> QED
  BY <1>8, <1>9

(* What the k-th assignment is of, as its row and the resource's say.      *)
OneKindEach ==
  \A i, j \in DOMAIN Table("RSRC").rows :
    Says("RSRC", i, "rsrc_id") = Says("RSRC", j, "rsrc_id") /\ Says("RSRC", i, "rsrc_id") # None => i = j
HauledBy(j, k) ==
  /\ Says("RSRC", j, "rsrc_id") = Says("TASKRSRC", k, "rsrc_id")
  /\ Says("RSRC", j, "rsrc_type") \in {"RT_Mat", "RT_Equip"}
HauledAt(k) ==
  Says("TASKRSRC", k, "rsrc_id") # None /\ \E j \in DOMAIN Table("RSRC").rows : HauledBy(j, k)

(* The last record of a resource is its only one.                          *)
ResourceAt(j) == [name |-> Says("RSRC", j, "rsrc_short_name"), kind |-> Kind(Table("RSRC"), Table("RSRC").rows[j])]

LEMMA ResourcesAre ==
  ASSUME Read, OneKindEach
  PROVE  /\ \A id : id \in DOMAIN resources <=>
                id # None /\ \E j \in DOMAIN Table("RSRC").rows : Says("RSRC", j, "rsrc_id") = id
         /\ \A j \in DOMAIN Table("RSRC").rows : Says("RSRC", j, "rsrc_id") # None =>
                resources[Says("RSRC", j, "rsrc_id")] = ResourceAt(j)
<1>1. PICK t, rows : t = Table("RSRC") /\ rows = t.rows
  OBVIOUS
<1>2. None # "RSRC"
  BY ExportsAssumption DEF Words
<1>3. ASSUME NEW j \in DOMAIN rows PROVE ResourceAt(j) # None
  <2>1. Says("RSRC", j, "rsrc_short_name") \in STRING \cup {None}
    BY <1>1, <1>2, <1>3, SaysIs
  <2>2. PICK type : type = get(t, rows[j], "rsrc_type")
    OBVIOUS
  <2>3. Kind(t, rows[j]) = CASE type = "RT_Labor" -> "labor" [] type = "RT_Mat" -> "material"
                             [] type = "RT_Equip" -> "equipment" [] OTHER -> "untyped"
    BY <2>2 DEF Kind
  <2>4. Kind(t, rows[j]) \in {"labor", "material", "equipment", "untyped"}
    BY <2>3
  <2> QED
    BY <1>1, <2>1, <2>4, ExportsAssumption DEF ResourceAt
<1>4. PICK kept : kept = {j \in DOMAIN rows : Says("RSRC", j, "rsrc_id") # None}
  OBVIOUS
<1>5. \A j : /\ get(t, rows[j], "rsrc_id") = Says("RSRC", j, "rsrc_id")
             /\ [name |-> get(t, rows[j], "rsrc_short_name"), kind |-> Kind(t, rows[j])] = ResourceAt(j)
  BY <1>1 DEF Says, ResourceAt
<1>6. resources = [id \in {Says("RSRC", j, "rsrc_id") : j \in kept} |->
                     ResourceAt(Max({j \in kept : Says("RSRC", j, "rsrc_id") = id}))]
  <2>1. PICK also : also = {j \in DOMAIN rows : get(t, rows[j], "rsrc_id") # None
                              /\ [name |-> get(t, rows[j], "rsrc_short_name"), kind |-> Kind(t, rows[j])] # None}
    OBVIOUS
  <2>2. also = kept
    BY <1>3, <1>4, <1>5, <2>1
  <2>3. resources = [id \in {get(t, rows[j], "rsrc_id") : j \in also} |->
           [name |-> get(t, rows[Max({j \in also : get(t, rows[j], "rsrc_id") = id})], "rsrc_short_name"),
            kind |-> Kind(t, rows[Max({j \in also : get(t, rows[j], "rsrc_id") = id})])]]
    BY <1>1, <2>1 DEF resources, LastOf
  <2> QED
    BY <1>5, <2>2, <2>3
<1>7. DOMAIN rows \subseteq Int
  BY <1>1, <1>2, RowsSay, SeqIs
<1>8. ASSUME NEW j \in kept PROVE resources[Says("RSRC", j, "rsrc_id")] = ResourceAt(j)
  <2>1. PICK K : K = {i \in kept : Says("RSRC", i, "rsrc_id") = Says("RSRC", j, "rsrc_id")}
    OBVIOUS
  <2>2. K = {j}
    BY <1>1, <1>4, <1>8, <2>1 DEF OneKindEach
  <2>3. j \in Int /\ Max({j}) = j
    BY <1>4, <1>7, <1>8 DEF Max
  <2> QED
    BY <1>6, <2>1, <2>2, <2>3
<1> QED
  BY <1>1, <1>4, <1>6, <1>8

LEMMA KindIs ==
  ASSUME Read, OneKindEach, NEW k
  PROVE  KindOf(k) \in {"material", "equipment"} <=> HauledAt(k)
<1>1. PICK id : id = Says("TASKRSRC", k, "rsrc_id")
  OBVIOUS
<1>2. KindOf(k) = IF id \in DOMAIN resources THEN resources[id].kind ELSE "untyped"
  BY <1>1 DEF KindOf, Assignment, Says
<1>3. CASE id \notin DOMAIN resources
  BY <1>1, <1>2, <1>3, ResourcesAre DEF HauledAt, HauledBy
<1>4. CASE id \in DOMAIN resources
  <2>1. PICK j \in DOMAIN Table("RSRC").rows : Says("RSRC", j, "rsrc_id") = id
    BY <1>4, ResourcesAre
  <2>2. id # None /\ resources[id] = ResourceAt(j)
    BY <1>4, <2>1, ResourcesAre
  <2>3. PICK type : type = Says("RSRC", j, "rsrc_type")
    OBVIOUS
  <2>4. resources[id].kind = CASE type = "RT_Labor" -> "labor" [] type = "RT_Mat" -> "material"
                               [] type = "RT_Equip" -> "equipment" [] OTHER -> "untyped"
    BY <2>2, <2>3 DEF ResourceAt, Kind, Says
  <2>5. KindOf(k) \in {"material", "equipment"} <=> type \in {"RT_Mat", "RT_Equip"}
    BY <1>2, <1>4, <2>4
  <2>6. HauledAt(k) <=> type \in {"RT_Mat", "RT_Equip"}
    BY <1>1, <2>1, <2>2, <2>3 DEF HauledAt, HauledBy, OneKindEach
  <2> QED
    BY <2>5, <2>6
<1> QED
  BY <1>3, <1>4
(* The hours of the assignments to a task, haulage aside, row by row.      *)
RowHours == [k \in DOMAIN Table("TASKRSRC").rows |-> parse_qty(Says("TASKRSRC", k, "target_qty"))]
LaborFor(id) ==
  {k \in DOMAIN Table("TASKRSRC").rows : Says("TASKRSRC", k, "task_id") = id /\ ~HauledAt(k)}
HauledRows == {k \in DOMAIN Table("TASKRSRC").rows : Says("TASKRSRC", k, "task_id") # None /\ HauledAt(k)}
LookupsSay(r, n) ==
  OneKindEach =>
    /\ \A id : At(r, id, NoLabor).budget = IF id = None THEN 0 ELSE Sums(RowHours)[LaborFor(id)]
    /\ n = Cardinality(HauledRows)

LEMMA RowHoursAre ==
  ASSUME Read
  PROVE  IsFiniteSet(DOMAIN Table("TASKRSRC").rows) /\ Family(RowHours)
<1>1. "TASKRSRC" # None
  BY ExportsAssumption DEF Words
<1>2. IsFiniteSet(DOMAIN Table("TASKRSRC").rows)
  <2>1. PICK n \in Nat : DOMAIN Table("TASKRSRC").rows = 1 .. n
    BY <1>1, RowsSay, SeqIs
  <2> QED
    BY <2>1, FS_Interval
<1>3. \A cell : parse_qty(cell) \in Int
  BY QtyAssumption DEF parse_qty
<1> QED
  BY <1>2, <1>3 DEF Family, RowHours

QtyAdd(it, S) ==
  it = [s \in SUBSET S |-> IF s = {} THEN 0
                           ELSE parse_qty(Assignment(One(s), "target_qty")) + it[s \ {One(s)}]]

LEMMA HoursAre ==
  ASSUME Read, NEW S, S \subseteq DOMAIN Table("TASKRSRC").rows
  PROVE  Hours(S, "target_qty") = Sums(RowHours)[S]
<1>1. PICK f : f = [k \in S |-> parse_qty(Says("TASKRSRC", k, "target_qty"))]
  OBVIOUS
<1>2. DOMAIN f = S /\ Family(f) /\ \A k \in S : f[k] = RowHours[k]
  <2>1. IsFiniteSet(S) /\ \A k \in DOMAIN RowHours : RowHours[k] \in Int
    BY RowHoursAre, FS_Subset DEF Family
  <2>2. \A k \in S : f[k] = RowHours[k]
    BY <1>1 DEF RowHours
  <2> QED
    BY <1>1, <2>1, <2>2 DEF Family, RowHours
<1>3. \A s \in SUBSET S : s # {} => f[One(s)] = parse_qty(Assignment(One(s), "target_qty"))
  BY <1>1, OneOf DEF Says, Assignment
<1>4. \A it : QtyAdd(it, S) <=> IsSum(it, f)
  BY <1>2, <1>3 DEF QtyAdd, IsSum
<1>5. PICK it : it = CHOOSE g : QtyAdd(g, S)
  OBVIOUS
<1>6. QtyAdd(it, S)
  BY <1>2, <1>4, <1>5, SumExists DEF Family
<1>7. Hours(S, "target_qty") = it[S]
  BY <1>5 DEF Hours, MapThenSumSet, MapThenFoldSet, QtyAdd, One
<1>8. Hours(S, "target_qty") = Sums(f)[S]
  BY <1>2, <1>4, <1>6, <1>7, SumIs
<1>9. Family(RowHours) /\ S \subseteq DOMAIN RowHours
  BY RowHoursAre DEF RowHours
<1> QED
  BY <1>2, <1>8, <1>9, SumsAgree

LEMMA AssignmentsSay ==
  ASSUME Read
  PROVE  LookupsSay(assignments, skipped("material") + skipped("equipment"))
<1> SUFFICES ASSUME OneKindEach
             PROVE  /\ \A id : At(assignments, id, NoLabor).budget
                                 = IF id = None THEN 0 ELSE Sums(RowHours)[LaborFor(id)]
                    /\ skipped("material") + skipped("equipment") = Cardinality(HauledRows)
  BY DEF LookupsSay
<1>1. PICK D : D = DOMAIN Table("TASKRSRC").rows
  OBVIOUS
<1>2. /\ Assigned = {k \in D : Says("TASKRSRC", k, "task_id") # None}
      /\ \A k : Assignment(k, "task_id") = Says("TASKRSRC", k, "task_id")
  BY <1>1 DEF Assigned, Assignment, Says
<1>3. PICK labor : labor = {k \in Assigned : KindOf(k) \notin {"material", "equipment"}}
  OBVIOUS
<1>4. \A k : k \in labor <=> k \in D /\ Says("TASKRSRC", k, "task_id") # None /\ ~HauledAt(k)
  BY <1>2, <1>3, KindIs
<1>5. \A id : id # None => LaborFor(id) = {k \in labor : Says("TASKRSRC", k, "task_id") = id}
  BY <1>1, <1>4 DEF LaborFor
<1>6. DOMAIN assignments = {Says("TASKRSRC", k, "task_id") : k \in labor}
  BY <1>2, <1>3 DEF assignments
<1>7. \A id \in DOMAIN assignments :
        assignments[id].budget = Hours({k \in labor : Says("TASKRSRC", k, "task_id") = id}, "target_qty")
  BY <1>2, <1>3 DEF assignments
<1>8. ASSUME NEW id
      PROVE  At(assignments, id, NoLabor).budget = IF id = None THEN 0 ELSE Sums(RowHours)[LaborFor(id)]
  <2>1. CASE id \in DOMAIN assignments
    <3>1. id # None
      BY <1>4, <1>6, <2>1
    <3>2. PICK S : S = LaborFor(id)
      OBVIOUS
    <3>3. S \subseteq D /\ assignments[id].budget = Hours(S, "target_qty")
      BY <1>4, <1>5, <1>7, <2>1, <3>1, <3>2
    <3>4. assignments[id].budget = Sums(RowHours)[S]
      BY <1>1, <3>3, HoursAre
    <3> QED
      BY <2>1, <3>1, <3>2, <3>4 DEF At
  <2>2. CASE id \notin DOMAIN assignments
    <3>1. At(assignments, id, NoLabor).budget = 0
      BY <2>2 DEF At, NoLabor
    <3>2. id # None => LaborFor(id) = {}
      BY <1>5, <1>6, <2>2
    <3>3. Sums(RowHours)[{}] = 0
      BY RowHoursAre, SumsOf DEF Family
    <3> QED
      BY <3>1, <3>2, <3>3
  <2> QED
    BY <2>1, <2>2
<1>9. skipped("material") + skipped("equipment") = Cardinality(HauledRows)
  <2>1. PICK M, E : /\ M = {k \in Assigned : KindOf(k) = "material"}
                    /\ E = {k \in Assigned : KindOf(k) = "equipment"}
    OBVIOUS
  <2>2. M \cap E = {} /\ HauledRows = M \cup E
    BY <1>1, <1>2, <2>1, KindIs DEF HauledRows
  <2>3. IsFiniteSet(M) /\ IsFiniteSet(E)
    <3>1. M \subseteq D /\ E \subseteq D /\ IsFiniteSet(D)
      BY <1>1, <1>2, <2>1, RowHoursAre
    <3> QED
      BY <3>1, FS_Subset
  <2>4. Cardinality(M \cup E) = Cardinality(M) + Cardinality(E)
    <3>1. Cardinality(M \cup E) = Cardinality(M) + Cardinality(E) - Cardinality(M \cap E)
      BY <2>3, FS_Union
    <3>2. Cardinality(M \cap E) = 0
      BY <2>2, FS_EmptySet
    <3>3. Cardinality(M) \in Nat /\ Cardinality(E) \in Nat
      BY <2>3, FS_CardinalityType
    <3> QED
      BY <3>1, <3>2, <3>3
  <2>5. skipped("material") = Cardinality(M) /\ skipped("equipment") = Cardinality(E)
    BY <2>1 DEF skipped
  <2> QED
    BY <2>2, <2>4, <2>5
<1> QED
  BY <1>8, <1>9
-----------------------------------------------------------------------------
(* Every activity has the hours looked up for the task of its row.         *)
Budgeted(a, k) ==
  /\ a.code = Says("TASK", k, "task_code")
  /\ a.budget = At(ctx.resources, Says("TASK", k, "task_id"), NoLabor).budget
HoursTold ==
  /\ stage \notin {"reading", "tables"} =>
       LookupsSay(ctx.resources, report.material_skipped + report.equipment_skipped)
  /\ \A x \in DOMAIN report.activities :
       \E k \in DOMAIN Tasks.rows : Budgeted(report.activities[x], k)

LEMMA LookupsStay ==
  ASSUME tables' = tables
  PROVE  /\ \A r, n : LookupsSay(r, n)' = LookupsSay(r, n)
         /\ \A m, f, name : Says(name, m, f)' = Says(name, m, f)
         /\ Tasks' = Tasks
<1>1. /\ \A name, m, f : Says(name, m, f)' = Says(name, m, f)
      /\ \A name : Table(name)' = Table(name)
  BY SaysAgain
<1>2. \A k : HauledAt(k)' = HauledAt(k)
  BY <1>1 DEF HauledAt, HauledBy
<1>3. OneKindEach' = OneKindEach
  BY <1>1 DEF OneKindEach
<1>4. \A id : LaborFor(id)' = LaborFor(id)
  BY <1>1, <1>2 DEF LaborFor
<1>5. HauledRows' = HauledRows
  BY <1>1, <1>2 DEF HauledRows
<1>6. RowHours' = RowHours
  BY <1>1 DEF RowHours, parse_qty
<1>7. Sums(RowHours)' = Sums(RowHours)
  BY <1>6 DEF Sums, IsSum, One
<1>8. \A r, id : At(r, id, NoLabor)' = At(r, id, NoLabor)
  BY DEF At, NoLabor
<1> QED
  BY <1>1, <1>3, <1>4, <1>5, <1>7, <1>8, SaysAgain DEF LookupsSay

(* A step of a TASK row serves at most an activity of it.                  *)
LEMMA BudgetAnswered ==
  ASSUME TaskStep, IsReport(report)
  PROVE  /\ report'.material_skipped = report.material_skipped
         /\ report'.equipment_skipped = report.equipment_skipped
         /\ \/ report'.activities = report.activities
            \/ \E e : report'.activities = Append(report.activities, e) /\ Budgeted(e, at + 1)
<1>1. /\ IsRecord(report) /\ {"activities", "material_skipped", "equipment_skipped"} \subseteq ReportFields
      /\ {"wall_clock_findings", "excluded_project", "excluded_loe", "excluded_wbs", "rejected"} \subseteq ReportFields
  BY DEF IsReport, ReportFields, Answers
<1>2. CASE ExcludeProject \/ ExcludeLoe \/ ExcludeWbs
  <2>1. PICK g \in {"excluded_project", "excluded_loe", "excluded_wbs"} :
          report' = [report EXCEPT ![g] = Append(@, Of("task_code"))]
    BY <1>2 DEF ExcludeProject, ExcludeLoe, ExcludeWbs, Excluded
  <2> QED
    BY <1>1, <2>1 DEF IsRecord
<1>3. CASE Quarantine
  <2>1. PICK e, w : e = Reject(Row.line, "TASK", Of("task_code"), Refusal)
                    /\ w = report.wall_clock_findings \cup Noted
    OBVIOUS
  <2>2. report' = [report EXCEPT !["rejected"] = Append(@, e), !["wall_clock_findings"] = w]
    BY <1>3, <2>1 DEF Quarantine
  <2> QED
    BY <1>1, <2>2 DEF IsRecord
<1>4. CASE Serve
  <2>1. PICK e, w : e = extract_activity /\ w = report.wall_clock_findings \cup Noted
    OBVIOUS
  <2>2. report' = [report EXCEPT !["activities"] = Append(@, e), !["wall_clock_findings"] = w]
    BY <1>4, <2>1 DEF Serve
  <2>3. Budgeted(e, at + 1)
    BY <2>1 DEF Budgeted, extract_activity, Labor, Of, Says, Row, Tasks
  <2> QED
    BY <1>1, <2>2, <2>3 DEF IsRecord
<1> QED
  BY <1>2, <1>3, <1>4 DEF TaskStep

(* What is looked up once the tables are in.                               *)
LEMMA HoursResolved ==
  ASSUME Read, Told, ResolveTables
  PROVE  /\ ctx'.resources = assignments
         /\ report'.material_skipped = skipped("material")
         /\ report'.equipment_skipped = skipped("equipment")
         /\ report'.activities = report.activities
<1>1. /\ IsRecord(report) /\ {"activities", "material_skipped", "equipment_skipped"} \subseteq ReportFields
      /\ {"task_rows", "findings"} \subseteq ReportFields
  BY DEF Told, IsReport, ReportFields, Answers
<1>2. PICK ms, es : ms = skipped("material") /\ es = skipped("equipment")
  OBVIOUS
<1>3. PICK tr, fs : report' = [report EXCEPT !["material_skipped"] = ms, !["equipment_skipped"] = es,
                                             !["task_rows"] = tr, !["findings"] = fs]
  BY <1>2 DEF ResolveTables
<1>4. ctx'.resources = assignments
  BY DEF ResolveTables
<1> QED
  BY <1>1, <1>2, <1>3, <1>4 DEF IsRecord

(* Every other step leaves the activities and what was looked up.          *)
LEMMA HoursLeft ==
  ASSUME Read, Told, Resolving \/ UNCHANGED vars, ~TaskStep, ~ResolveTables
  PROVE  /\ UNCHANGED <<ctx, tables>> /\ report'.activities = report.activities
         /\ report'.material_skipped = report.material_skipped
         /\ report'.equipment_skipped = report.equipment_skipped
         /\ stage \in {"reading", "tables"} => stage' \in {"reading", "tables"}
<1>1. /\ IsReport(report) /\ IsRecord(report)
      /\ {"activities", "material_skipped", "equipment_skipped", "rejected"} \subseteq ReportFields
      /\ {"activities", "material_skipped", "equipment_skipped"}
           \cap {"rejected", "relationships", "excluded_edges"} = {}
  BY DEF Told, IsReport, ReportFields, Answers
<1>2. CASE PredStep
  BY <1>1, <1>2, PredAnswered
<1>3. CASE LogicDone
  <2>1. PICK t : report' = [report EXCEPT !["rejected"] = t]
    BY <1>3 DEF LogicDone
  <2>2. UNCHANGED <<ctx, tables>> /\ stage = "logic"
    BY <1>3 DEF LogicDone
  <2> QED
    BY <1>1, <2>1, <2>2 DEF IsRecord
<1>4. CASE EndOfFile
  BY <1>4 DEF EndOfFile, KeepsRead
<1>5. CASE TasksDone
  BY <1>5 DEF TasksDone
<1>6. CASE UNCHANGED vars
  BY <1>6 DEF vars
<1> QED
  BY <1>2, <1>3, <1>4, <1>5, <1>6 DEF Resolving, TaskStep, PredStep
LEMMA HoursStep ==
  ASSUME Read, Told, HoursTold, [Next]_vars
  PROVE  HoursTold'
<1>1. CASE Reading
  <2>1. /\ stage = "reading" /\ stage' \in {"reading", "tables"} /\ DOMAIN report.activities = {}
        /\ report'.activities = report.activities
    BY <1>1, LineAnswered DEF Told, Unanswered, ReportFields, Answers
  <2> QED
    BY <2>1 DEF HoursTold
<1>2. CASE ResolveTables
  <2>1. /\ ctx'.resources = assignments /\ tables' = tables /\ stage' = "tasks"
        /\ report'.material_skipped = skipped("material")
        /\ report'.equipment_skipped = skipped("equipment")
        /\ DOMAIN report.activities = {} /\ report'.activities = report.activities
    BY <1>2, HoursResolved DEF Told, Unanswered, ResolveTables
  <2>2. PICK r, n : r = assignments /\ n = skipped("material") + skipped("equipment")
    OBVIOUS
  <2>3. LookupsSay(r, n)
    BY <2>2, AssignmentsSay
  <2>4. LookupsSay(r, n)'
    BY <2>1, <2>3, LookupsStay
  <2>5. ctx'.resources = r /\ report'.material_skipped + report'.equipment_skipped = n
    BY <2>1, <2>2
  <2>6. LookupsSay(ctx.resources, report.material_skipped + report.equipment_skipped)'
    BY <2>4, <2>5
  <2> QED
    BY <2>1, <2>6 DEF HoursTold
<1>3. CASE (Resolving \/ UNCHANGED vars) /\ ~ResolveTables
  <2>1. /\ UNCHANGED <<ctx, tables>>
        /\ stage \in {"reading", "tables"} => stage' \in {"reading", "tables"}
        /\ report'.material_skipped = report.material_skipped
        /\ report'.equipment_skipped = report.equipment_skipped
        /\ \/ report'.activities = report.activities
           \/ \E e : /\ report'.activities = Append(report.activities, e)
                     /\ Budgeted(e, at + 1) /\ at + 1 \in DOMAIN Tasks.rows
    <3>1. CASE TaskStep
      <4>1. /\ IsReport(report) /\ stage = "tasks" /\ at \in 0 .. Len(Tasks.rows) /\ at < Len(Tasks.rows)
            /\ UNCHANGED <<ctx, tables>>
        BY <3>1, TaskAnswered DEF Told
      <4>2. IsSeq(Tasks.rows)
        BY RowsSay, Named_ DEF Tasks
      <4>3. at + 1 \in DOMAIN Tasks.rows
        BY <4>1, <4>2, SeqIs
      <4> QED
        BY <3>1, <4>1, <4>3, BudgetAnswered
    <3>2. CASE ~TaskStep
      BY <1>3, <3>2, HoursLeft
    <3> QED
      BY <3>1, <3>2
  <2>2. PICK r, n : r = ctx.resources /\ n = report.material_skipped + report.equipment_skipped
    OBVIOUS
  <2>3. ctx'.resources = r /\ report'.material_skipped + report'.equipment_skipped = n
    BY <2>1, <2>2
  <2>4. \A a, k : Budgeted(a, k)' = Budgeted(a, k)
    BY <2>1, LookupsStay DEF Budgeted, At, NoLabor
  <2>5. Tasks' = Tasks
    BY <2>1, LookupsStay
  <2>6. stage' \notin {"reading", "tables"} => LookupsSay(ctx.resources, report.material_skipped + report.equipment_skipped)'
    <3>1. SUFFICES ASSUME stage' \notin {"reading", "tables"}
                   PROVE  LookupsSay(ctx.resources, report.material_skipped + report.equipment_skipped)'
      OBVIOUS
    <3>2. LookupsSay(r, n)
      BY <2>1, <2>2, <3>1 DEF HoursTold
    <3>3. LookupsSay(r, n)'
      BY <2>1, <3>2, LookupsStay
    <3> QED
      BY <2>3, <3>3
  <2>7. PICK s : s = report.activities /\ IsSeq(s)
    BY DEF Told, IsReport, Answers
  <2>8. ASSUME NEW x \in DOMAIN report'.activities, NEW a, a = report'.activities[x]
        PROVE  \E k \in DOMAIN Tasks.rows : Budgeted(a, k)
    <3>1. CASE report'.activities = s
      BY <2>7, <2>8, <3>1 DEF HoursTold
    <3>2. ASSUME NEW e, report'.activities = Append(s, e), Budgeted(e, at + 1), at + 1 \in DOMAIN Tasks.rows
          PROVE  \E k \in DOMAIN Tasks.rows : Budgeted(a, k)
      <4>1. PICK t : t = Append(s, e)
        OBVIOUS
      <4>2. /\ DOMAIN t = DOMAIN s \cup {Len(s) + 1} /\ t[Len(s) + 1] = e
            /\ \A k \in DOMAIN s : t[k] = s[k]
        BY <2>7, <4>1, Appending
      <4>3. x \in DOMAIN t /\ a = t[x]
        BY <2>8, <3>2, <4>1
      <4>4. x \in DOMAIN s => \E k \in DOMAIN Tasks.rows : Budgeted(s[x], k)
        BY <2>7 DEF HoursTold
      <4> QED
        BY <3>2, <4>2, <4>3, <4>4
    <3> QED
      BY <2>1, <2>7, <3>1, <3>2
  <2>9. ASSUME NEW x \in DOMAIN report'.activities
        PROVE  \E k \in DOMAIN Tasks'.rows : Budgeted(report.activities[x], k)'
    <3>1. PICK a : a = report'.activities[x]
      OBVIOUS
    <3>2. PICK k \in DOMAIN Tasks.rows : Budgeted(a, k)
      BY <2>8, <3>1
    <3>3. Budgeted(a, k)'
      BY <2>4, <3>2
    <3>4. Budgeted(report.activities[x], k)'
      BY <3>1, <3>3 DEF Budgeted
    <3> QED
      BY <2>5, <3>2, <3>4
  <2> QED
    BY <2>6, <2>9 DEF HoursTold
<1> QED
  BY <1>1, <1>2, <1>3 DEF Next, Reading, Resolving

LEMMA InitHours ==
  ASSUME Init
  PROVE  HoursTold
<1>1. stage = "reading" /\ report = NoReport
  BY DEF Init
<1>2. report.activities = << >> /\ DOMAIN << >> = {}
  BY <1>1 DEF NoReport
<1> QED
  BY <1>1, <1>2 DEF HoursTold

(* The hours the lines of an export say.                                   *)
SaidAdd(it, S) ==
  it = [s \in SUBSET S |-> IF s = {} THEN 0
                           ELSE parse_qty(Said(One(s), "target_qty")) + it[s \ {One(s)}]]

LEMMA HoursSaidAre ==
  ASSUME NEW S, IsFiniteSet(S), NEW f, f = [i \in S |-> parse_qty(Said(i, "target_qty"))]
  PROVE  Family(f) /\ HoursSaid(S) = Sums(f)[S]
<1>1. Family(f) /\ DOMAIN f = S
  <2>1. \A cell : parse_qty(cell) \in Int
    BY QtyAssumption DEF parse_qty
  <2> QED
    BY <2>1 DEF Family
<1>2. \A s \in SUBSET S : s # {} => f[One(s)] = parse_qty(Said(One(s), "target_qty"))
  BY OneOf
<1>3. \A it : SaidAdd(it, S) <=> IsSum(it, f)
  BY <1>1, <1>2 DEF SaidAdd, IsSum
<1>4. PICK it : it = CHOOSE g : SaidAdd(g, S)
  OBVIOUS
<1>5. SaidAdd(it, S)
  BY <1>1, <1>3, <1>4, SumExists DEF Family
<1>6. HoursSaid(S) = it[S]
  BY <1>4 DEF HoursSaid, MapThenSumSet, MapThenFoldSet, SaidAdd, One
<1> QED
  BY <1>1, <1>3, <1>5, <1>6, SumIs

(* ... are those of the rows kept of them.                                 *)
LEMMA HoursByRow ==
  ASSUME Read, HeadedOnce, NEW K, K \subseteq DOMAIN Table("TASKRSRC").rows, NEW S,
         \A i : i \in S <=> \E k \in K : LineOf("TASKRSRC", k) = i
  PROVE  HoursSaid(S) = Sums(RowHours)[K]
<1>1. "TASKRSRC" # None
  BY ExportsAssumption DEF Words
<1>2. PICK h : h = [k \in K |-> LineOf("TASKRSRC", k)]
  OBVIOUS
<1>3. /\ h \in [K -> S] /\ \A x, y \in K : h[x] = h[y] => x = y
      /\ \A t \in S : \E x \in K : h[x] = t
  BY <1>1, <1>2, RowsSay
<1>4. IsFiniteSet(S)
  <2>1. IsFiniteSet(K)
    BY RowHoursAre, FS_Subset
  <2> QED
    BY <1>3, <2>1, OneForOne
<1>5. PICK f : f = [i \in S |-> parse_qty(Said(i, "target_qty"))]
  OBVIOUS
<1>6. Family(f) /\ HoursSaid(S) = Sums(f)[S] /\ DOMAIN f = S
  BY <1>4, <1>5, HoursSaidAre
<1>7. \A k \in K : f[h[k]] = RowHours[k]
  <2>1. ASSUME NEW k \in K PROVE f[h[k]] = RowHours[k]
    <3>1. Says("TASKRSRC", k, "target_qty") = Said(h[k], "target_qty") /\ h[k] \in S
      BY <1>1, <1>2, <1>3, RowsSay
    <3> QED
      BY <1>5, <3>1 DEF RowHours
  <2> QED
    BY <2>1
<1>8. Family(RowHours) /\ K \subseteq DOMAIN RowHours
  BY RowHoursAre DEF RowHours
<1>9. Sums(RowHours)[K] = Sums(f)[S]
  BY <1>3, <1>6, <1>7, <1>8, SumsReindexed
<1> QED
  BY <1>6, <1>9

(* The assignments of an export that are haulage.                          *)
HauledLines ==
  {i \in Whole("TASKRSRC") :
     /\ Said(i, "rsrc_id") # None
     /\ \E j \in Whole("RSRC") : /\ Said(j, "rsrc_id") = Said(i, "rsrc_id")
                                 /\ Said(j, "rsrc_type") \in {"RT_Mat", "RT_Equip"}}

LEMMA HauledRowByRow ==
  ASSUME Read, HeadedOnce
  PROVE  /\ ResourcesAreNamedOnce => OneKindEach
         /\ \A k \in DOMAIN Table("TASKRSRC").rows : LineOf("TASKRSRC", k) \in HauledLines <=> HauledAt(k)
<1>1. "TASKRSRC" # None /\ "RSRC" # None
  BY ExportsAssumption DEF Words
<1>2. /\ \A j \in DOMAIN Table("RSRC").rows : LineOf("RSRC", j) \in Whole("RSRC")
      /\ \A i \in Whole("RSRC") : \E j \in DOMAIN Table("RSRC").rows : LineOf("RSRC", j) = i
      /\ \A i, j \in DOMAIN Table("RSRC").rows : LineOf("RSRC", i) = LineOf("RSRC", j) => i = j
      /\ \A j \in DOMAIN Table("RSRC").rows : \A f : Says("RSRC", j, f) = Said(LineOf("RSRC", j), f)
  BY <1>1, RowsSay
<1>3. /\ \A k \in DOMAIN Table("TASKRSRC").rows : LineOf("TASKRSRC", k) \in Whole("TASKRSRC")
      /\ \A k \in DOMAIN Table("TASKRSRC").rows : \A f : Says("TASKRSRC", k, f) = Said(LineOf("TASKRSRC", k), f)
  BY <1>1, RowsSay
<1>4. ResourcesAreNamedOnce => OneKindEach
  BY <1>2 DEF ResourcesAreNamedOnce, OneKindEach
<1>5. ASSUME NEW k \in DOMAIN Table("TASKRSRC").rows
      PROVE  LineOf("TASKRSRC", k) \in HauledLines <=> HauledAt(k)
  <2>1. PICK i, id : i = LineOf("TASKRSRC", k) /\ id = Says("TASKRSRC", k, "rsrc_id")
    OBVIOUS
  <2>2. i \in Whole("TASKRSRC") /\ Said(i, "rsrc_id") = id
    BY <1>3, <2>1
  <2>3. i \in HauledLines <=> id # None /\ \E j \in Whole("RSRC") :
          Said(j, "rsrc_id") = id /\ Said(j, "rsrc_type") \in {"RT_Mat", "RT_Equip"}
    BY <2>2 DEF HauledLines
  <2>4. HauledAt(k) <=> id # None /\ \E j \in DOMAIN Table("RSRC").rows :
          Says("RSRC", j, "rsrc_id") = id /\ Says("RSRC", j, "rsrc_type") \in {"RT_Mat", "RT_Equip"}
    BY <2>1 DEF HauledAt, HauledBy
  <2> QED
    BY <1>2, <2>1, <2>3, <2>4
<1> QED
  BY <1>4, <1>5

(* An activity's hours are those its assignments say, steel and cranes      *)
(* aside, and no such assignment goes uncounted (assignments).              *)
THEOREM HoursAlwaysLabor ==
  Spec => []HoursAreLabor
<1>1. Init => HoursTold
  BY InitHours
<1>2. Read /\ Told /\ HoursTold /\ [Next]_vars => HoursTold'
  BY HoursStep
<1>3. Read /\ HoursTold => HoursAreLabor
  <2> SUFFICES ASSUME Read, HoursTold, Done, HeadedOnce, ResourcesAreNamedOnce
               PROVE  /\ \A a \in ToSet(report.activities) :
                           \E t \in Whole("TASK") :
                             /\ Said(t, "task_code") = a.code
                             /\ a.budget =
                                  HoursSaid({i \in Whole("TASKRSRC") \ HauledLines :
                                               /\ Said(i, "task_id") # None
                                               /\ Said(i, "task_id") = Said(t, "task_id")})
                      /\ report.material_skipped + report.equipment_skipped =
                           Cardinality({i \in HauledLines : Said(i, "task_id") # None})
    BY DEF HoursAreLabor, HauledLines
  <2>1. "TASKRSRC" # None
    BY ExportsAssumption DEF Words
  <2>2. PICK D : D = DOMAIN Table("TASKRSRC").rows
    OBVIOUS
  <2>3. /\ \A k \in D : LineOf("TASKRSRC", k) \in Whole("TASKRSRC")
        /\ \A i \in Whole("TASKRSRC") : \E k \in D : LineOf("TASKRSRC", k) = i
        /\ \A j, k \in D : LineOf("TASKRSRC", j) = LineOf("TASKRSRC", k) => j = k
        /\ \A k \in D : Says("TASKRSRC", k, "task_id") = Said(LineOf("TASKRSRC", k), "task_id")
    BY <2>1, <2>2, RowsSay
  <2>4. OneKindEach /\ \A k \in D : LineOf("TASKRSRC", k) \in HauledLines <=> HauledAt(k)
    BY <2>2, HauledRowByRow
  <2>5. PICK r, n : r = ctx.resources /\ n = report.material_skipped + report.equipment_skipped
    OBVIOUS
  <2>6. LookupsSay(r, n)
    BY <2>5 DEF HoursTold, Done
  <2>7. /\ n = Cardinality(HauledRows)
        /\ \A id : At(r, id, NoLabor).budget = IF id = None THEN 0 ELSE Sums(RowHours)[LaborFor(id)]
    BY <2>4, <2>6 DEF LookupsSay
  <2>8. ASSUME NEW a \in ToSet(report.activities)
        PROVE  \E t \in Whole("TASK") :
                 /\ Said(t, "task_code") = a.code
                 /\ a.budget = HoursSaid({i \in Whole("TASKRSRC") \ HauledLines :
                                            /\ Said(i, "task_id") # None
                                            /\ Said(i, "task_id") = Said(t, "task_id")})
    <3>1. PICK k \in DOMAIN Tasks.rows : Budgeted(a, k)
      BY DEF HoursTold, ToSet
    <3>2. PICK t, id : t = LineOf("TASK", k) /\ id = Says("TASK", k, "task_id")
      OBVIOUS
    <3>3. /\ t \in Whole("TASK") /\ Said(t, "task_id") = id
          /\ Said(t, "task_code") = Says("TASK", k, "task_code")
      BY <3>2, RowsSay, Named_ DEF Tasks
    <3>4. PICK S : S = {i \in Whole("TASKRSRC") \ HauledLines : Said(i, "task_id") # None /\ Said(i, "task_id") = id}
      OBVIOUS
    <3>5. a.budget = IF id = None THEN 0 ELSE Sums(RowHours)[LaborFor(id)]
      BY <2>5, <2>7, <3>1, <3>2 DEF Budgeted
    <3>6. PICK K : K = IF id = None THEN {} ELSE LaborFor(id)
      OBVIOUS
    <3>7. K \subseteq D /\ \A i : i \in S <=> \E j \in K : LineOf("TASKRSRC", j) = i
      BY <2>2, <2>3, <2>4, <3>4, <3>6 DEF LaborFor
    <3>8. HoursSaid(S) = Sums(RowHours)[K]
      BY <2>2, <3>7, HoursByRow
    <3>9. Sums(RowHours)[{}] = 0
      BY RowHoursAre, SumsOf DEF Family
    <3>10. a.budget = HoursSaid(S)
      BY <3>5, <3>6, <3>8, <3>9
    <3> QED
      BY <3>1, <3>3, <3>4, <3>10 DEF Budgeted
  <2>9. n = Cardinality({i \in HauledLines : Said(i, "task_id") # None})
    <3>1. PICK T : T = {i \in HauledLines : Said(i, "task_id") # None}
      OBVIOUS
    <3>2. PICK h : h = [k \in HauledRows |-> LineOf("TASKRSRC", k)]
      OBVIOUS
    <3>3. \A i : i \in T <=> \E k \in HauledRows : LineOf("TASKRSRC", k) = i
      BY <2>2, <2>3, <2>4, <3>1 DEF HauledRows, HauledLines
    <3>4. /\ h \in [HauledRows -> T] /\ \A x, y \in HauledRows : h[x] = h[y] => x = y
          /\ \A t \in T : \E x \in HauledRows : h[x] = t
      BY <2>2, <2>3, <3>2, <3>3 DEF HauledRows
    <3>5. IsFiniteSet(HauledRows)
      <4>1. HauledRows \subseteq D /\ IsFiniteSet(D)
        BY <2>2, RowHoursAre DEF HauledRows
      <4> QED
        BY <4>1, FS_Subset
    <3>6. Cardinality(T) = Cardinality(HauledRows)
      BY <3>4, <3>5, OneForOne
    <3> QED
      BY <2>7, <3>1, <3>6
  <2> QED
    BY <2>5, <2>8, <2>9
<1> QED
  BY <1>1, <1>2, <1>3, IngestsInOrder, PTL DEF Spec
=============================================================================
