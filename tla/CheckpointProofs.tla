-------------------------- MODULE CheckpointProofs --------------------------
(***************************************************************************)
(* What a table in memory may take from its directory without reading it   *)
(* again, and what a checkpoint leaves alone (module Checkpoint), for any  *)
(* names and any bounds, and any faults but a directory fsync that comes   *)
(* late.                                                                   *)
(*                                                                         *)
(* A part claims a file number, and write_table names that file instead of *)
(* writing the part.  That the number still means the same bytes depends   *)
(* on everything that gives numbers out or takes files away, so the        *)
(* invariant follows a number through its life: given out above all others *)
(* and above the log (WriteInv), named by TABLE only once the directory is *)
(* synced (DirInv), unlinked only when no part and no record names it, and *)
(* carried to another directory by RENAME, whose steps have to come in     *)
(* their order (TodoInv).                                                  *)
(***************************************************************************)
EXTENDS Checkpoint, FiniteSetTheorems, SequenceTheorems, WellFoundedInduction, TLAPS

\* Renames are written back before the power goes, and a failed checkpoint
\* does not stop between a rename and its fsync.
WrittenBack == "late" \notin Faults

\* None stands for no table and no definition: it is neither.
NoneIsNothing ==
  /\ None \notin Nat
  /\ \A def, bad, delta, parts, next :
       None # [def |-> def, bad |-> bad, delta |-> delta, parts |-> parts, next |-> next]

IsPart(p) == /\ DOMAIN p = {"pid", "rows", "dead", "seq", "homed"}
             /\ p.pid \in Nat /\ p.seq \in Nat
IsFile(f) == /\ DOMAIN f = {"seq", "pid", "rows", "dead", "ok"}
             /\ f.pid \in Nat /\ f.seq \in Nat \ {0}
IsSeq(s) == \E S : s \in Seq(S)

\* The file f holds the part p.
Holds(f, p) == f.pid = p.pid /\ f.rows = p.rows /\ f.dead = p.dead

\* Every part that claims a file has it, and the file's rename is durable.
Exact(t, d) ==
  \A p \in t.parts : p.seq # NoFile =>
    /\ p.seq \notin d.fresh
    /\ \E f \in d.files : f.seq = p.seq /\ Holds(f, p)

\* A directory's files: one per number, and numbers and identities bounded.
FilesOK(d) ==
  /\ \A f \in d.files : IsFile(f)
  /\ \A f, g \in d.files : f.seq = g.seq => f = g
  /\ \E b \in Nat : \A f \in d.files : f.seq <= b /\ f.pid <= b

\* A TABLE record: what it names is there for good, each identity once.
RecordOK(T, d) ==
  /\ T.def \in Nat /\ T.wc \in Nat
  /\ T.files \subseteq Seqs(d) /\ T.files \cap d.fresh = {}
  /\ \A f, g \in d.files : f.seq \in T.files /\ g.seq \in T.files /\ f.pid = g.pid => f = g

DirOK(d) ==
  /\ DOMAIN d = {"files", "table", "fresh", "old"}
  /\ FilesOK(d)
  /\ \A T \in {d.table} \cup d.old : T # None => RecordOK(T, d)

DirInv ==
  \A n \in Names : DirOK(dir[n]) /\ (dir[n].old # {} => at.pc = "sync" /\ at.n = n)

\* A table in memory: identities below next, each once; none when quarantined.
TableOK(t) ==
  /\ DOMAIN t = {"def", "bad", "delta", "parts", "next"}
  /\ t.def \in Nat /\ t.next \in Nat
  /\ \A p \in t.parts : IsPart(p) /\ p.pid < t.next
  /\ \A p, q \in t.parts : p.pid = q.pid => p = q
  /\ t.bad => t.parts = {}

MemInv == \A n \in Names : mem[n] # None => TableOK(mem[n]) /\ Exact(mem[n], dir[n])

\* The table being written: every part is still to be written, or its file is
\* among the names TABLE will list; and nothing else is.
Writing == at.pc \in {"parts", "commit", "sync", "claim"}
Placed(a, d, p) ==
  IF p.seq # NoFile THEN p.seq \in a.names
  ELSE \E c \in a.claims : c.pid = p.pid /\ \E f \in d.files : f.seq = c.seq /\ Holds(f, p)
WriteOK(a, d, t) ==
  LET written == t.parts \ a.left
  IN /\ DOMAIN a = {"pc", "n", "wc", "next", "onDisk", "names", "left", "claims"}
     /\ a.wc \in Nat /\ a.next \in Nat \ {0} /\ \A f \in d.files : f.seq < a.next
     /\ a.left \subseteq t.parts /\ \A p \in a.left : p.seq = NoFile
     /\ a.names \subseteq Seqs(d)
     /\ \A p \in written : Placed(a, d, p)
     /\ \A s \in a.names : \E p \in written :
          IF p.seq # NoFile THEN s = p.seq ELSE [pid |-> p.pid, seq |-> s] \in a.claims
     /\ \A c \in a.claims : /\ c = [pid |-> c.pid, seq |-> c.seq] /\ c.seq \in a.names
                            /\ \E p \in written : p.pid = c.pid /\ p.seq = NoFile
     /\ \A b, c \in a.claims : b.pid = c.pid => b = c
     /\ a.pc # "parts" => a.left = {} /\ a.names \cap d.fresh = {}
     /\ a.pc \in {"sync", "claim"} => d.table.files = a.names
WriteInv ==
  Writing =>
    /\ at.n \in Names /\ IsTable(mem[at.n])
    /\ todo # <<>> /\ todo[1] = [do |-> "table", n |-> at.n]
    /\ WriteOK(at, dir[at.n], mem[at.n])

\* What is left to do, and what RENAME counts on when its turn comes.
Plain == {"table", "catalog", "collect"}
Steps == [do : {"table"}, n : Names] \cup [do : {"catalog", "collect"}]
           \cup [do : {"link", "move"}, from : Names, to : Names]
Ready(n) == \A p \in mem[n].parts : p.seq # NoFile
TodoInv ==
  /\ todo \in Seq(Steps)
  /\ \A i \in DOMAIN todo : todo[i].do = "link" =>
       /\ i + 1 \in DOMAIN todo
       /\ todo[i + 1] = [do |-> "move", from |-> todo[i].from, to |-> todo[i].to]
       /\ todo[i].from # todo[i].to
       /\ IsTable(mem[todo[i].from]) /\ ~IsTable(mem[todo[i].to])
       /\ Ready(todo[i].from) \/ \E j \in 1..(i - 1) : todo[j] = [do |-> "table", n |-> todo[i].from]
  /\ \A i \in DOMAIN todo : todo[i].do = "move" =>
       /\ i > 1 => todo[i - 1].do = "link"
       /\ \A j \in DOMAIN todo : j > i => todo[j].do \in Plain
  /\ todo # <<>> /\ todo[1].do = "move" =>
       /\ todo[1].from # todo[1].to
       /\ IsTable(mem[todo[1].from])
       /\ Exact(mem[todo[1].from], dir[todo[1].to])

\* The rosters a restart may find, and the names of quarantined tables in
\* them; nothing of such a table's directory is still to be written back.
CatInv ==
  /\ \A r \in Rosters : r \in [Names -> Nat \cup {None}]
  /\ catOld # {} => at.pc = "root"
  /\ \A n \in Names : mem[n] # None /\ mem[n].bad =>
       dir[n].fresh = {} /\ \A r \in Rosters : r[n] # None

Shapes ==
  /\ mem = [n \in Names |-> mem[n]] /\ dir = [n \in Names |-> dir[n]] /\ log = [n \in Names |-> log[n]]
  /\ \A n \in Names : IsSeq(log[n])
  /\ at.pc \in {"none", "parts", "commit", "sync", "claim", "root"}
  /\ at.pc = "root" => todo # <<>> /\ todo[1].do = "catalog"

IInv == Shapes /\ DirInv /\ MemInv /\ WriteInv /\ TodoInv /\ CatInv

-----------------------------------------------------------------------------
(* The operators the model is built from.                                   *)

\* A bounded, inhabited set of numbers has a greatest element, and Max is it.
LEMMA MaxOfBounded ==
  ASSUME NEW S \in SUBSET Nat, S # {}, NEW b \in Nat, \A x \in S : x <= b
  PROVE  Max(S) \in S /\ \A x \in S : x <= Max(S)
<1> DEFINE T == {b - x : x \in S}
<1>1. T \subseteq Nat /\ T # {}
  <2>1. PICK x \in S : TRUE
    OBVIOUS
  <2>2. b - x \in T
    BY <2>1
  <2>3. \A z \in T : z \in Nat
    OBVIOUS
  <2> QED
    BY <2>2, <2>3
<1>2. PICK y \in T : \A z \in T : ~(<<z, y>> \in OpToRel(<, Nat))
  <2> HIDE DEF T
  <2> QED
    BY <1>1, NatLessThanWellFounded, WFMin
<1>3. \A z \in T : ~(z < y)
  BY <1>1, <1>2 DEF OpToRel
<1>4. PICK m \in S : y = b - m
  BY <1>2
<1>5. \A x \in S : m >= x
  <2> TAKE x \in S
  <2>1. b - x \in T
    OBVIOUS
  <2> QED
    BY <1>3, <1>4, <2>1
<1>6. Max(S) \in S /\ \A x \in S : Max(S) >= x
  BY <1>5 DEF Max
<1> QED
  BY <1>6

\* An inhabited set of parts has one of least identity.
LEMMA LeastPart ==
  ASSUME NEW S, S # {}, \A p \in S : p.pid \in Nat
  PROVE  \E q \in S : \A r \in S : q.pid <= r.pid
<1> DEFINE T == {p.pid : p \in S}
<1>1. T \subseteq Nat /\ T # {}
  OBVIOUS
<1>2. PICK y \in T : \A z \in T : ~(<<z, y>> \in OpToRel(<, Nat))
  <2> HIDE DEF T
  <2> QED
    BY <1>1, NatLessThanWellFounded, WFMin
<1>3. \A z \in T : ~(z < y)
  BY <1>1, <1>2 DEF OpToRel
<1>4. PICK q \in S : y = q.pid
  BY <1>2
<1>5. ASSUME NEW r \in S PROVE q.pid <= r.pid
  <2>1. r.pid \in T /\ r.pid \in Nat /\ q.pid \in Nat
    OBVIOUS
  <2> QED
    BY <1>3, <1>4, <2>1
<1> QED
  BY <1>5

\* SetToSeq lists a finite set, all of it.
LEMMA SetToSeqLists ==
  ASSUME NEW S, IsFiniteSet(S)
  PROVE  /\ SetToSeq(S) \in [1..Cardinality(S) -> S] /\ Cardinality(S) \in Nat
         /\ \A x \in S : \E i \in 1..Cardinality(S) : SetToSeq(S)[i] = x
<1>1. Cardinality(S) \in Nat /\ ExistsBijection(1..Cardinality(S), S)
  BY FS_CardinalityType
<1>2. PICK g \in Bijection(1..Cardinality(S), S) : TRUE
  BY <1>1 DEF ExistsBijection
<1>3. g \in [1..Cardinality(S) -> S] /\ IsInjective(g)
  BY <1>2 DEF Bijection, Injection, IsInjective
<1>4. SetToSeq(S) \in [1..Cardinality(S) -> S] /\ IsInjective(SetToSeq(S))
  BY <1>3 DEF SetToSeq
<1>5. SetToSeq(S) \in Injection(1..Cardinality(S), S)
  BY <1>4 DEF Injection, IsInjective
<1>6. IsFiniteSet(1..Cardinality(S)) /\ Cardinality(1..Cardinality(S)) = Cardinality(S)
  BY <1>1, FS_Interval
<1>7. SetToSeq(S) \in Surjection(1..Cardinality(S), S)
  BY <1>5, <1>6, FS_Injection
<1> QED
  BY <1>1, <1>4, <1>7 DEF Surjection

\* save_catalog visits every table, and does nothing but write.
LEMMA SaveCatalogSteps ==
  /\ SaveCatalog \in Seq(Steps) /\ Len(SaveCatalog) \in Nat /\ Len(SaveCatalog) > 0
  /\ \A i \in 1..Len(SaveCatalog) : SaveCatalog[i].do \in Plain
  /\ \A n \in Names : \E i \in 1..Len(SaveCatalog) : SaveCatalog[i] = [do |-> "table", n |-> n]
<1> DEFINE c == Cardinality(Names)
           w == WriteTables
<1>1. c \in Nat /\ SetToSeq(Names) \in [1..c -> Names]
  BY CheckpointAssumption, SetToSeqLists
<1> DEFINE step(n) == [do |-> "table", n |-> n]
<1>2. \A n \in Names : step(n) \in Steps /\ step(n).do \in Plain
  BY DEF Steps, Plain
<1>3. \A i \in 1..c : w[i] = step(SetToSeq(Names)[i]) /\ SetToSeq(Names)[i] \in Names
  BY <1>1 DEF WriteTables
<1>4. w = [i \in 1..c |-> w[i]]
  BY DEF WriteTables
<1>5. w \in [1..c -> Steps]
  <2> HIDE DEF w, c, step
  <2> QED BY <1>2, <1>3, <1>4
<1>6. w \in Seq(Steps) /\ Len(w) = c
  <2> HIDE DEF w, c
  <2> QED BY <1>1, <1>5
<1>7. \A n \in Names : \E i \in 1..c : w[i] = step(n)
  <2> TAKE n \in Names
  <2>1. PICK i \in 1..c : SetToSeq(Names)[i] = n
    BY CheckpointAssumption, SetToSeqLists
  <2> HIDE DEF w, c, step
  <2> QED
    BY <1>3, <2>1
<1> DEFINE e1 == [do |-> "catalog"]
           e2 == [do |-> "collect"]
           tail == <<e1, e2>>
<1>8. e1 \in Steps /\ e1.do \in Plain /\ e2 \in Steps /\ e2.do \in Plain
  BY DEF Steps, Plain
<1> HIDE DEF e1, e2
<1>9. tail \in Seq(Steps) /\ Len(tail) = 2 /\ tail[1] = e1 /\ tail[2] = e2
  BY <1>8
<1>c. SaveCatalog = w \o tail
  BY DEF SaveCatalog, tail, e1, e2
<1> HIDE DEF c, w, tail, step
<1>d. /\ SaveCatalog \in Seq(Steps) /\ Len(SaveCatalog) = c + 2
      /\ \A i \in 1..(c + 2) : SaveCatalog[i] = IF i <= c THEN w[i] ELSE tail[i - c]
  <2>1. /\ w \o tail \in Seq(Steps) /\ Len(w \o tail) = Len(w) + Len(tail)
        /\ \A i \in 1..(Len(w) + Len(tail)) : (w \o tail)[i] = IF i <= Len(w) THEN w[i] ELSE tail[i - Len(w)]
    BY <1>6, <1>9, ConcatProperties
  <2> QED
    BY <1>6, <1>9, <1>c, <2>1
<1>10. ASSUME NEW i \in 1..Len(SaveCatalog) PROVE SaveCatalog[i].do \in Plain
  <2>1. i \in 1..c \/ i = c + 1 \/ i = c + 2
    BY <1>1, <1>d
  <2>2. CASE i \in 1..c
    BY <1>1, <1>2, <1>3, <1>d, <2>2
  <2>3. CASE i = c + 1
    <3>1. SaveCatalog[i] = tail[1]
      BY <1>1, <1>d, <2>3
    <3> QED BY <1>8, <1>9, <3>1
  <2>4. CASE i = c + 2
    <3>1. SaveCatalog[i] = tail[2]
      BY <1>1, <1>d, <2>4
    <3> QED BY <1>8, <1>9, <3>1
  <2> QED BY <2>1, <2>2, <2>3, <2>4
<1>11. \A n \in Names : \E i \in 1..Len(SaveCatalog) : SaveCatalog[i] = step(n)
  <2> TAKE n \in Names
  <2>1. PICK i \in 1..c : w[i] = step(n)
    BY <1>7
  <2>2. i \in 1..Len(SaveCatalog) /\ SaveCatalog[i] = w[i]
    BY <1>1, <1>d
  <2> QED BY <2>1, <2>2
<1>12. Len(SaveCatalog) \in Nat /\ Len(SaveCatalog) > 0
  BY <1>1, <1>d
<1> QED
  BY <1>d, <1>10, <1>11, <1>12 DEF step

\* A record with a table's fields is a table, whatever is in them.
LEMMA ShapeIsTable ==
  ASSUME NoneIsNothing, NEW t, t = [x \in {"def", "bad", "delta", "parts", "next"} |-> t[x]]
  PROVE  t # None
<1>1. t = [def |-> t.def, bad |-> t.bad, delta |-> t.delta, parts |-> t.parts, next |-> t.next]
  OBVIOUS
<1> QED
  BY <1>1 DEF NoneIsNothing

\* Table::flush adds one part, under an identity nobody has, with no file.
LEMMA FlushOK ==
  ASSUME NEW t, TableOK(t), ~t.bad, NEW d, Exact(t, d)
  PROVE  /\ TableOK(Flush(t)) /\ Exact(Flush(t), d) /\ ~Flush(t).bad
         /\ NoneIsNothing /\ t # None => Flush(t) # None
<1>1. CASE t.delta = {}
  BY <1>1 DEF Flush
<1>2. CASE t.delta # {}
  <2> DEFINE b == Build(t.delta, t.next)
             u == [t EXCEPT !.delta = {}, !.next = t.next + 1, !.parts = t.parts \cup {b}]
  <2>1. Flush(t) = u
    BY <1>2 DEF Flush
  <2>2. IsPart(b) /\ b.pid = t.next /\ b.seq = NoFile
    BY DEF IsPart, Build, NoFile, TableOK
  <2> HIDE DEF b
  <2>3. /\ DOMAIN u = {"def", "bad", "delta", "parts", "next"} /\ u.def = t.def /\ u.bad = t.bad
        /\ u.next = t.next + 1 /\ u.parts = t.parts \cup {b} /\ u = [x \in {"def", "bad", "delta", "parts", "next"} |-> u[x]]
    BY DEF TableOK
  <2> HIDE DEF u
  <2>4. TableOK(u)
    <3>1. u.def \in Nat /\ u.next \in Nat /\ ~u.bad
      BY <2>3 DEF TableOK
    <3>2. ASSUME NEW p \in u.parts PROVE IsPart(p) /\ p.pid < u.next
      BY <2>2, <2>3 DEF TableOK, IsPart
    <3>3. ASSUME NEW p \in u.parts, NEW q \in u.parts, p.pid = q.pid PROVE p = q
      BY <2>2, <2>3, <3>3 DEF TableOK, IsPart
    <3> QED
      BY <2>3, <3>1, <3>2, <3>3 DEF TableOK
  <2>5. Exact(u, d)
    BY <2>2, <2>3 DEF Exact
  <2>6. NoneIsNothing => u # None
    BY <2>3, ShapeIsTable
  <2> QED
    BY <2>1, <2>3, <2>4, <2>5, <2>6
<1> QED
  BY <1>1, <1>2

\* PartSet::tombstone keeps the identity, and keeps the file only if it keeps
\* the whole part.
LEMMA TombstoneOK ==
  ASSUME NEW p, IsPart(p), NEW poss
  PROVE  /\ IsPart(Tombstone(p, poss)) /\ Tombstone(p, poss).pid = p.pid
         /\ Tombstone(p, poss) = p \/ Tombstone(p, poss).seq = NoFile
<1>1. CASE poss \subseteq p.dead
  BY <1>1 DEF Tombstone
<1>2. CASE ~(poss \subseteq p.dead)
  BY <1>2 DEF Tombstone, IsPart, NoFile
<1> QED
  BY <1>1, <1>2

\* So a table whose parts are tombstoned, each its own way, is as sound.
LEMMA RetouchOK ==
  ASSUME NEW t, TableOK(t), NEW u, NEW d, Exact(t, d),
         DOMAIN u = DOMAIN t, u.def = t.def, u.next = t.next, u.bad = t.bad,
         \A q \in u.parts : \E p \in t.parts : IsPart(q) /\ q.pid = p.pid /\ (q = p \/ q.seq = NoFile),
         \A q, r \in u.parts : q.pid = r.pid => q = r
  PROVE  TableOK(u) /\ Exact(u, d)
<1>1. TableOK(u)
  <2>1. ASSUME NEW q \in u.parts PROVE IsPart(q) /\ q.pid < u.next
    BY DEF TableOK
  <2>2. u.bad => u.parts = {}
    BY DEF TableOK
  <2> QED
    BY <2>1, <2>2 DEF TableOK
<1>2. Exact(u, d)
  BY DEF Exact
<1> QED
  BY <1>1, <1>2

\* A DELETE moves masks: a part that loses rows gives up its file.
LEMMA HideOK ==
  ASSUME NEW t, TableOK(t), NEW d, Exact(t, d), NEW S
  PROVE  /\ TableOK(Hide(t, S)) /\ Exact(Hide(t, S), d) /\ Hide(t, S).bad = t.bad
         /\ NoneIsNothing => Hide(t, S) # None
<1> DEFINE h(p) == Tombstone(p, Hits(p, S))
           u == [t EXCEPT !.parts = {h(p) : p \in t.parts}]
<1>1. Hide(t, S) = u
  BY DEF Hide
<1>2. \A p \in t.parts : IsPart(h(p)) /\ h(p).pid = p.pid /\ (h(p) = p \/ h(p).seq = NoFile)
  BY TombstoneOK DEF TableOK
<1> HIDE DEF h
<1>3. /\ DOMAIN u = DOMAIN t /\ u.def = t.def /\ u.next = t.next /\ u.bad = t.bad /\ u.parts = {h(p) : p \in t.parts}
      /\ u = [x \in {"def", "bad", "delta", "parts", "next"} |-> u[x]]
  BY DEF TableOK
<1> HIDE DEF u
<1>4. \A q \in u.parts : \E p \in t.parts : IsPart(q) /\ q.pid = p.pid /\ (q = p \/ q.seq = NoFile)
  BY <1>2, <1>3
<1>5. ASSUME NEW q \in u.parts, NEW r \in u.parts, q.pid = r.pid PROVE q = r
  <2>1. PICK p1 \in t.parts : q = h(p1)
    BY <1>3
  <2>2. PICK p2 \in t.parts : r = h(p2)
    BY <1>3
  <2>3. p1 = p2
    BY <1>2, <1>5, <2>1, <2>2 DEF TableOK
  <2> QED
    BY <2>1, <2>2, <2>3
<1>6. TableOK(u) /\ Exact(u, d)
  BY <1>3, <1>4, <1>5, RetouchOK
<1> QED
  BY <1>1, <1>3, <1>6, ShapeIsTable

\* The parts read from a sound directory: each from a file TABLE names.
LEMMA AdoptedOK ==
  ASSUME NEW d, DirOK(d), d.table # None
  PROVE  /\ \A q \in Adopted(d) : IsPart(q) /\ \E f \in d.files : f.seq = q.seq /\ f.seq \in d.table.files /\ Holds(f, q)
         /\ \A q, r \in Adopted(d) : q.pid = r.pid => q = r
         /\ \E b \in Nat : \A q \in Adopted(d) : q.pid <= b
<1> DEFINE F == {g \in d.files : g.seq \in d.table.files}
<1>1. Adopted(d) = {ReadPart(f) : f \in F}
  BY DEF Adopted
<1>2. \A f \in F : /\ IsFile(f) /\ f \in d.files /\ f.seq \in d.table.files
                   /\ IsPart(ReadPart(f)) /\ ReadPart(f).seq = f.seq /\ Holds(f, ReadPart(f))
  BY DEF DirOK, FilesOK, IsFile, IsPart, ReadPart, Holds
<1>3. \A f, g \in F : f.pid = g.pid => f = g
  BY DEF DirOK, RecordOK
<1> HIDE DEF F
<1>4. ASSUME NEW q \in Adopted(d)
      PROVE  IsPart(q) /\ \E f \in d.files : f.seq = q.seq /\ f.seq \in d.table.files /\ Holds(f, q)
  BY <1>1, <1>2
<1>5. ASSUME NEW q \in Adopted(d), NEW r \in Adopted(d), q.pid = r.pid PROVE q = r
  <2>1. PICK f \in F : q = ReadPart(f)
    BY <1>1
  <2>2. PICK g \in F : r = ReadPart(g)
    BY <1>1
  <2>3. f = g
    BY <1>2, <1>3, <1>5, <2>1, <2>2 DEF Holds
  <2> QED
    BY <2>1, <2>2, <2>3
<1>6. PICK b \in Nat : \A f \in d.files : f.seq <= b /\ f.pid <= b
  BY DEF DirOK, FilesOK
<1>7. \A q \in Adopted(d) : q.pid <= b
  BY <1>1, <1>2, <1>6 DEF Holds
<1> QED
  BY <1>4, <1>5, <1>7

\* load_catalog, one table: what it makes of a sound directory is a sound
\* table, whose parts claim files of that directory.
LEMMA LoadOK ==
  ASSUME NEW def \in Nat, NEW d, DirOK(d), NEW l, IsSeq(l)
  PROVE  /\ TableOK(Load(def, d, l))
         /\ \A p \in Load(def, d, l).parts : p.seq # NoFile => \E f \in d.files : f.seq = p.seq /\ Holds(f, p)
<1>1. Len(l) \in Nat
  BY DEF IsSeq
<1>2. ASSUME NEW x \in Nat, NEW y \in Nat PROVE TableOK(Table(x, {}, y)) /\ Table(x, {}, y).parts = {}
  BY DEF TableOK, Table
<1>3. ASSUME NEW x \in Nat PROVE TableOK(Quarantined(x)) /\ Quarantined(x).parts = {}
  BY DEF TableOK, Table, Quarantined
<1>4. CASE d.table = None
  <2>1. Load(def, d, l) = Table(def, {}, Len(l) + 1)
    BY <1>4 DEF Load, Seeded
  <2> QED
    BY <1>1, <1>2, <2>1
<1>5. CASE d.table # None
  <2> DEFINE ps == Adopted(d)
             next == IF ps = {} THEN Seeded(d.table.wc) ELSE 1 + Max({p.pid : p \in ps})
             t == Table(d.table.def, ps, next)
             recs == Suffix(l, d.table.wc)
  <2>1. Load(def, d, l) = IF Readable(d) /\ Replayable(t, recs) THEN Replay(t, recs) ELSE Quarantined(d.table.def)
    BY <1>5 DEF Load
  <2>2. d.table.def \in Nat /\ d.table.wc \in Nat
    BY <1>5 DEF DirOK, RecordOK
  <2>3. /\ \A q \in ps : IsPart(q) /\ \E f \in d.files : f.seq = q.seq /\ f.seq \in d.table.files /\ Holds(f, q)
        /\ \A q, r \in ps : q.pid = r.pid => q = r
    BY <1>5, AdoptedOK
  <2>4. PICK b \in Nat : \A q \in ps : q.pid <= b
    BY <1>5, AdoptedOK
  <2> HIDE DEF ps
  <2>5. next \in Nat /\ \A p \in ps : p.pid < next
    <3>1. CASE ps = {}
      BY <2>2, <3>1 DEF Seeded
    <3>2. CASE ps # {}
      <4> DEFINE S == {p.pid : p \in ps}
      <4>1. S \in SUBSET Nat /\ S # {} /\ \A x \in S : x <= b
        BY <2>3, <2>4, <3>2 DEF IsPart
      <4>2. \A p \in ps : p.pid \in S
        OBVIOUS
      <4>3. next = 1 + Max(S)
        BY <3>2
      <4> HIDE DEF S, next
      <4>4. Max(S) \in S /\ \A x \in S : x <= Max(S)
        BY <4>1, MaxOfBounded
      <4>5. Max(S) \in Nat
        BY <4>1, <4>4
      <4>6. next \in Nat
        BY <4>3, <4>5
      <4>7. ASSUME NEW p \in ps PROVE p.pid < next
        <5>1. p.pid \in S /\ p.pid \in Nat /\ p.pid <= Max(S)
          BY <4>1, <4>2, <4>4
        <5> QED
          BY <4>3, <4>5, <5>1
      <4> QED
        BY <4>6, <4>7
    <3> QED
      BY <3>1, <3>2
  <2> HIDE DEF next
  <2>6. /\ DOMAIN t = {"def", "bad", "delta", "parts", "next"} /\ t.def = d.table.def /\ ~t.bad
        /\ t.parts = ps /\ t.next = next
    BY DEF Table
  <2> HIDE DEF t
  <2>7. TableOK(t)
    BY <2>2, <2>3, <2>5, <2>6 DEF TableOK
  <2> DEFINE e == [d EXCEPT !.fresh = {}]
  <2>8. e.files = d.files /\ e.fresh = {}
    BY DEF DirOK
  <2> HIDE DEF e
  <2>9. Exact(t, e)
    BY <2>3, <2>6, <2>8 DEF Exact
  <2> DEFINE h(p) == Masked(p, recs)
             u == Replay(t, recs)
  <2>10. \A p \in t.parts : IsPart(h(p)) /\ h(p).pid = p.pid /\ (h(p) = p \/ h(p).seq = NoFile)
    BY <2>7, TombstoneOK DEF TableOK, Masked
  <2>11. DOMAIN u = DOMAIN t /\ u.def = t.def /\ u.next = t.next /\ u.bad = t.bad /\ u.parts = {h(p) : p \in t.parts}
    BY <2>7 DEF Replay, TableOK
  <2> HIDE DEF h, u
  <2>12. \A q \in u.parts : \E p \in t.parts : IsPart(q) /\ q.pid = p.pid /\ (q = p \/ q.seq = NoFile)
    BY <2>10, <2>11
  <2>13. ASSUME NEW q \in u.parts, NEW r \in u.parts, q.pid = r.pid PROVE q = r
    <3>1. PICK p1 \in t.parts : q = h(p1)
      BY <2>11
    <3>2. PICK p2 \in t.parts : r = h(p2)
      BY <2>11
    <3>3. p1 = p2
      BY <2>7, <2>10, <2>13, <3>1, <3>2 DEF TableOK
    <3> QED
      BY <3>1, <3>2, <3>3
  <2>14. TableOK(u) /\ Exact(u, e)
    BY <2>7, <2>9, <2>11, <2>12, <2>13, RetouchOK
  <2>15. \A p \in u.parts : p.seq # NoFile => \E f \in d.files : f.seq = p.seq /\ Holds(f, p)
    BY <2>8, <2>14 DEF Exact
  <2> QED
    BY <1>3, <2>1, <2>2, <2>14, <2>15 DEF u
<1> QED
  BY <1>4, <1>5

\* What a crash or a power loss leaves of a sound directory is sound, and no
\* rename in it is pending.
LEMMA ImagesOK ==
  ASSUME NEW d, DirOK(d), NEW e \in Images(d) \cup {Synced(d)}
  PROVE  DirOK(e) /\ e.fresh = {} /\ e.old = {} /\ e.files \subseteq d.files
<1>1. PICK gone \in SUBSET d.fresh, tbl \in {d.table} \cup d.old :
        /\ DOMAIN e = {"files", "table", "fresh", "old"}
        /\ e.files = {f \in d.files : f.seq \notin gone} /\ e.table = tbl /\ e.fresh = {} /\ e.old = {}
  <2>1. CASE e = Synced(d)
    <3>1. DOMAIN e = {"files", "table", "fresh", "old"} /\ e.files = d.files /\ e.table = d.table /\ e.fresh = {} /\ e.old = {}
      BY <2>1 DEF Synced, DirOK
    <3>2. {} \in SUBSET d.fresh /\ e.files = {f \in d.files : f.seq \notin {}}
      BY <3>1
    <3> QED
      BY <3>1, <3>2
  <2>2. CASE e \in Images(d)
    <3>1. PICK gone \in SUBSET d.fresh, tbl \in {d.table} \cup d.old : e = Image(d, gone, tbl)
      BY <2>2 DEF Images
    <3>2. /\ DOMAIN e = {"files", "table", "fresh", "old"}
          /\ e.files = {f \in d.files : f.seq \notin gone} /\ e.table = tbl /\ e.fresh = {} /\ e.old = {}
      BY <3>1 DEF DirOK, Image
    <3> QED
      BY <3>2
  <2> QED
    BY <2>1, <2>2
<1>2. FilesOK(e)
  BY <1>1 DEF DirOK, FilesOK
<1>3. tbl # None => RecordOK(tbl, e)
  BY <1>1 DEF DirOK, RecordOK, Seqs
<1> QED
  BY <1>1, <1>2, <1>3 DEF DirOK

-----------------------------------------------------------------------------
(* Statements.                                                              *)

\* A catalog that may take the place of the one in memory: sound tables, and
\* none quarantined that was not.
MemOK(m) ==
  /\ m = [n \in Names |-> m[n]]
  /\ \A n \in Names : m[n] # None => /\ TableOK(m[n]) /\ Exact(m[n], dir[n])
                                     /\ m[n].bad => mem[n] # None /\ mem[n].bad

\* A new data directory is sound.
LEMMA InitInv ==
  ASSUME Init
  PROVE  IInv
<1>1. Shapes
  <2>1. << >> \in Seq(Nat)
    BY EmptySeq
  <2> QED
    BY <2>1 DEF Init, Shapes, NotWriting, IsSeq
<1>2. DirInv
  <2>1. FilesOK(NoDir)
    BY DEF FilesOK, NoDir
  <2> QED
    BY <2>1 DEF Init, DirInv, DirOK, NoDir
<1>3. MemInv
  BY DEF Init, MemInv
<1>4. WriteInv
  BY DEF Init, WriteInv, Writing, NotWriting
<1>5. TodoInv
  <2>1. todo = << >> /\ << >> \in Seq(Steps)
    BY EmptySeq DEF Init
  <2> QED
    BY <2>1 DEF TodoInv
<1>6. CatInv
  BY DEF Init, CatInv, Rosters
<1> QED
  BY <1>1, <1>2, <1>3, <1>4, <1>5, <1>6 DEF IInv

\* Between statements nothing is being written and nothing is pending.
LEMMA IdleState ==
  ASSUME IInv, Idle
  PROVE  at.pc = "none" /\ ~Writing /\ catOld = {} /\ \A n \in Names : dir[n].old = {}
<1>1. ~Writing /\ at.pc # "root"
  BY DEF IInv, Idle, WriteInv, Shapes
<1>2. at.pc = "none"
  BY <1>1 DEF IInv, Shapes, Writing
<1> QED
  BY <1>1, <1>2 DEF IInv, CatInv, DirInv

\* The catalog in memory may take the place of itself.
LEMMA MemIsOK ==
  ASSUME IInv
  PROVE  MemOK(mem)
  BY DEF IInv, Shapes, MemInv, MemOK

\* A list of nothing but writes asks for nothing.
LEMMA PlainTodo ==
  ASSUME todo' \in Seq(Steps), \A i \in DOMAIN todo' : todo'[i].do \in Plain
  PROVE  TodoInv'
<1>1. \A i \in DOMAIN todo' : todo'[i].do # "link" /\ todo'[i].do # "move"
  BY DEF Plain
<1>2. todo' # <<>> => 1 \in DOMAIN todo'
  OBVIOUS
<1> QED
  BY <1>1, <1>2 DEF TodoInv

\* A statement that changes memory, the log and the list of things to do.
LEMMA IdleStep ==
  ASSUME IInv, Idle, UNCHANGED <<dir, cat, catOld, at>>, MemOK(mem'),
         log' = [n \in Names |-> log'[n]], \A n \in Names : IsSeq(log'[n]), TodoInv'
  PROVE  IInv'
<1>1. at'.pc = "none"
  BY IdleState
<1>2. Shapes'
  BY <1>1 DEF IInv, Shapes, MemOK
<1>3. DirInv'
  BY DEF IInv, DirInv
<1>4. MemInv'
  BY DEF MemOK, MemInv
<1>5. WriteInv'
  BY <1>1 DEF WriteInv, Writing
<1>6. CatInv'
  BY DEF IInv, CatInv, MemOK, Rosters
<1> QED
  BY <1>2, <1>3, <1>4, <1>5, <1>6 DEF IInv

\* FlushAll keeps a catalog sound, and tables tables.
LEMMA FlushAllOK ==
  ASSUME NoneIsNothing, NEW m, MemOK(m)
  PROVE  /\ MemOK(FlushAll(m))
         /\ \A n \in Names : IsTable(m[n]) <=> IsTable(FlushAll(m)[n])
<1>1. FlushAll(m) = [n \in Names |-> FlushAll(m)[n]]
  BY DEF FlushAll
<1>2. ASSUME NEW n \in Names
      PROVE  /\ FlushAll(m)[n] # None => /\ TableOK(FlushAll(m)[n]) /\ Exact(FlushAll(m)[n], dir[n])
                                         /\ FlushAll(m)[n].bad => mem[n] # None /\ mem[n].bad
             /\ IsTable(m[n]) <=> IsTable(FlushAll(m)[n])
  <2>1. CASE IsTable(m[n])
    <3>1. FlushAll(m)[n] = Flush(m[n])
      BY <2>1 DEF FlushAll
    <3>2. TableOK(m[n]) /\ Exact(m[n], dir[n]) /\ m[n] # None /\ ~m[n].bad
      BY <2>1 DEF IsTable, MemOK
    <3>3. TableOK(Flush(m[n])) /\ Exact(Flush(m[n]), dir[n]) /\ ~Flush(m[n]).bad /\ Flush(m[n]) # None
      BY <3>2, FlushOK
    <3> QED
      BY <2>1, <3>1, <3>3 DEF IsTable
  <2>2. CASE ~IsTable(m[n])
    <3>1. FlushAll(m)[n] = m[n]
      BY <2>2 DEF FlushAll
    <3> QED
      BY <3>1 DEF MemOK
  <2> QED
    BY <2>1, <2>2
<1> QED
  BY <1>1, <1>2 DEF MemOK

\* A catalog with another table under one name.
LEMMA PutOK ==
  ASSUME NEW m, MemOK(m), NEW n \in Names, NEW t,
         t # None => /\ TableOK(t) /\ Exact(t, dir[n])
                     /\ t.bad => mem[n] # None /\ mem[n].bad
  PROVE  MemOK([m EXCEPT ![n] = t])
  BY DEF MemOK

\* A table that differs in its delta only.
LEMMA DeltaOK ==
  ASSUME NEW t, TableOK(t), NEW d, Exact(t, d), NEW D
  PROVE  /\ TableOK([t EXCEPT !.delta = D]) /\ Exact([t EXCEPT !.delta = D], d)
         /\ [t EXCEPT !.delta = D].bad = t.bad
<1> DEFINE u == [t EXCEPT !.delta = D]
<1>1. DOMAIN u = DOMAIN t /\ u.def = t.def /\ u.next = t.next /\ u.bad = t.bad /\ u.parts = t.parts
  BY DEF TableOK
<1> HIDE DEF u
<1>2. TableOK(u) /\ Exact(u, d)
  BY <1>1 DEF TableOK, Exact
<1> QED
  BY <1>1, <1>2 DEF u

\* An INSERT fills the buffer and touches no part.
LEMMA InsertStep ==
  ASSUME IInv, NEW n \in Names, Insert(n)
  PROVE  IInv'
<1>1. Idle /\ IsTable(mem[n]) /\ UNCHANGED <<dir, cat, catOld, todo, at>>
  BY DEF Insert, Ack
<1>2. PICK D : mem' = [mem EXCEPT ![n] = [mem[n] EXCEPT !.delta = D]]
  BY DEF Insert
<1>3. MemOK(mem')
  <2>1. MemOK(mem)
    BY MemIsOK
  <2>2. TableOK(mem[n]) /\ Exact(mem[n], dir[n]) /\ ~mem[n].bad
    BY <1>1 DEF IInv, MemInv, IsTable
  <2>3. /\ TableOK([mem[n] EXCEPT !.delta = D]) /\ Exact([mem[n] EXCEPT !.delta = D], dir[n])
        /\ ~[mem[n] EXCEPT !.delta = D].bad
    BY <2>2, DeltaOK
  <2> QED
    BY <1>2, <2>1, <2>3, PutOK
<1>4. log' = [k \in Names |-> log'[k]] /\ \A k \in Names : IsSeq(log'[k])
  <2>1. PICK r : log' = [log EXCEPT ![n] = Append(log[n], r)]
    BY DEF Insert
  <2>2. PICK S : log[n] \in Seq(S)
    BY DEF IInv, Shapes, IsSeq
  <2>3. Append(log[n], r) \in Seq(S \cup {r})
    BY <2>2
  <2>4. IsSeq(Append(log[n], r))
    BY <2>3 DEF IsSeq
  <2> QED
    BY <2>1, <2>4 DEF IInv, Shapes
<1>5. TodoInv'
  BY <1>1, PlainTodo, EmptySeq DEF Idle
<1> QED
  BY <1>1, <1>3, <1>4, <1>5, IdleStep

\* A flush makes parts that claim no file.
LEMMA FlushBuffersStep ==
  ASSUME IInv, NoneIsNothing, FlushBuffers
  PROVE  IInv'
<1>1. Idle /\ mem' = FlushAll(mem) /\ UNCHANGED <<log, dir, cat, catOld, todo, at>>
  BY DEF FlushBuffers, disk
<1>2. MemOK(mem')
  BY <1>1, MemIsOK, FlushAllOK
<1>3. TodoInv'
  BY <1>1, PlainTodo, EmptySeq DEF Idle
<1>4. log' = [k \in Names |-> log'[k]] /\ \A k \in Names : IsSeq(log'[k])
  BY <1>1 DEF IInv, Shapes
<1> QED
  BY <1>1, <1>2, <1>3, <1>4, IdleStep

\* A merge drops parts and builds one under a fresh identity.
LEMMA MergePartsStep ==
  ASSUME IInv, NEW n \in Names, MergeParts(n)
  PROVE  IInv'
<1>1. Idle /\ IsTable(mem[n]) /\ UNCHANGED <<log, dir, cat, catOld, todo, at>>
  BY DEF MergeParts, disk
<1> DEFINE t == mem[n]
<1>2. PICK ps, kept :
        mem' = [mem EXCEPT ![n].parts = (t.parts \ ps) \cup (IF kept = {} THEN {} ELSE {Build(kept, t.next)}),
                           ![n].next = IF kept = {} THEN t.next ELSE t.next + 1]
  BY DEF MergeParts
<1>3. TableOK(t) /\ Exact(t, dir[n]) /\ ~t.bad
  BY <1>1 DEF IInv, MemInv, IsTable
<1> HIDE DEF t
<1> DEFINE b == Build(kept, t.next)
           u == [t EXCEPT !.parts = (t.parts \ ps) \cup (IF kept = {} THEN {} ELSE {b}),
                          !.next = IF kept = {} THEN t.next ELSE t.next + 1]
<1>4. IsPart(b) /\ b.pid = t.next /\ b.seq = NoFile
  BY <1>3 DEF IsPart, Build, NoFile, TableOK
<1>5. mem' = [mem EXCEPT ![n] = u]
  <2>1. mem = [k \in Names |-> mem[k]]
    BY DEF IInv, Shapes
  <2> QED
    BY <1>2, <2>1 DEF t
<1> HIDE DEF b
<1>6. /\ DOMAIN u = DOMAIN t /\ u.def = t.def /\ u.bad = t.bad
      /\ u.parts \subseteq t.parts \cup {b} /\ (b \in u.parts => u.next = t.next + 1 \/ b \in t.parts)
      /\ u.next \in {t.next, t.next + 1}
  BY <1>3 DEF TableOK
<1> HIDE DEF u
<1>7. TableOK(u)
  <2>1. u.def \in Nat /\ u.next \in Nat /\ ~u.bad /\ t.next \in Nat
    BY <1>3, <1>6 DEF TableOK
  <2>2. ASSUME NEW p \in u.parts PROVE IsPart(p) /\ p.pid < u.next
    <3>1. CASE p \in t.parts
      BY <1>3, <1>6, <3>1 DEF TableOK, IsPart
    <3>2. CASE p = b /\ b \notin t.parts
      BY <1>4, <1>6, <2>1, <3>2
    <3> QED
      BY <1>6, <3>1, <3>2
  <2>3. ASSUME NEW p \in u.parts, NEW q \in u.parts, p.pid = q.pid PROVE p = q
    BY <1>3, <1>4, <1>6, <2>1, <2>3 DEF TableOK, IsPart
  <2> QED
    BY <1>3, <1>6, <2>1, <2>2, <2>3 DEF TableOK
<1>8. Exact(u, dir[n])
  BY <1>3, <1>4, <1>6 DEF Exact
<1>9. MemOK(mem')
  BY <1>3, <1>5, <1>6, <1>7, <1>8, MemIsOK, PutOK
<1>10. TodoInv'
  BY <1>1, PlainTodo, EmptySeq DEF Idle
<1>11. log' = [k \in Names |-> log'[k]] /\ \A k \in Names : IsSeq(log'[k])
  BY <1>1 DEF IInv, Shapes
<1> QED
  BY <1>1, <1>9, <1>10, <1>11, IdleStep

\* A DELETE names finitely many parts: one record for each identity.
LEMMA MaskRunsFinite ==
  ASSUME NEW t, TableOK(t), NEW S
  PROVE  IsFiniteSet(MaskRuns(t, S))
<1> DEFINE run(p) == [kind |-> "mask", def |-> t.def, pid |-> p.pid, poss |-> Hits(p, S)]
           P == {q \in t.parts : Hits(q, S) # {} /\ Citable(q)}
           M == {run(p) : p \in P}
           g == [r \in M |-> r.pid]
<1>1. MaskRuns(t, S) = M
  BY DEF MaskRuns
<1>2. \A p \in P : run(p).pid = p.pid /\ p.pid \in 0..t.next
  BY DEF TableOK, IsPart
<1>3. \A p, q \in P : p.pid = q.pid => p = q
  BY DEF TableOK
<1> HIDE DEF run, P
<1>4. g \in Injection(M, 0..t.next)
  <2>1. \A r \in M : r.pid \in 0..t.next
    BY <1>2
  <2>2. ASSUME NEW r \in M, NEW s \in M, r.pid = s.pid PROVE r = s
    <3>1. PICK p \in P : r = run(p)
      OBVIOUS
    <3>2. PICK q \in P : s = run(q)
      OBVIOUS
    <3> QED
      BY <1>2, <1>3, <2>2, <3>1, <3>2
  <2> HIDE DEF M
  <2>3. g \in [M -> 0..t.next] /\ \A r, s \in M : g[r] = g[s] => r = s
    BY <2>1, <2>2
  <2> QED
    BY <2>3 DEF Injection, IsInjective
<1>5. IsFiniteSet(0..t.next)
  <2>1. 0 \in Int /\ t.next \in Int
    BY DEF TableOK
  <2> QED
    BY <2>1, FS_Interval
<1>6. IsFiniteSet(M)
  <2> HIDE DEF M, g
  <2> QED
    BY <1>4, <1>5, FS_Injection
<1> QED
  BY <1>1, <1>6

\* A DELETE by log record: masks in memory, positions in the log.
LEMMA SweepStep ==
  ASSUME IInv, NoneIsNothing, NEW n \in Names, NEW S, Sweep(n, S)
  PROVE  IInv'
<1> DEFINE t == Flush(mem[n])
<1>1. /\ Idle /\ IsTable(mem[n]) /\ UNCHANGED <<dir, cat, catOld, todo, at>>
      /\ mem' = [mem EXCEPT ![n] = Hide(t, S)] /\ log' = [log EXCEPT ![n] = log[n] \o SetToSeq(MaskRuns(t, S))]
  BY DEF Sweep, Ack
<1>2. TableOK(mem[n]) /\ Exact(mem[n], dir[n]) /\ ~mem[n].bad
  BY <1>1 DEF IInv, MemInv, IsTable
<1>3. TableOK(t) /\ Exact(t, dir[n]) /\ ~t.bad
  BY <1>2, FlushOK
<1> HIDE DEF t
<1>4. TableOK(Hide(t, S)) /\ Exact(Hide(t, S), dir[n]) /\ ~Hide(t, S).bad
  BY <1>3, HideOK
<1>5. MemOK(mem')
  BY <1>1, <1>4, MemIsOK, PutOK
<1>6. log' = [k \in Names |-> log'[k]] /\ \A k \in Names : IsSeq(log'[k])
  <2> DEFINE M == MaskRuns(t, S)
             c == Cardinality(M)
             s == SetToSeq(M)
  <2>1. s \in [1..c -> M] /\ c \in Nat
    BY <1>3, MaskRunsFinite, SetToSeqLists
  <2>2. PICK A : log[n] \in Seq(A)
    BY DEF IInv, Shapes, IsSeq
  <2> HIDE DEF M, c, s
  <2>3. s \in Seq(A \cup M) /\ log[n] \in Seq(A \cup M)
    BY <2>1, <2>2
  <2>4. IsSeq(log[n] \o s)
    BY <2>3, ConcatProperties DEF IsSeq
  <2> QED
    BY <1>1, <2>4 DEF IInv, Shapes, M, s
<1>7. TodoInv'
  BY <1>1, PlainTodo, EmptySeq DEF Idle
<1> QED
  BY <1>1, <1>5, <1>6, <1>7, IdleStep

\* A statement that begins a checkpoint of nothing but writes.
LEMMA BeginStep ==
  ASSUME IInv, Idle, NEW m, MemOK(m), NEW steps \in Seq(Steps),
         \A i \in 1..Len(steps) : steps[i].do \in Plain, Begin(m, steps)
  PROVE  IInv'
<1>1. mem' = m /\ todo' = steps /\ UNCHANGED <<log, dir, cat, catOld, at>>
  BY DEF Begin
<1>2. DOMAIN steps = 1..Len(steps)
  OBVIOUS
<1>3. TodoInv'
  BY <1>1, <1>2, PlainTodo
<1>4. log' = [k \in Names |-> log'[k]] /\ \A k \in Names : IsSeq(log'[k])
  BY <1>1 DEF IInv, Shapes
<1> QED
  BY <1>1, <1>3, <1>4, IdleStep

\* The list that writes one table, before another list or alone.
LEMMA OneTable ==
  ASSUME NEW n \in Names
  PROVE  /\ [do |-> "table", n |-> n] \in Steps /\ [do |-> "table", n |-> n].do \in Plain
         /\ <<[do |-> "table", n |-> n]>> \in Seq(Steps) /\ Len(<<[do |-> "table", n |-> n]>>) = 1
         /\ \A i \in 1..Len(<<[do |-> "table", n |-> n]>>) : <<[do |-> "table", n |-> n]>>[i].do \in Plain
<1> DEFINE e == [do |-> "table", n |-> n]
<1>1. e \in Steps /\ e.do \in Plain
  BY DEF Steps, Plain
<1> HIDE DEF e
<1>2. <<e>> \in Seq(Steps) /\ Len(<<e>>) = 1 /\ \A i \in 1..Len(<<e>>) : <<e>>[i].do \in Plain
  BY <1>1
<1> QED
  BY <1>1, <1>2 DEF e

\* A DELETE that commits by folding its table.
LEMMA DarkSweepStep ==
  ASSUME IInv, NoneIsNothing, NEW n \in Names, NEW S, DarkSweep(n, S)
  PROVE  IInv'
<1> DEFINE t == Flush(mem[n])
<1>1. Idle /\ IsTable(mem[n]) /\ Begin([mem EXCEPT ![n] = Hide(t, S)], <<[do |-> "table", n |-> n]>>)
  BY DEF DarkSweep
<1>2. TableOK(mem[n]) /\ Exact(mem[n], dir[n]) /\ ~mem[n].bad
  BY <1>1 DEF IInv, MemInv, IsTable
<1>3. TableOK(t) /\ Exact(t, dir[n]) /\ ~t.bad
  BY <1>2, FlushOK
<1> HIDE DEF t
<1>4. TableOK(Hide(t, S)) /\ Exact(Hide(t, S), dir[n]) /\ ~Hide(t, S).bad
  BY <1>3, HideOK
<1>5. MemOK([mem EXCEPT ![n] = Hide(t, S)])
  BY <1>4, MemIsOK, PutOK
<1> QED
  BY <1>1, <1>5, BeginStep, OneTable

\* drain_folds writes one table out.
LEMMA FoldStep ==
  ASSUME IInv, NoneIsNothing, NEW n \in Names, Fold(n)
  PROVE  IInv'
<1>1. Idle /\ IsTable(mem[n]) /\ Begin([mem EXCEPT ![n] = Flush(mem[n])], <<[do |-> "table", n |-> n]>>)
  BY DEF Fold
<1>2. TableOK(mem[n]) /\ Exact(mem[n], dir[n]) /\ ~mem[n].bad
  BY <1>1 DEF IInv, MemInv, IsTable
<1>3. TableOK(Flush(mem[n])) /\ Exact(Flush(mem[n]), dir[n]) /\ ~Flush(mem[n]).bad
  BY <1>2, FlushOK
<1>4. MemOK([mem EXCEPT ![n] = Flush(mem[n])])
  BY <1>3, MemIsOK, PutOK
<1> QED
  BY <1>1, <1>4, BeginStep, OneTable

\* A statement that ends in a checkpoint of everything.
LEMMA SaveStep ==
  ASSUME IInv, NoneIsNothing, Idle, NEW m, MemOK(m), Begin(FlushAll(m), SaveCatalog)
  PROVE  IInv'
<1>1. MemOK(FlushAll(m))
  BY FlushAllOK
<1> QED
  BY <1>1, BeginStep, SaveCatalogSteps

\* A table with no parts, whatever is in its delta, is sound anywhere.
LEMMA EmptyTableOK ==
  ASSUME NEW def \in Nat, NEW next \in Nat, NEW d, NEW D
  PROVE  /\ TableOK(Table(def, {}, next)) /\ Exact(Table(def, {}, next), d) /\ ~Table(def, {}, next).bad
         /\ TableOK([Table(def, {}, next) EXCEPT !.delta = D]) /\ Exact([Table(def, {}, next) EXCEPT !.delta = D], d)
         /\ ~[Table(def, {}, next) EXCEPT !.delta = D].bad
<1>1. TableOK(Table(def, {}, next)) /\ Exact(Table(def, {}, next), d) /\ ~Table(def, {}, next).bad
  BY DEF TableOK, Exact, Table
<1> QED
  BY <1>1, DeltaOK

\* CREATE, DROP, TRUNCATE and ALTER: a table that starts anew, or none.
LEMMA DdlSteps ==
  ASSUME IInv, NoneIsNothing, NEW n \in Names, Create(n) \/ Drop(n) \/ Truncate(n) \/ Alter(n)
  PROVE  IInv'
<1>1. Len(log[n]) \in Nat
  BY DEF IInv, Shapes, IsSeq
<1>2. MemOK(mem)
  BY MemIsOK
<1>3. ASSUME Create(n) PROVE IInv'
  <2> DEFINE m == [mem EXCEPT ![n] = Table(0, {}, Seeded(Len(log[n])))]
             e == <<[do |-> "table", n |-> n]>>
  <2>1. Idle /\ Begin(FlushAll(m), e \o SaveCatalog)
    BY <1>3 DEF Create
  <2>2. Seeded(Len(log[n])) \in Nat
    BY <1>1 DEF Seeded
  <2>3. MemOK(m)
    BY <1>2, <2>2, EmptyTableOK, PutOK
  <2>4. MemOK(FlushAll(m))
    BY <2>3, FlushAllOK
  <2>5. e \in Seq(Steps) /\ Len(e) = 1 /\ \A i \in 1..Len(e) : e[i].do \in Plain
    BY OneTable
  <2> HIDE DEF e, m
  <2>6. SaveCatalog \in Seq(Steps) /\ Len(SaveCatalog) \in Nat /\ \A i \in 1..Len(SaveCatalog) : SaveCatalog[i].do \in Plain
    BY SaveCatalogSteps
  <2>7. /\ e \o SaveCatalog \in Seq(Steps) /\ Len(e \o SaveCatalog) = Len(e) + Len(SaveCatalog)
        /\ \A i \in 1..(Len(e) + Len(SaveCatalog)) :
             (e \o SaveCatalog)[i] = IF i <= Len(e) THEN e[i] ELSE SaveCatalog[i - Len(e)]
    BY <2>5, <2>6, ConcatProperties
  <2>8. ASSUME NEW i \in 1..Len(e \o SaveCatalog) PROVE (e \o SaveCatalog)[i].do \in Plain
    <3>1. CASE i = 1
      BY <2>5, <2>6, <2>7, <3>1
    <3>2. CASE i # 1
      <4>1. (e \o SaveCatalog)[i] = SaveCatalog[i - 1] /\ i - 1 \in 1..Len(SaveCatalog)
        BY <2>5, <2>6, <2>7, <3>2
      <4> QED
        BY <2>6, <4>1
    <3> QED
      BY <3>1, <3>2
  <2> QED
    BY <2>1, <2>4, <2>7, <2>8, BeginStep
<1>4. ASSUME Drop(n) PROVE IInv'
  <2>1. Idle /\ Begin(FlushAll([mem EXCEPT ![n] = None]), SaveCatalog)
    BY <1>4 DEF Drop
  <2>2. MemOK([mem EXCEPT ![n] = None])
    BY <1>2, PutOK
  <2> QED
    BY <2>1, <2>2, SaveStep
<1>5. ASSUME IsTable(mem[n]) PROVE mem[n].def \in Nat
  BY <1>5 DEF IInv, MemInv, IsTable, TableOK
<1>6. ASSUME Truncate(n) PROVE IInv'
  <2> DEFINE t == Table(mem[n].def, {}, Seeded(Len(log[n])))
  <2>1. Idle /\ IsTable(mem[n]) /\ Begin(FlushAll([mem EXCEPT ![n] = t]), SaveCatalog)
    BY <1>6 DEF Truncate
  <2>2. Seeded(Len(log[n])) \in Nat
    BY <1>1 DEF Seeded
  <2>3. TableOK(t) /\ Exact(t, dir[n]) /\ ~t.bad
    BY <1>5, <2>1, <2>2, EmptyTableOK
  <2> HIDE DEF t
  <2>4. MemOK([mem EXCEPT ![n] = t])
    BY <1>2, <2>3, PutOK
  <2> QED
    BY <2>1, <2>4, SaveStep
<1>7. ASSUME Alter(n) PROVE IInv'
  <2> DEFINE t == [Table(mem[n].def + 1, {}, 1) EXCEPT !.delta = TableRows(mem[n])]
  <2>1. Idle /\ IsTable(mem[n]) /\ Begin(FlushAll([mem EXCEPT ![n] = t]), SaveCatalog)
    BY <1>7 DEF Alter
  <2>2. TableOK(t) /\ Exact(t, dir[n]) /\ ~t.bad
    <3>1. mem[n].def + 1 \in Nat /\ 1 \in Nat
      BY <1>5, <2>1
    <3> QED
      BY <3>1, EmptyTableOK, Zenon
  <2> HIDE DEF t
  <2>3. MemOK([mem EXCEPT ![n] = t])
    BY <1>2, <2>2, PutOK
  <2> QED
    BY <2>1, <2>3, SaveStep
<1> QED
  BY <1>3, <1>4, <1>6, <1>7

\* RENAME: everything is written out, the parts are linked under the new name,
\* the name moves, and everything is written out again.
LEMMA RenameStep ==
  ASSUME IInv, NoneIsNothing, NEW a \in Names, NEW b \in Names, Rename(a, b)
  PROVE  IInv'
<1> DEFINE link == [do |-> "link", from |-> a, to |-> b]
           move == [do |-> "move", from |-> a, to |-> b]
           k == Len(SaveCatalog)
           T == (SaveCatalog \o <<link, move>>) \o SaveCatalog
<1>1. Idle /\ a # b /\ IsTable(mem[a]) /\ ~IsTable(mem[b]) /\ Begin(FlushAll(mem), T)
  BY DEF Rename
<1>2. mem' = FlushAll(mem) /\ todo' = T /\ UNCHANGED <<log, dir, cat, catOld, at>>
  BY <1>1 DEF Begin
<1>3. MemOK(mem') /\ IsTable(mem'[a]) /\ ~IsTable(mem'[b])
  BY <1>1, <1>2, MemIsOK, FlushAllOK
<1>4. /\ link \in Steps /\ link.do = "link" /\ link.from = a /\ link.to = b
      /\ move \in Steps /\ move.do = "move" /\ move.from = a /\ move.to = b
      /\ move = [do |-> "move", from |-> link.from, to |-> link.to]
  BY DEF Steps
<1>5. /\ SaveCatalog \in Seq(Steps) /\ k \in Nat /\ k > 0
      /\ \A i \in 1..k : SaveCatalog[i].do \in Plain
      /\ \E i \in 1..k : SaveCatalog[i] = [do |-> "table", n |-> a]
  BY SaveCatalogSteps
<1> HIDE DEF link, move
<1>6. <<link, move>> \in Seq(Steps) /\ Len(<<link, move>>) = 2 /\ <<link, move>>[1] = link /\ <<link, move>>[2] = move
  BY <1>4
<1>7. /\ SaveCatalog \o <<link, move>> \in Seq(Steps) /\ Len(SaveCatalog \o <<link, move>>) = k + 2
      /\ \A i \in 1..(k + 2) : (SaveCatalog \o <<link, move>>)[i] = IF i <= k THEN SaveCatalog[i] ELSE <<link, move>>[i - k]
  <2>1. /\ SaveCatalog \o <<link, move>> \in Seq(Steps)
        /\ Len(SaveCatalog \o <<link, move>>) = Len(SaveCatalog) + Len(<<link, move>>)
        /\ \A i \in 1..(Len(SaveCatalog) + Len(<<link, move>>)) :
             (SaveCatalog \o <<link, move>>)[i] = IF i <= Len(SaveCatalog) THEN SaveCatalog[i] ELSE <<link, move>>[i - Len(SaveCatalog)]
    BY <1>5, <1>6, ConcatProperties
  <2> QED
    BY <1>6, <2>1
<1>8. /\ T \in Seq(Steps) /\ Len(T) = k + 2 + k
      /\ \A i \in 1..(k + 2 + k) : T[i] = IF i <= k + 2 THEN (SaveCatalog \o <<link, move>>)[i] ELSE SaveCatalog[i - (k + 2)]
  <2> DEFINE u == SaveCatalog \o <<link, move>>
  <2>0. u \in Seq(Steps) /\ Len(u) = k + 2
    BY <1>7
  <2> HIDE DEF u
  <2>1. /\ u \o SaveCatalog \in Seq(Steps) /\ Len(u \o SaveCatalog) = Len(u) + Len(SaveCatalog)
        /\ \A i \in 1..(Len(u) + Len(SaveCatalog)) : (u \o SaveCatalog)[i] = IF i <= Len(u) THEN u[i] ELSE SaveCatalog[i - Len(u)]
    BY <1>5, <2>0, ConcatProperties
  <2>2. T = u \o SaveCatalog
    BY DEF u
  <2> HIDE DEF T
  <2> QED
    BY <2>0, <2>1, <2>2 DEF u
<1> HIDE DEF T
<1>9. /\ \A i \in 1..k : T[i] = SaveCatalog[i] /\ T[i].do \in Plain
      /\ T[k + 1] = link /\ T[k + 2] = move
      /\ \A i \in (k + 3)..(k + 2 + k) : T[i].do \in Plain
  <2>1. ASSUME NEW i \in 1..k PROVE T[i] = SaveCatalog[i] /\ T[i].do \in Plain
    <3>1. T[i] = SaveCatalog[i]
      BY <1>5, <1>7, <1>8
    <3> QED
      BY <1>5, <3>1
  <2>2. T[k + 1] = link /\ T[k + 2] = move
    <3> DEFINE u == SaveCatalog \o <<link, move>>
               e == <<link, move>>
    <3>1. T[k + 1] = u[k + 1] /\ T[k + 2] = u[k + 2]
      <4> HIDE DEF u
      <4>1. \A i \in 1..(k + 2 + k) : T[i] = IF i <= k + 2 THEN u[i] ELSE SaveCatalog[i - (k + 2)]
        BY <1>8 DEF u
      <4> HIDE DEF k
      <4>2. k \in Nat
        BY <1>5
      <4>3. k + 1 \in 1..(k + 2 + k) /\ k + 1 <= k + 2
        BY <4>2
      <4>4. k + 2 \in 1..(k + 2 + k) /\ k + 2 <= k + 2
        BY <4>2
      <4>5. T[k + 1] = u[k + 1]
        BY <4>1, <4>3
      <4>6. T[k + 2] = u[k + 2]
        BY <4>1, <4>4
      <4> QED BY <4>5, <4>6
    <3>2. u[k + 1] = e[1] /\ u[k + 2] = e[2]
      <4>1. \A i \in 1..(k + 2) : u[i] = IF i <= k THEN SaveCatalog[i] ELSE e[i - k]
        BY <1>7
      <4> HIDE DEF u, e, k
      <4>2. k + 1 \in 1..(k + 2) /\ ~(k + 1 <= k) /\ (k + 1) - k = 1
        BY <1>5
      <4>3. k + 2 \in 1..(k + 2) /\ ~(k + 2 <= k) /\ (k + 2) - k = 2
        BY <1>5
      <4>4. u[k + 1] = e[(k + 1) - k] /\ u[k + 2] = e[(k + 2) - k]
        BY <4>1, <4>2, <4>3
      <4> QED BY <4>2, <4>3, <4>4
    <3> QED
      BY <1>6, <3>1, <3>2
  <2>3. ASSUME NEW i \in (k + 3)..(k + 2 + k) PROVE T[i].do \in Plain
    <3>1. T[i] = SaveCatalog[i - (k + 2)] /\ i - (k + 2) \in 1..k
      BY <1>5, <1>8
    <3> QED
      BY <1>5, <3>1
  <2> QED
    BY <2>1, <2>2, <2>3
<1> HIDE DEF k
<1>10. DOMAIN T = 1..(k + 2 + k)
  BY <1>8
<1>11. ASSUME NEW i \in DOMAIN T
       PROVE  /\ T[i].do = "link" => i = k + 1
              /\ T[i].do = "move" => i = k + 2
  <2>1. i \in 1..k \/ i = k + 1 \/ i = k + 2 \/ i \in (k + 3)..(k + 2 + k)
    BY <1>5, <1>10
  <2>2. T[k + 1].do = "link" /\ T[k + 2].do = "move"
    BY <1>4, <1>9
  <2>3. i \in 1..k \/ i \in (k + 3)..(k + 2 + k) => T[i].do \in Plain
    BY <1>9
  <2> QED
    BY <2>1, <2>2, <2>3 DEF Plain
<1>12. TodoInv'
  <2>1. ASSUME NEW i \in DOMAIN T, T[i].do = "link"
        PROVE  /\ i + 1 \in DOMAIN T
               /\ T[i + 1] = [do |-> "move", from |-> T[i].from, to |-> T[i].to]
               /\ T[i].from = a /\ T[i].to = b
               /\ \E j \in 1..(i - 1) : T[j] = [do |-> "table", n |-> T[i].from]
    <3>1. i = k + 1
      BY <1>11, <2>1
    <3>2. i + 1 \in DOMAIN T /\ i + 1 = k + 2 /\ i - 1 = k
      BY <1>5, <1>10, <3>1
    <3>3. T[i] = link /\ T[i + 1] = move
      BY <1>9, <3>1, <3>2
    <3>4. PICK j \in 1..k : SaveCatalog[j] = [do |-> "table", n |-> a]
      BY <1>5
    <3>5. j \in 1..(i - 1) /\ T[j] = [do |-> "table", n |-> a]
      BY <1>9, <3>2, <3>4
    <3> QED
      BY <1>4, <3>2, <3>3, <3>5
  <2>2. ASSUME NEW i \in DOMAIN T, T[i].do = "move"
        PROVE  (i > 1 => T[i - 1].do = "link") /\ \A j \in DOMAIN T : j > i => T[j].do \in Plain
    <3>1. i = k + 2
      BY <1>11, <2>2
    <3>2. i - 1 = k + 1
      BY <1>5, <3>1
    <3>3. ASSUME NEW j \in DOMAIN T, j > i PROVE T[j].do \in Plain
      <4>1. j \in (k + 3)..(k + 2 + k)
        BY <1>5, <1>10, <3>1, <3>3
      <4> QED
        BY <1>9, <4>1
    <3> QED
      BY <1>4, <1>9, <3>2, <3>3
  <2>3. T[1].do # "move"
    <3>1. 1 \in 1..k
      BY <1>5
    <3> QED
      BY <1>9, <3>1 DEF Plain
  <2> QED
    BY <1>1, <1>2, <1>3, <1>8, <2>1, <2>2, <2>3 DEF TodoInv
<1>13. log' = [n \in Names |-> log'[n]] /\ \A n \in Names : IsSeq(log'[n])
  BY <1>2 DEF IInv, Shapes
<1> QED
  BY <1>1, <1>2, <1>3, <1>12, <1>13, IdleStep

-----------------------------------------------------------------------------
(* The steps of a checkpoint.                                               *)

\* What a step on its way leaves of the list: nothing of it is used up.
LEMMA KeepTodo ==
  ASSUME TodoInv, UNCHANGED <<todo, mem>>, todo # <<>>, todo[1].do \in Plain
  PROVE  TodoInv'
<1>1. todo[1].do # "move"
  BY DEF Plain
<1> QED
  BY <1>1 DEF TodoInv, Ready

\* A write of the list is done, and with it, for a table, all its files.
LEMMA TailTodo ==
  ASSUME TodoInv, todo # <<>>, todo[1].do \in Plain, todo' = Tail(todo),
         \A n \in Names : IsTable(mem[n]) <=> IsTable(mem'[n]),
         \A n \in Names : IsTable(mem[n]) /\ Ready(n) => Ready(n)',
         \A n \in Names : IsTable(mem[n]) /\ todo[1] = [do |-> "table", n |-> n] => Ready(n)'
  PROVE  TodoInv'
<1>1. todo \in Seq(Steps) /\ Len(todo) \in Nat /\ Len(todo) > 0 /\ DOMAIN todo = 1..Len(todo)
  BY DEF TodoInv
<1>2. todo' \in Seq(Steps) /\ DOMAIN todo' = 1..(Len(todo) - 1) /\ \A i \in 1..(Len(todo) - 1) : todo'[i] = todo[i + 1]
  BY <1>1
<1>3. ASSUME NEW i \in DOMAIN todo', todo'[i].do = "link"
      PROVE  /\ i + 1 \in DOMAIN todo'
             /\ todo'[i + 1] = [do |-> "move", from |-> todo'[i].from, to |-> todo'[i].to]
             /\ todo'[i].from # todo'[i].to
             /\ IsTable(mem'[todo'[i].from]) /\ ~IsTable(mem'[todo'[i].to])
             /\ \/ \A p \in mem'[todo'[i].from].parts : p.seq # NoFile
                \/ \E j \in 1..(i - 1) : todo'[j] = [do |-> "table", n |-> todo'[i].from]
  <2>1. PICK k \in DOMAIN todo : k = i + 1 /\ todo'[i] = todo[k] /\ i \in Nat /\ i >= 1
    BY <1>1, <1>2
  <2>2. PICK a : a = todo[k].from
    OBVIOUS
  <2>3. PICK b : b = todo[k].to
    OBVIOUS
  <2>4. todo[k].do = "link"
    BY <1>3, <2>1
  <2>5. a \in Names /\ b \in Names
    <3>1. todo[k] \in Steps
      BY <1>1
    <3> QED
      BY <2>2, <2>3, <2>4, <3>1 DEF Steps
  <2>6. /\ k + 1 \in DOMAIN todo /\ todo[k + 1] = [do |-> "move", from |-> a, to |-> b] /\ a # b
        /\ IsTable(mem[a]) /\ ~IsTable(mem[b])
        /\ Ready(a) \/ \E j \in 1..(k - 1) : todo[j] = [do |-> "table", n |-> a]
    BY <2>2, <2>3, <2>4 DEF TodoInv
  <2>7. i + 1 \in DOMAIN todo' /\ todo'[i + 1] = todo[k + 1]
    BY <1>1, <1>2, <2>1, <2>6
  <2>8. Ready(a)' \/ \E j \in 1..(i - 1) : todo'[j] = [do |-> "table", n |-> a]
    <3>1. CASE Ready(a)
      BY <2>5, <2>6, <3>1
    <3>2. ASSUME NEW j \in 1..(k - 1), todo[j] = [do |-> "table", n |-> a]
          PROVE  Ready(a)' \/ \E h \in 1..(i - 1) : todo'[h] = [do |-> "table", n |-> a]
      <4>1. CASE j = 1
        BY <2>5, <2>6, <3>2, <4>1
      <4>2. CASE j # 1
        <5>1. j - 1 \in 1..(i - 1) /\ j - 1 \in 1..(Len(todo) - 1) /\ (j - 1) + 1 = j
          BY <1>1, <1>2, <2>1, <4>2
        <5>2. todo'[j - 1] = todo[j]
          BY <1>2, <5>1
        <5> QED
          BY <3>2, <5>1, <5>2
      <4> QED
        BY <4>1, <4>2
    <3> QED
      BY <2>6, <3>1, <3>2
  <2>9. IsTable(mem'[a]) /\ ~IsTable(mem'[b])
    BY <2>5, <2>6
  <2>10. todo'[i].from = a /\ todo'[i].to = b
    BY <2>1, <2>2, <2>3
  <2> QED
    BY <2>6, <2>7, <2>8, <2>9, <2>10 DEF Ready
<1>4. ASSUME NEW i \in DOMAIN todo', todo'[i].do = "move"
      PROVE  (i > 1 => todo'[i - 1].do = "link") /\ (\A j \in DOMAIN todo' : j > i => todo'[j].do \in Plain) /\ i # 1
  <2>1. i + 1 \in DOMAIN todo /\ todo[i + 1].do = "move" /\ i \in Nat /\ i >= 1
    BY <1>1, <1>2, <1>4
  <2>2. /\ i + 1 > 1 => todo[(i + 1) - 1].do = "link"
        /\ \A j \in DOMAIN todo : j > i + 1 => todo[j].do \in Plain
    BY <2>1 DEF TodoInv
  <2>3. todo[i].do = "link"
    <3>1. (i + 1) - 1 = i /\ i + 1 > 1
      BY <2>1
    <3> QED
      BY <2>2, <3>1
  <2>4. i # 1
    BY <2>3 DEF Plain
  <2>5. todo'[i - 1].do = "link"
    <3>1. i - 1 \in 1..(Len(todo) - 1) /\ (i - 1) + 1 = i
      BY <1>1, <1>2, <2>1, <2>4
    <3> QED
      BY <1>2, <2>3, <3>1
  <2>6. ASSUME NEW j \in DOMAIN todo', j > i PROVE todo'[j].do \in Plain
    <3>1. j + 1 \in DOMAIN todo /\ j + 1 > i + 1 /\ todo'[j] = todo[j + 1]
      BY <1>1, <1>2, <2>1, <2>6
    <3> QED
      BY <2>2, <3>1
  <2> QED
    BY <2>4, <2>5, <2>6
<1>5. todo' # <<>> => todo'[1].do # "move"
  <2>1. todo' # <<>> => 1 \in DOMAIN todo'
    BY <1>2
  <2> QED
    BY <1>4, <2>1
<1> QED
  BY <1>2, <1>3, <1>4, <1>5 DEF TodoInv, Ready

\* write_table allocates above every file and above the log.
LEMMA NextSeqOK ==
  ASSUME IInv, NEW n \in Names
  PROVE  NextSeq(n) \in Nat \ {0} /\ \A f \in dir[n].files : f.seq < NextSeq(n)
<1>1. Len(log[n]) \in Nat
  BY DEF IInv, Shapes, IsSeq
<1>2. PICK b \in Nat : \A f \in dir[n].files : f.seq <= b
  BY DEF IInv, DirInv, DirOK, FilesOK
<1>3. \A f \in dir[n].files : f.seq \in Nat
  BY DEF IInv, DirInv, DirOK, FilesOK, IsFile
<1> DEFINE S == Seqs(dir[n]) \cup {Len(log[n])}
           c == IF b > Len(log[n]) THEN b ELSE Len(log[n])
<1>4. S \in SUBSET Nat /\ S # {} /\ c \in Nat /\ \A x \in S : x <= c
  BY <1>1, <1>2, <1>3 DEF Seqs
<1>5. \A f \in dir[n].files : f.seq \in S
  BY DEF Seqs
<1>6. NextSeq(n) = 1 + Max(S)
  BY DEF NextSeq
<1> HIDE DEF S, c
<1>7. Max(S) \in S /\ \A x \in S : x <= Max(S)
  BY <1>4, MaxOfBounded
<1>8. Max(S) \in Nat
  BY <1>4, <1>7
<1>9. ASSUME NEW f \in dir[n].files PROVE f.seq < NextSeq(n)
  <2>1. f.seq <= Max(S) /\ f.seq \in Nat
    BY <1>3, <1>5, <1>7
  <2> QED
    BY <1>6, <1>8, <2>1
<1> QED
  BY <1>6, <1>8, <1>9

\* Unless a table is being written or the root synced, nothing is pending.
LEMMA Quiet ==
  ASSUME IInv, at.pc = "none"
  PROVE  ~Writing /\ catOld = {} /\ \A n \in Names : dir[n].old = {}
  BY DEF IInv, Writing, CatInv, DirInv

\* The step at the head of the list says whether anything is being written.
LEMMA HeadSaysQuiet ==
  ASSUME IInv, todo # <<>>, todo[1].do \notin {"table", "catalog"}
  PROVE  at.pc = "none"
<1>1. ~Writing
  BY DEF IInv, WriteInv
<1>2. at.pc # "root"
  BY DEF IInv, Shapes
<1> QED
  BY <1>1, <1>2 DEF IInv, Shapes, Writing

\* A step that is skipped, or that touches neither tables nor directories.
LEMMA ProceedOnly ==
  ASSUME IInv, at.pc \in {"none", "root"}, at'.pc = "none", todo # <<>>, todo[1].do \in Plain, Proceed,
         UNCHANGED <<mem, log, dir, cat>>, catOld' = {},
         \A n \in Names : ~(IsTable(mem[n]) /\ todo[1] = [do |-> "table", n |-> n])
  PROVE  IInv'
<1>1. todo' = Tail(todo)
  BY DEF Proceed
<1>2. \A n \in Names : (Ready(n) => Ready(n)') /\ (IsTable(mem[n]) <=> IsTable(mem'[n]))
  BY DEF Ready
<1>3. TodoInv'
  BY <1>1, <1>2, TailTodo DEF IInv
<1>4. Shapes'
  BY DEF IInv, Shapes
<1>5. DirInv'
  BY DEF IInv, DirInv
<1>6. MemInv' /\ WriteInv'
  BY DEF IInv, MemInv, WriteInv, Writing
<1>7. CatInv'
  BY DEF IInv, CatInv, Rosters
<1> QED
  BY <1>3, <1>4, <1>5, <1>6, <1>7 DEF IInv

\* What is reused has its file; new numbers start above all there is.
LEMMA StartTableStep ==
  ASSUME IInv, StartTable
  PROVE  IInv'
<1>0. todo # <<>> /\ todo[1].do = "table" /\ at.pc = "none" /\ UNCHANGED <<mem, log, dir, cat, catOld>>
  BY DEF StartTable, Idle, Step
<1>1. PICK n : n = todo[1].n
  OBVIOUS
<1>2. n \in Names /\ todo[1] = [do |-> "table", n |-> n]
  <2>1. todo[1] \in Steps
    BY <1>0 DEF IInv, TodoInv
  <2> QED
    BY <1>0, <1>1, <2>1 DEF Steps
<1>3. ~Writing /\ catOld = {} /\ \A k \in Names : dir[k].old = {}
  BY <1>0, Quiet
<1>4. CASE IsTable(mem[n])
  <2> DEFINE reused == {p \in mem[n].parts : p.seq \in Seqs(dir[n])}
             a == [pc |-> "parts", n |-> n, wc |-> Len(log[n]), next |-> NextSeq(n), onDisk |-> Seqs(dir[n]),
                   names |-> {p.seq : p \in reused}, left |-> mem[n].parts \ reused, claims |-> {}]
  <2>1. at' = a /\ todo' = todo
    BY <1>1, <1>4 DEF StartTable, Step
  <2>2. TableOK(mem[n]) /\ Exact(mem[n], dir[n]) /\ DirOK(dir[n])
    BY <1>2, <1>4 DEF IInv, MemInv, DirInv, IsTable
  <2>3. \A p \in reused : p \in mem[n].parts /\ p.seq \in Seqs(dir[n]) /\ p.seq # NoFile
    BY <2>2 DEF Seqs, DirOK, FilesOK, IsFile, NoFile
  <2>4. \A p \in mem[n].parts \ reused : p.seq = NoFile
    BY <2>2 DEF Exact, Seqs
  <2>5. Len(log[n]) \in Nat
    BY <1>2 DEF IInv, Shapes, IsSeq
  <2>6. NextSeq(n) \in Nat \ {0} /\ \A f \in dir[n].files : f.seq < NextSeq(n)
    BY <1>2, NextSeqOK
  <2> HIDE DEF reused
  <2>7. /\ DOMAIN at' = {"pc", "n", "wc", "next", "onDisk", "names", "left", "claims"} /\ at'.pc = "parts" /\ at'.n = n
        /\ at'.wc = Len(log[n]) /\ at'.next = NextSeq(n) /\ at'.names = {p.seq : p \in reused}
        /\ at'.left = mem[n].parts \ reused /\ at'.claims = {}
    BY <2>1
  <2>8. mem[n].parts \ at'.left = reused
    BY <2>3, <2>7
  <2>9. WriteInv'
    <3>1. dir'[at'.n] = dir[n] /\ mem'[at'.n] = mem[n] /\ todo' = todo
      BY <1>0, <2>1, <2>7
    <3>2. \A p \in reused : Placed(at', dir[n], p)
      BY <2>3, <2>7 DEF Placed
    <3>3. at'.names \subseteq Seqs(dir[n])
      BY <2>3, <2>7
    <3>4. \A s \in at'.names : \E p \in reused : p.seq # NoFile /\ s = p.seq
      BY <2>3, <2>7
    <3>5. at'.left \subseteq mem[n].parts /\ \A p \in at'.left : p.seq = NoFile
      BY <2>4, <2>7
    <3>6. WriteOK(at', dir[n], mem[n])
      <4> DEFINE written == mem[n].parts \ at'.left
      <4>1. \A p \in written : Placed(at', dir[n], p)
        BY <2>8, <3>2
      <4>2. \A s \in at'.names : \E p \in written :
              IF p.seq # NoFile THEN s = p.seq ELSE [pid |-> p.pid, seq |-> s] \in at'.claims
        BY <2>8, <3>4
      <4>3. at'.wc \in Nat /\ at'.next \in Nat \ {0} /\ \A f \in dir[n].files : f.seq < at'.next
        BY <2>5, <2>6, <2>7
      <4>4. at'.claims = {} /\ at'.pc = "parts"
        BY <2>7
      <4>5. DOMAIN at' = {"pc", "n", "wc", "next", "onDisk", "names", "left", "claims"}
        BY <2>7
      <4> HIDE DEF written
      <4> QED
        BY <3>3, <3>5, <4>1, <4>2, <4>3, <4>4, <4>5 DEF WriteOK, written
    <3> QED
      BY <1>0, <1>2, <1>4, <2>7, <3>1, <3>6 DEF WriteInv
  <2>10. TodoInv'
    <3>1. todo[1].do \in Plain
      BY <1>0 DEF Plain
    <3> QED
      BY <1>0, <2>1, <3>1, KeepTodo DEF IInv
  <2>11. Shapes' /\ MemInv'
    BY <1>0, <2>7 DEF IInv, Shapes, MemInv
  <2>12. DirInv'
    BY <1>0, <1>3 DEF IInv, DirInv
  <2>13. CatInv'
    BY <1>0, <1>3 DEF IInv, CatInv, Rosters
  <2> QED
    BY <2>9, <2>10, <2>11, <2>12, <2>13 DEF IInv
<1>5. CASE ~IsTable(mem[n])
  <2>1. Proceed /\ at' = at
    BY <1>1, <1>5 DEF StartTable, Step
  <2>2. todo[1].do \in Plain
    BY <1>0 DEF Plain
  <2>3. \A k \in Names : todo[1] = [do |-> "table", n |-> k] => k = n
    BY <1>2
  <2> QED
    BY <1>0, <1>3, <1>5, <2>1, <2>2, <2>3, ProceedOnly
<1> QED
  BY <1>4, <1>5

\* While a table is written its directory is the only thing that changes.
LEMMA WritingStep ==
  ASSUME IInv, Writing, Writing', at'.n = at.n, UNCHANGED <<mem, log, cat, catOld, todo>>,
         NEW d, dir' = [dir EXCEPT ![at.n] = d],
         DirOK(d), d.old # {} => at'.pc = "sync", Exact(mem[at.n], d),
         WriteOK(at', d, mem[at.n])
  PROVE  IInv'
<1>1. at.n \in Names /\ IsTable(mem[at.n]) /\ todo # <<>> /\ todo[1] = [do |-> "table", n |-> at.n]
  BY DEF IInv, WriteInv
<1>2. dir'[at.n] = d /\ \A n \in Names \ {at.n} : dir'[n] = dir[n]
  BY <1>1 DEF IInv, Shapes
<1>3. DirInv'
  <2>1. ASSUME NEW n \in Names PROVE DirOK(dir'[n]) /\ (dir'[n].old # {} => at'.pc = "sync" /\ at'.n = n)
    <3>1. CASE n = at.n
      BY <1>2, <3>1
    <3>2. CASE n # at.n
      BY <1>2, <3>2 DEF IInv, DirInv
    <3> QED
      BY <3>1, <3>2
  <2> QED
    BY <2>1 DEF DirInv
<1>4. MemInv'
  BY <1>1, <1>2 DEF IInv, MemInv
<1>5. WriteInv'
  BY <1>1, <1>2 DEF WriteInv
<1>6. TodoInv'
  <2>1. todo[1].do \in Plain
    BY <1>1 DEF Plain
  <2> QED
    BY <1>1, <2>1, KeepTodo DEF IInv
<1>7. Shapes'
  BY <1>1 DEF IInv, Shapes, Writing
<1>8. CatInv'
  <2>1. catOld = {}
    BY DEF IInv, CatInv, Writing
  <2>2. \A n \in Names : mem[n] # None /\ mem[n].bad => n # at.n
    BY <1>1 DEF IsTable
  <2> QED
    BY <1>2, <2>1, <2>2 DEF IInv, CatInv, Rosters
<1> QED
  BY <1>3, <1>4, <1>5, <1>6, <1>7, <1>8 DEF IInv

\* What there is to know of the table being written.
LEMMA WritingFacts ==
  ASSUME IInv, Writing
  PROVE  /\ at.n \in Names /\ IsTable(mem[at.n]) /\ TableOK(mem[at.n]) /\ Exact(mem[at.n], dir[at.n])
         /\ DirOK(dir[at.n]) /\ WriteOK(at, dir[at.n], mem[at.n])
         /\ todo # <<>> /\ todo[1] = [do |-> "table", n |-> at.n]
         /\ dir[at.n].old # {} => at.pc = "sync"
  BY DEF IInv, WriteInv, MemInv, DirInv, IsTable

\* A file under a number above all others disturbs nothing.
LEMMA AddFileOK ==
  ASSUME NEW d, DirOK(d), NEW f, IsFile(f), \A g \in d.files : g.seq < f.seq,
         NEW e, DOMAIN e = DOMAIN d, e.files = d.files \cup {f}, e.fresh = d.fresh \cup {f.seq},
         e.table = d.table, e.old = d.old
  PROVE  DirOK(e) /\ \A t : Exact(t, d) => Exact(t, e)
<1>1. f.seq \in Nat /\ f.pid \in Nat /\ f.seq \notin Seqs(d) /\ \A g \in d.files : g.seq \in Nat /\ g.pid \in Nat
  BY DEF IsFile, Seqs, DirOK, FilesOK
<1>2. FilesOK(e)
  <2>1. PICK b \in Nat : \A g \in d.files : g.seq <= b /\ g.pid <= b
    BY DEF DirOK, FilesOK
  <2>2. b + f.seq + f.pid \in Nat /\ \A g \in e.files : g.seq <= b + f.seq + f.pid /\ g.pid <= b + f.seq + f.pid
    BY <1>1, <2>1
  <2>3. \A g, h \in e.files : g.seq = h.seq => g = h
    BY <1>1 DEF DirOK, FilesOK, Seqs
  <2> QED
    BY <2>2, <2>3 DEF DirOK, FilesOK
<1>3. ASSUME NEW T, RecordOK(T, d) PROVE RecordOK(T, e)
  <2>1. f.seq \notin T.files
    BY <1>1, <1>3 DEF RecordOK
  <2> QED
    BY <1>3, <2>1 DEF RecordOK, Seqs
<1>4. DirOK(e)
  BY <1>2, <1>3 DEF DirOK
<1>5. ASSUME NEW t, Exact(t, d) PROVE Exact(t, e)
  BY <1>1, <1>5 DEF Exact, Seqs
<1> QED
  BY <1>4, <1>5

\* A new file under a new number, which no record names yet.
LEMMA PublishPartStep ==
  ASSUME IInv, PublishPart
  PROVE  IInv'
<1>0. at.pc = "parts" /\ at.left # {} /\ UNCHANGED <<mem, log, cat, catOld, todo>>
  BY DEF PublishPart
<1>1. PICK n : n = at.n
  OBVIOUS
<1>2. PICK t : t = mem[n]
  OBVIOUS
<1>3. PICK d : d = dir[n]
  OBVIOUS
<1>4. Writing
  BY <1>0 DEF Writing
<1>5. /\ n \in Names /\ IsTable(t) /\ TableOK(t) /\ Exact(t, d) /\ DirOK(d) /\ WriteOK(at, d, t) /\ d.old = {}
  BY <1>0, <1>1, <1>2, <1>3, <1>4, WritingFacts
<1>6. PICK p : p = CHOOSE q \in at.left : \A r \in at.left : q.pid <= r.pid
  OBVIOUS
<1>7. p \in at.left /\ p \in t.parts /\ IsPart(p) /\ p.seq = NoFile
  <2>1. \A q \in at.left : q \in t.parts /\ IsPart(q) /\ q.pid \in Nat /\ q.seq = NoFile
    BY <1>5 DEF WriteOK, TableOK, IsPart
  <2>2. \E q \in at.left : \A r \in at.left : q.pid <= r.pid
    BY <1>0, <2>1, LeastPart
  <2>3. p \in at.left
    BY <1>6, <2>2
  <2> QED
    BY <2>1, <2>3
<1>8. PICK f : f = PartFile(p, at.next)
  OBVIOUS
<1>9. IsFile(f) /\ f.seq = at.next /\ Holds(f, p)
  BY <1>5, <1>7, <1>8 DEF WriteOK, IsFile, IsPart, PartFile, Holds
<1> DEFINE e == [d EXCEPT !.files = d.files \cup {f}, !.fresh = d.fresh \cup {f.seq}]
           c == [pid |-> p.pid, seq |-> f.seq]
           a == [at EXCEPT !.next = at.next + 1, !.left = at.left \ {p}, !.names = at.names \cup {f.seq},
                           !.claims = at.claims \cup {c}]
<1>10. /\ dir' = [dir EXCEPT ![at.n].files = dir[at.n].files \cup {f}, ![at.n].fresh = dir[at.n].fresh \cup {f.seq}]
       /\ at' = a
  BY <1>6, <1>8 DEF PublishPart
<1>11. dir' = [dir EXCEPT ![n] = e]
  <2>1. dir = [k \in Names |-> dir[k]]
    BY DEF IInv, Shapes
  <2> QED
    BY <1>1, <1>3, <1>5, <1>10, <2>1
<1>12. /\ DOMAIN e = DOMAIN d /\ e.files = d.files \cup {f} /\ e.fresh = d.fresh \cup {f.seq}
       /\ e.table = d.table /\ e.old = d.old
  BY <1>5 DEF DirOK
<1>13. /\ DOMAIN a = {"pc", "n", "wc", "next", "onDisk", "names", "left", "claims"} /\ a.pc = "parts" /\ a.n = n
       /\ a.wc = at.wc /\ a.next = at.next + 1 /\ a.left = at.left \ {p} /\ a.names = at.names \cup {f.seq}
       /\ a.claims = at.claims \cup {c}
  BY <1>0, <1>1, <1>5 DEF WriteOK
<1>14. c.pid = p.pid /\ c.seq = f.seq /\ c = [pid |-> c.pid, seq |-> c.seq]
  OBVIOUS
<1> HIDE DEF e, c, a
<1>15. \A g \in d.files : g.seq < f.seq /\ g.seq \in Nat
  BY <1>5, <1>9 DEF WriteOK, DirOK, FilesOK, IsFile
<1>16. DirOK(e) /\ Exact(t, e)
  BY <1>5, <1>9, <1>12, <1>15, AddFileOK
<1>17. WriteOK(a, e, t)
  <2> DEFINE written == t.parts \ a.left
             before == t.parts \ at.left
  <2>1. written = before \cup {p} /\ p \notin before
    BY <1>7, <1>13
  <2>2. /\ at.wc \in Nat /\ at.next \in Nat \ {0}
        /\ at.left \subseteq t.parts /\ \A q \in at.left : q.seq = NoFile
        /\ at.names \subseteq Seqs(d)
        /\ \A q \in before : Placed(at, d, q)
        /\ \A s \in at.names : \E q \in before :
             IF q.seq # NoFile THEN s = q.seq ELSE [pid |-> q.pid, seq |-> s] \in at.claims
        /\ \A b \in at.claims : /\ b = [pid |-> b.pid, seq |-> b.seq] /\ b.seq \in at.names
                                /\ \E q \in before : q.pid = b.pid /\ q.seq = NoFile
        /\ \A b, h \in at.claims : b.pid = h.pid => b = h
    BY <1>5 DEF WriteOK
  <2> HIDE DEF written, before
  <2>3. a.wc \in Nat /\ a.next \in Nat \ {0} /\ \A g \in e.files : g.seq < a.next
    BY <1>9, <1>12, <1>13, <1>15, <2>2
  <2>4. a.left \subseteq t.parts /\ \A q \in a.left : q.seq = NoFile
    BY <1>13, <2>2
  <2>5. a.names \subseteq Seqs(e)
    BY <1>12, <1>13, <2>2 DEF Seqs
  <2>6. \A q \in written : Placed(a, e, q)
    <3>1. ASSUME NEW q \in before PROVE Placed(a, e, q)
      <4>1. Placed(at, d, q)
        BY <2>2
      <4> QED
        BY <1>12, <1>13, <4>1 DEF Placed
    <3>2. Placed(a, e, p)
      <4>1. c \in a.claims /\ f \in e.files
        BY <1>12, <1>13
      <4> QED
        BY <1>7, <1>9, <1>14, <4>1 DEF Placed
    <3> QED
      BY <2>1, <3>1, <3>2
  <2>7. \A s \in a.names : \E q \in written :
          IF q.seq # NoFile THEN s = q.seq ELSE [pid |-> q.pid, seq |-> s] \in a.claims
    <3>1. ASSUME NEW s \in at.names
          PROVE  \E q \in written : IF q.seq # NoFile THEN s = q.seq ELSE [pid |-> q.pid, seq |-> s] \in a.claims
      <4>1. PICK q \in before : IF q.seq # NoFile THEN s = q.seq ELSE [pid |-> q.pid, seq |-> s] \in at.claims
        BY <2>2
      <4> QED
        BY <1>13, <2>1, <4>1
    <3>2. p \in written /\ p.seq = NoFile /\ [pid |-> p.pid, seq |-> f.seq] \in a.claims
      BY <1>7, <1>13, <2>1 DEF c
    <3> QED
      BY <1>13, <3>1, <3>2
  <2>8. \A b \in a.claims : /\ b = [pid |-> b.pid, seq |-> b.seq] /\ b.seq \in a.names
                            /\ \E q \in written : q.pid = b.pid /\ q.seq = NoFile
    <3>1. ASSUME NEW b \in at.claims
          PROVE  /\ b = [pid |-> b.pid, seq |-> b.seq] /\ b.seq \in a.names
                 /\ \E q \in written : q.pid = b.pid /\ q.seq = NoFile
      BY <1>13, <2>1, <2>2
    <3>2. c.seq \in a.names /\ p \in written /\ p.pid = c.pid /\ p.seq = NoFile
      BY <1>7, <1>13, <1>14, <2>1
    <3> QED
      BY <1>13, <1>14, <3>1, <3>2
  <2>9. \A b, h \in a.claims : b.pid = h.pid => b = h
    <3>1. ASSUME NEW b \in at.claims PROVE b.pid # p.pid
      <4>1. PICK q \in before : q.pid = b.pid
        BY <2>2
      <4>2. q # p /\ q \in t.parts
        BY <2>1, <4>1 DEF before
      <4> QED
        BY <1>5, <1>7, <4>1, <4>2 DEF TableOK
    <3> QED
      BY <1>13, <1>14, <2>2, <3>1
  <2>10. a.pc = "parts" /\ DOMAIN a = {"pc", "n", "wc", "next", "onDisk", "names", "left", "claims"}
    BY <1>13
  <2> QED
    BY <2>3, <2>4, <2>5, <2>6, <2>7, <2>8, <2>9, <2>10 DEF WriteOK, written
<1>18. Writing' /\ at'.n = at.n
  BY <1>1, <1>10, <1>13 DEF Writing
<1> QED
  BY <1>0, <1>1, <1>2, <1>4, <1>5, <1>10, <1>11, <1>12, <1>16, <1>17, <1>18, WritingStep

\* From the last part file on, only the state of the write changes.
LEMMA WriteRest ==
  ASSUME NEW a, NEW d, NEW t, WriteOK(a, d, t), NEW e, e.files = d.files, a.left = {},
         NEW pc, a.names \cap e.fresh = {}, pc \in {"sync", "claim"} => e.table.files = a.names
  PROVE  WriteOK([a EXCEPT !.pc = pc], e, t)
<1> DEFINE b == [a EXCEPT !.pc = pc]
<1>1. /\ DOMAIN b = {"pc", "n", "wc", "next", "onDisk", "names", "left", "claims"} /\ b.pc = pc
      /\ b.wc = a.wc /\ b.next = a.next /\ b.left = a.left /\ b.names = a.names /\ b.claims = a.claims
  BY DEF WriteOK
<1> HIDE DEF b
<1>2. Seqs(e) = Seqs(d)
  BY DEF Seqs
<1>3. \A p : Placed(a, d, p) <=> Placed(b, e, p)
  BY <1>1 DEF Placed
<1>4. WriteOK(b, e, t)
  BY <1>1, <1>2, <1>3 DEF WriteOK
<1> QED
  BY <1>4 DEF b

\* After the fsync no file that TABLE is to name can go missing.
LEMMA SyncPartsStep ==
  ASSUME IInv, SyncParts
  PROVE  IInv'
<1>0. at.pc = "parts" /\ at.left = {} /\ UNCHANGED <<mem, log, cat, catOld, todo>>
  BY DEF SyncParts
<1>1. PICK n : n = at.n
  OBVIOUS
<1>2. PICK t : t = mem[n]
  OBVIOUS
<1>3. PICK d : d = dir[n]
  OBVIOUS
<1>4. Writing
  BY <1>0 DEF Writing
<1>5. n \in Names /\ IsTable(t) /\ TableOK(t) /\ Exact(t, d) /\ DirOK(d) /\ WriteOK(at, d, t) /\ d.old = {}
  BY <1>0, <1>1, <1>2, <1>3, <1>4, WritingFacts
<1>6. PICK e : e = IF at.claims = {} THEN d ELSE Synced(d)
  OBVIOUS
<1>7. dir' = [dir EXCEPT ![n] = e] /\ at' = [at EXCEPT !.pc = "commit"]
  BY <1>1, <1>3, <1>6 DEF SyncParts
<1>8. DirOK(e) /\ e.old = {} /\ e.files = d.files /\ (at.claims # {} => e.fresh = {}) /\ (at.claims = {} => e.fresh = d.fresh)
  <2>1. CASE at.claims = {}
    BY <1>5, <1>6, <2>1
  <2>2. CASE at.claims # {}
    BY <1>5, <1>6, <2>2, ImagesOK DEF Synced, DirOK
  <2> QED
    BY <2>1, <2>2
<1>9. Exact(t, e)
  BY <1>5, <1>8 DEF Exact
<1>10. at.names \cap e.fresh = {}
  <2>1. CASE at.claims # {}
    BY <1>8, <2>1
  <2>2. CASE at.claims = {}
    <3>1. ASSUME NEW s \in at.names PROVE s \notin e.fresh
      <4>1. PICK p \in t.parts : IF p.seq # NoFile THEN s = p.seq ELSE [pid |-> p.pid, seq |-> s] \in at.claims
        BY <1>5 DEF WriteOK
      <4>2. p.seq # NoFile /\ s = p.seq
        BY <2>2, <4>1
      <4> QED
        BY <1>9, <4>2 DEF Exact
    <3> QED
      BY <3>1
  <2> QED
    BY <2>1, <2>2
<1>11. WriteOK(at', e, t)
  BY <1>0, <1>5, <1>7, <1>8, <1>10, WriteRest
<1>12. Writing' /\ at'.n = at.n
  BY <1>5, <1>7 DEF Writing, WriteOK
<1> QED
  BY <1>0, <1>1, <1>2, <1>4, <1>5, <1>7, <1>8, <1>9, <1>11, <1>12, WritingStep

\* TABLE names files that are durable, each identity once.
LEMMA CommitTableStep ==
  ASSUME IInv, CommitTable
  PROVE  IInv'
<1>0. at.pc = "commit" /\ UNCHANGED <<mem, log, cat, catOld, todo>>
  BY DEF CommitTable
<1>1. PICK n : n = at.n
  OBVIOUS
<1>2. PICK t : t = mem[n]
  OBVIOUS
<1>3. PICK d : d = dir[n]
  OBVIOUS
<1>4. Writing
  BY <1>0 DEF Writing
<1>5. n \in Names /\ IsTable(t) /\ TableOK(t) /\ Exact(t, d) /\ DirOK(d) /\ WriteOK(at, d, t) /\ d.old = {}
  BY <1>0, <1>1, <1>2, <1>3, <1>4, WritingFacts
<1>6. PICK rec : rec = TableDoc(t.def, at.names, at.wc)
  OBVIOUS
<1>7. PICK e : e = [d EXCEPT !.table = rec, !.old = IF d.table = rec THEN d.old ELSE d.old \cup {d.table}]
  OBVIOUS
<1>8. PICK pc : pc = IF d.table = rec THEN "claim" ELSE "sync"
  OBVIOUS
<1>9. dir' = [dir EXCEPT ![n] = e] /\ at' = [at EXCEPT !.pc = pc]
  <2>1. dir = [k \in Names |-> dir[k]]
    BY DEF IInv, Shapes
  <2> QED
    BY <1>1, <1>2, <1>3, <1>5, <1>6, <1>7, <1>8, <2>1 DEF CommitTable
<1>10. /\ DOMAIN e = DOMAIN d /\ e.files = d.files /\ e.fresh = d.fresh /\ e.table = rec
       /\ e.old \subseteq {d.table} /\ (e.old # {} => pc = "sync")
  BY <1>5, <1>7, <1>8 DEF DirOK
<1>11. rec.files = at.names /\ rec.wc = at.wc /\ rec.def = t.def
  BY <1>6 DEF TableDoc
<1>12. at.left = {} /\ at.names \cap e.fresh = {} /\ at.names \subseteq Seqs(d)
  BY <1>0, <1>5, <1>10 DEF WriteOK
<1>13. RecordOK(rec, e)
  <2>1. ASSUME NEW f \in d.files, NEW g \in d.files, f.seq \in at.names, g.seq \in at.names, f.pid = g.pid PROVE f = g
    <3>1. ASSUME NEW h \in d.files, h.seq \in at.names
          PROVE  \E p \in t.parts : /\ p.pid = h.pid
                                    /\ IF p.seq # NoFile THEN h.seq = p.seq ELSE [pid |-> p.pid, seq |-> h.seq] \in at.claims
      <4>1. PICK p \in t.parts : IF p.seq # NoFile THEN h.seq = p.seq ELSE [pid |-> p.pid, seq |-> h.seq] \in at.claims
        BY <1>5, <3>1 DEF WriteOK
      <4>2. CASE p.seq # NoFile
        <5>1. PICK k \in d.files : k.seq = p.seq /\ Holds(k, p)
          BY <1>5, <4>2 DEF Exact
        <5>2. k = h
          BY <1>5, <4>1, <4>2, <5>1 DEF DirOK, FilesOK
        <5> QED
          BY <4>1, <5>1, <5>2 DEF Holds
      <4>3. CASE p.seq = NoFile
        <5>1. [pid |-> p.pid, seq |-> h.seq] \in at.claims
          BY <4>1, <4>3
        <5>2. Placed(at, d, p)
          BY <1>5, <1>12 DEF WriteOK
        <5>3. PICK c \in at.claims : c.pid = p.pid /\ \E k \in d.files : k.seq = c.seq /\ Holds(k, p)
          BY <4>3, <5>2 DEF Placed
        <5>4. c = [pid |-> p.pid, seq |-> h.seq]
          <6>1. PICK c0 : c0 = [pid |-> p.pid, seq |-> h.seq]
            OBVIOUS
          <6>2. c0 \in at.claims /\ c0.pid = p.pid
            BY <5>1, <6>1
          <6>3. c = c0
            BY <1>5, <5>3, <6>2 DEF WriteOK
          <6> QED
            BY <6>1, <6>3
        <5>5. PICK k \in d.files : k.seq = h.seq /\ Holds(k, p)
          BY <5>3, <5>4
        <5>6. k = h
          BY <1>5, <5>5 DEF DirOK, FilesOK
        <5> QED
          BY <4>1, <5>5, <5>6 DEF Holds
      <4> QED
        BY <4>2, <4>3
    <3>2. PICK p \in t.parts : /\ p.pid = f.pid
                               /\ IF p.seq # NoFile THEN f.seq = p.seq ELSE [pid |-> p.pid, seq |-> f.seq] \in at.claims
      BY <2>1, <3>1
    <3>3. PICK q \in t.parts : /\ q.pid = g.pid
                               /\ IF q.seq # NoFile THEN g.seq = q.seq ELSE [pid |-> q.pid, seq |-> g.seq] \in at.claims
      BY <2>1, <3>1
    <3>4. p = q
      BY <1>5, <2>1, <3>2, <3>3 DEF TableOK
    <3>5. f.seq = g.seq
      <4>1. CASE p.seq # NoFile
        BY <3>2, <3>3, <3>4, <4>1
      <4>2. CASE p.seq = NoFile
        <5>1. PICK c0 : c0 = [pid |-> p.pid, seq |-> f.seq]
          OBVIOUS
        <5>2. PICK c1 : c1 = [pid |-> p.pid, seq |-> g.seq]
          OBVIOUS
        <5>3. c0 \in at.claims /\ c1 \in at.claims /\ c0.pid = c1.pid /\ c0.seq = f.seq /\ c1.seq = g.seq
          BY <3>2, <3>3, <3>4, <4>2, <5>1, <5>2
        <5>4. c0 = c1
          BY <1>5, <5>3 DEF WriteOK
        <5> QED
          BY <5>3, <5>4
      <4> QED
        BY <4>1, <4>2
    <3> QED
      BY <1>5, <3>5 DEF DirOK, FilesOK
  <2>2. rec.def \in Nat /\ rec.wc \in Nat
    BY <1>5, <1>11 DEF TableOK, WriteOK
  <2>3. Seqs(e) = Seqs(d)
    BY <1>10 DEF Seqs
  <2> QED
    BY <1>10, <1>11, <1>12, <2>1, <2>2, <2>3 DEF RecordOK
<1>14. DirOK(e)
  <2>1. FilesOK(e)
    BY <1>5, <1>10 DEF DirOK, FilesOK
  <2>2. d.table # None => RecordOK(d.table, e)
    BY <1>5, <1>10 DEF DirOK, RecordOK, Seqs
  <2> QED
    BY <1>5, <1>10, <1>13, <2>1, <2>2 DEF DirOK
<1>15. Exact(t, e)
  BY <1>5, <1>10 DEF Exact
<1>16. WriteOK(at', e, t)
  <2>1. e.table.files = at.names
    BY <1>10, <1>11
  <2> QED
    BY <1>5, <1>9, <1>10, <1>12, <2>1, WriteRest
<1>17. Writing' /\ at'.n = at.n /\ at'.pc = pc
  BY <1>5, <1>8, <1>9 DEF Writing, WriteOK
<1> QED
  BY <1>0, <1>1, <1>2, <1>4, <1>5, <1>9, <1>10, <1>14, <1>15, <1>16, <1>17, WritingStep

\* After the fsync only the new TABLE can be found.
LEMMA SyncTableStep ==
  ASSUME IInv, SyncTable
  PROVE  IInv'
<1>0. at.pc = "sync" /\ UNCHANGED <<mem, log, cat, catOld, todo>>
  BY DEF SyncTable
<1>1. PICK n : n = at.n
  OBVIOUS
<1>2. PICK t : t = mem[n]
  OBVIOUS
<1>3. PICK d : d = dir[n]
  OBVIOUS
<1>4. Writing
  BY <1>0 DEF Writing
<1>5. n \in Names /\ TableOK(t) /\ Exact(t, d) /\ DirOK(d) /\ WriteOK(at, d, t)
  BY <1>0, <1>1, <1>2, <1>3, <1>4, WritingFacts
<1>6. PICK e : e = Synced(d)
  OBVIOUS
<1>7. dir' = [dir EXCEPT ![n] = e] /\ at' = [at EXCEPT !.pc = "claim"]
  BY <1>1, <1>3, <1>6 DEF SyncTable
<1>8. DirOK(e) /\ e.old = {} /\ e.files = d.files /\ e.fresh = {} /\ e.table = d.table
  BY <1>5, <1>6, ImagesOK DEF Synced, DirOK
<1>9. Exact(t, e)
  BY <1>5, <1>8 DEF Exact
<1>10. at.left = {} /\ d.table.files = at.names
  BY <1>0, <1>5 DEF WriteOK
<1>11. WriteOK(at', e, t)
  BY <1>5, <1>7, <1>8, <1>10, WriteRest
<1>12. Writing' /\ at'.n = at.n
  BY <1>5, <1>7 DEF Writing, WriteOK
<1> QED
  BY <1>0, <1>1, <1>2, <1>4, <1>5, <1>7, <1>8, <1>9, <1>11, <1>12, WritingStep

\* set_origin: every part of the table gets, or keeps, a file that TABLE names
\* and that holds it.
LEMMA ClaimedOK ==
  ASSUME NEW n, n = at.n, NEW t, TableOK(t), NEW d, Exact(t, d), DirOK(d), WriteOK(at, d, t), at.left = {},
         NEW p \in t.parts
  PROVE  /\ IsPart(Claimed(p)) /\ Claimed(p).pid = p.pid /\ Claimed(p).seq # NoFile
         /\ Claimed(p).seq \in at.names
         /\ \E f \in d.files : f.seq = Claimed(p).seq /\ Holds(f, Claimed(p))
<1>1. Placed(at, d, p) /\ IsPart(p)
  BY DEF WriteOK, TableOK
<1>2. CASE p.seq # NoFile
  <2>1. ASSUME NEW c \in at.claims PROVE c.pid # p.pid
    <3>1. PICK q \in t.parts : q.pid = c.pid /\ q.seq = NoFile
      BY DEF WriteOK
    <3> QED
      BY <1>2, <3>1 DEF TableOK
  <2>2. Claimed(p) = p
    BY <2>1 DEF Claimed
  <2> QED
    BY <1>1, <1>2, <2>2 DEF Placed, Exact
<1>3. CASE p.seq = NoFile
  <2>1. PICK c \in at.claims : c.pid = p.pid /\ \E f \in d.files : f.seq = c.seq /\ Holds(f, p)
    BY <1>1, <1>3 DEF Placed
  <2>2. (CHOOSE b \in at.claims : b.pid = p.pid) = c
    BY <2>1 DEF WriteOK
  <2>3. Claimed(p) = [p EXCEPT !.homed = TRUE, !.seq = c.seq]
    BY <2>1, <2>2 DEF Claimed
  <2>4. PICK f \in d.files : f.seq = c.seq /\ Holds(f, p)
    BY <2>1
  <2>5. c.seq \in at.names
    BY DEF WriteOK
  <2>6. IsFile(f)
    BY DEF DirOK, FilesOK
  <2>7. /\ DOMAIN Claimed(p) = DOMAIN p /\ Claimed(p).pid = p.pid /\ Claimed(p).rows = p.rows
        /\ Claimed(p).dead = p.dead /\ Claimed(p).seq = c.seq
    BY <1>1, <2>3 DEF IsPart
  <2>8. c.seq \in Nat /\ c.seq # NoFile
    BY <2>4, <2>6 DEF IsFile, NoFile
  <2> QED
    BY <1>1, <2>4, <2>5, <2>7, <2>8 DEF IsPart, Holds
<1> QED
  BY <1>2, <1>3

\* The parts claim what was written, and what goes nobody names.
LEMMA FinishTableStep ==
  ASSUME IInv, NoneIsNothing, FinishTable
  PROVE  IInv'
<1>0. at.pc = "claim" /\ at' = NotWriting /\ Proceed /\ UNCHANGED <<log, cat, catOld>>
  BY DEF FinishTable
<1>1. PICK n : n = at.n
  OBVIOUS
<1>2. PICK t : t = mem[n]
  OBVIOUS
<1>3. PICK d : d = dir[n]
  OBVIOUS
<1>4. Writing
  BY <1>0 DEF Writing
<1>5. /\ n \in Names /\ IsTable(t) /\ TableOK(t) /\ Exact(t, d) /\ DirOK(d) /\ WriteOK(at, d, t) /\ d.old = {}
      /\ todo # <<>> /\ todo[1] = [do |-> "table", n |-> n]
  BY <1>0, <1>1, <1>2, <1>3, <1>4, WritingFacts
<1>6. at.left = {} /\ at.names \cap d.fresh = {} /\ d.table.files = at.names
  BY <1>0, <1>5 DEF WriteOK
<1>7. PICK gone \in {{}, at.onDisk \ at.names} :
        dir' = [dir EXCEPT ![n] = [d EXCEPT !.files = {f \in d.files : f.seq \notin gone}]]
  BY <1>1, <1>3 DEF FinishTable
<1>8. PICK e : e = [d EXCEPT !.files = {f \in d.files : f.seq \notin gone}]
  OBVIOUS
<1>9. PICK u : u = [t EXCEPT !.parts = {Claimed(p) : p \in t.parts}]
  OBVIOUS
<1>10. mem' = [mem EXCEPT ![n] = u]
  BY <1>1, <1>2, <1>9 DEF FinishTable
<1>11. /\ DOMAIN e = DOMAIN d /\ e.files = {f \in d.files : f.seq \notin gone} /\ e.fresh = d.fresh /\ e.table = d.table
       /\ e.old = {}
  BY <1>5, <1>8 DEF DirOK
<1>12. \A s \in at.names : s \notin gone
  BY <1>7
<1>13. /\ DOMAIN u = DOMAIN t /\ u.def = t.def /\ u.next = t.next /\ u.bad = t.bad /\ u.parts = {Claimed(p) : p \in t.parts}
       /\ u = [x \in {"def", "bad", "delta", "parts", "next"} |-> u[x]]
  BY <1>5, <1>9 DEF TableOK
<1>14. \A p \in t.parts : /\ IsPart(Claimed(p)) /\ Claimed(p).pid = p.pid /\ Claimed(p).seq # NoFile
                          /\ Claimed(p).seq \in at.names
                          /\ \E f \in d.files : f.seq = Claimed(p).seq /\ Holds(f, Claimed(p))
  BY <1>1, <1>5, <1>6, ClaimedOK
<1>15. DirOK(e)
  <2>1. FilesOK(e)
    BY <1>5, <1>11 DEF DirOK, FilesOK
  <2>2. d.table # None => RecordOK(d.table, e)
    <3>1. at.names \subseteq Seqs(e)
      BY <1>5, <1>11, <1>12 DEF WriteOK, Seqs
    <3> QED
      BY <1>5, <1>6, <1>11, <3>1 DEF DirOK, RecordOK
  <2> QED
    BY <1>5, <1>11, <2>1, <2>2 DEF DirOK
<1>16. TableOK(u)
  <2>1. ASSUME NEW q \in u.parts PROVE IsPart(q) /\ q.pid < u.next
    BY <1>5, <1>13, <1>14 DEF TableOK
  <2>2. ASSUME NEW q \in u.parts, NEW r \in u.parts, q.pid = r.pid PROVE q = r
    <3>1. PICK p1 \in t.parts : q = Claimed(p1)
      BY <1>13
    <3>2. PICK p2 \in t.parts : r = Claimed(p2)
      BY <1>13
    <3>3. p1 = p2
      BY <1>5, <1>14, <2>2, <3>1, <3>2 DEF TableOK
    <3> QED
      BY <3>1, <3>2, <3>3
  <2> QED
    BY <1>5, <1>13, <2>1, <2>2 DEF TableOK, IsTable
<1>17. Exact(u, e) /\ \A q \in u.parts : q.seq # NoFile
  <2>1. ASSUME NEW q \in u.parts
        PROVE  q.seq # NoFile /\ q.seq \notin e.fresh /\ \E f \in e.files : f.seq = q.seq /\ Holds(f, q)
    <3>1. PICK p \in t.parts : q = Claimed(p)
      BY <1>13
    <3>2. PICK f \in d.files : f.seq = q.seq /\ Holds(f, q)
      BY <1>14, <3>1
    <3>3. q.seq \in at.names /\ q.seq # NoFile
      BY <1>14, <3>1
    <3>4. f \in e.files
      BY <1>11, <1>12, <3>2, <3>3
    <3> QED
      BY <1>6, <1>11, <3>2, <3>3, <3>4
  <2> QED
    BY <2>1 DEF Exact
<1>18. u # None /\ ~u.bad
  BY <1>5, <1>13, ShapeIsTable DEF IsTable
<1>19. mem'[n] = u /\ dir'[n] = e /\ \A k \in Names \ {n} : mem'[k] = mem[k] /\ dir'[k] = dir[k]
  BY <1>5, <1>7, <1>8, <1>10 DEF IInv, Shapes
<1>20. TodoInv'
  <2>1. \A k \in Names : IsTable(mem[k]) <=> IsTable(mem'[k])
    BY <1>2, <1>5, <1>18, <1>19 DEF IsTable
  <2>2. Ready(n)'
    BY <1>17, <1>19 DEF Ready
  <2>3. \A k \in Names : Ready(k) => Ready(k)'
    <3>1. ASSUME NEW k \in Names, k # n PROVE Ready(k) => Ready(k)'
      BY <1>19, <3>1 DEF Ready
    <3> QED
      BY <2>2, <3>1
  <2>4. todo[1].do \in Plain /\ \A k \in Names : todo[1] = [do |-> "table", n |-> k] => k = n
    BY <1>5 DEF Plain
  <2> QED
    BY <1>0, <1>5, <2>1, <2>2, <2>3, <2>4, TailTodo DEF IInv, Proceed
<1>21. DirInv'
  <2>1. ASSUME NEW k \in Names PROVE DirOK(dir'[k]) /\ dir'[k].old = {}
    <3>1. CASE k = n
      BY <1>11, <1>15, <1>19, <3>1
    <3>2. CASE k # n
      BY <1>0, <1>19, <3>2 DEF IInv, DirInv
    <3> QED
      BY <3>1, <3>2
  <2> QED
    BY <2>1 DEF DirInv
<1>22. MemInv'
  BY <1>16, <1>17, <1>19 DEF IInv, MemInv
<1>23. WriteInv'
  BY <1>0 DEF WriteInv, Writing, NotWriting
<1>24. Shapes'
  BY <1>0, <1>7, <1>10 DEF IInv, Shapes, NotWriting
<1>25. CatInv'
  <2>1. catOld = {}
    BY <1>0 DEF IInv, CatInv
  <2>2. ASSUME NEW k \in Names, mem'[k] # None, mem'[k].bad
        PROVE  dir'[k].fresh = {} /\ \A r \in Rosters' : r[k] # None
    <3>1. k # n
      BY <1>18, <1>19, <2>2
    <3> QED
      BY <1>0, <1>19, <2>2, <3>1 DEF IInv, CatInv, Rosters
  <2> QED
    BY <1>0, <2>1, <2>2 DEF IInv, CatInv, Rosters
<1> QED
  BY <1>20, <1>21, <1>22, <1>23, <1>24, <1>25 DEF IInv

\* CATALOG lists every name in memory, quarantined ones too.
LEMMA CommitCatalogStep ==
  ASSUME IInv, NoneIsNothing, CommitCatalog
  PROVE  IInv'
<1>0. /\ todo # <<>> /\ todo[1].do = "catalog" /\ at.pc = "none" /\ UNCHANGED <<mem, log, dir>>
  BY DEF CommitCatalog, Idle, Step
<1>1. ~Writing /\ catOld = {} /\ \A n \in Names : dir[n].old = {}
  BY <1>0, Quiet
<1>2. todo[1].do \in Plain /\ \A n \in Names : todo[1] # [do |-> "table", n |-> n]
  <2>1. \A n \in Names : [do |-> "table", n |-> n].do = "table"
    OBVIOUS
  <2> QED
    BY <1>0, <2>1 DEF Plain
<1>3. CASE cat = Roster(mem)
  <2>1. Proceed /\ UNCHANGED <<cat, catOld, at>>
    BY <1>3 DEF CommitCatalog
  <2> QED
    BY <1>0, <1>1, <1>2, <2>1, ProceedOnly
<1>4. CASE cat # Roster(mem)
  <2>1. cat' = Roster(mem) /\ catOld' = {cat} /\ at' = [pc |-> "root"] /\ todo' = todo
    BY <1>1, <1>4 DEF CommitCatalog
  <2>2. Shapes'
    BY <1>0, <2>1 DEF IInv, Shapes
  <2>3. DirInv' /\ MemInv'
    BY <1>0, <1>1 DEF IInv, DirInv, MemInv
  <2>4. WriteInv'
    BY <2>1 DEF WriteInv, Writing
  <2>5. TodoInv'
    BY <1>0, <1>2, <2>1, KeepTodo DEF IInv
  <2>6. CatInv'
    <3>1. ASSUME NEW n \in Names PROVE Roster(mem)[n] \in Nat \cup {None} /\ (mem[n] # None => Roster(mem)[n] # None)
      <4>1. mem[n] # None => mem[n].def \in Nat
        BY DEF IInv, MemInv, TableOK
      <4> QED
        BY <4>1 DEF Roster, NoneIsNothing
    <3>2. Roster(mem) \in [Names -> Nat \cup {None}]
      BY <3>1 DEF Roster
    <3> QED
      BY <1>0, <2>1, <3>1, <3>2 DEF IInv, CatInv, Rosters
  <2> QED
    BY <2>2, <2>3, <2>4, <2>5, <2>6 DEF IInv
<1> QED
  BY <1>3, <1>4

\* After the fsync only the new CATALOG can be found.
LEMMA SyncCatalogStep ==
  ASSUME IInv, SyncCatalog
  PROVE  IInv'
<1>1. at.pc = "root" /\ catOld' = {} /\ at'.pc = "none" /\ Proceed /\ UNCHANGED <<mem, log, dir, cat>>
  BY DEF SyncCatalog, NotWriting
<1>2. todo # <<>> /\ todo[1].do = "catalog"
  BY <1>1 DEF IInv, Shapes
<1>3. todo[1].do \in Plain /\ \A n \in Names : todo[1] # [do |-> "table", n |-> n]
  <2>1. \A n \in Names : [do |-> "table", n |-> n].do = "table"
    OBVIOUS
  <2> QED
    BY <1>2, <2>1 DEF Plain
<1> QED
  BY <1>1, <1>2, <1>3, ProceedOnly

\* An empty directory is sound.
LEMMA NoDirOK == DirOK(NoDir) /\ NoDir.old = {} /\ NoDir.fresh = {}
<1>1. FilesOK(NoDir)
  BY DEF FilesOK, NoDir
<1> QED
  BY <1>1 DEF DirOK, NoDir

\* What is collected belongs to no table in memory.
LEMMA CollectDroppedStep ==
  ASSUME IInv, CollectDropped
  PROVE  IInv'
<1>0. todo # <<>> /\ todo[1].do = "collect" /\ Proceed /\ UNCHANGED <<mem, log, cat, catOld, at>>
  BY DEF CollectDropped, Idle, Step
<1>1. at.pc = "none"
  BY <1>0, HeadSaysQuiet
<1>2. ~Writing /\ catOld = {} /\ \A n \in Names : dir[n].old = {}
  BY <1>1, Quiet
<1>3. PICK gone \in {{}, {n \in Names : mem[n] = None /\ dir[n].table # None}} :
        dir' = [n \in Names |-> IF n \in gone THEN NoDir ELSE dir[n]]
  BY DEF CollectDropped
<1>4. ASSUME NEW n \in Names
      PROVE  dir'[n] = dir[n] \/ (mem[n] = None /\ dir'[n] = NoDir)
  BY <1>3
<1>5. TodoInv'
  <2>1. todo[1].do \in Plain /\ \A n \in Names : todo[1] # [do |-> "table", n |-> n]
    <3>1. \A n \in Names : [do |-> "table", n |-> n].do = "table"
      OBVIOUS
    <3> QED
      BY <1>0, <3>1 DEF Plain
  <2>2. \A n \in Names : (Ready(n) => Ready(n)') /\ (IsTable(mem[n]) <=> IsTable(mem'[n]))
    BY <1>0 DEF Ready
  <2> QED
    BY <1>0, <2>1, <2>2, TailTodo DEF IInv, Proceed
<1>6. DirInv'
  BY <1>2, <1>4, NoDirOK DEF IInv, DirInv
<1>7. MemInv'
  BY <1>0, <1>4 DEF IInv, MemInv
<1>8. WriteInv'
  BY <1>0, <1>1 DEF WriteInv, Writing
<1>9. Shapes'
  BY <1>0, <1>1, <1>3 DEF IInv, Shapes
<1>10. CatInv'
  BY <1>0, <1>4 DEF IInv, CatInv, Rosters
<1> QED
  BY <1>5, <1>6, <1>7, <1>8, <1>9, <1>10 DEF IInv

\* link_table_dir: the directory under the new name holds the table.
LEMMA LinkedOK ==
  ASSUME IInv, NEW a \in Names, NEW b \in Names, IsTable(mem[a]), Ready(a)
  PROVE  /\ DirOK(Linked(a, b)) /\ Linked(a, b).fresh = {} /\ Linked(a, b).old = {}
         /\ Exact(mem[a], Linked(a, b))
         /\ \A p \in mem[a].parts : p.seq \in Seqs(dir[a])
<1>1. PICK t : t = mem[a]
  OBVIOUS
<1>2. PICK d : d = dir[a]
  OBVIOUS
<1>3. TableOK(t) /\ Exact(t, d) /\ DirOK(d) /\ \A p \in t.parts : p.seq # NoFile
  BY <1>1, <1>2 DEF IInv, MemInv, DirInv, IsTable, Ready
<1>4. PICK names : names = {p.seq : p \in t.parts}
  OBVIOUS
<1>5. PICK e : e = Linked(a, b)
  OBVIOUS
<1>6. /\ DOMAIN e = {"files", "table", "fresh", "old"} /\ e.files = {f \in d.files : f.seq \in names}
      /\ e.table = TableDoc(t.def, names, Len(log[b])) /\ e.fresh = {} /\ e.old = {}
  BY <1>1, <1>2, <1>4, <1>5 DEF Linked, NoDir
<1>7. ASSUME NEW p \in t.parts PROVE \E f \in e.files : f.seq = p.seq /\ Holds(f, p) /\ f \in d.files
  <2>1. PICK f \in d.files : f.seq = p.seq /\ Holds(f, p)
    BY <1>3 DEF Exact
  <2> QED
    BY <1>4, <1>6, <2>1
<1>8. FilesOK(e)
  BY <1>3, <1>6 DEF DirOK, FilesOK
<1>9. RecordOK(e.table, e)
  <2>1. e.table.files = names /\ e.table.def \in Nat /\ e.table.wc \in Nat
    <3>1. Len(log[b]) \in Nat
      BY DEF IInv, Shapes, IsSeq
    <3> QED
      BY <1>3, <1>6, <3>1 DEF TableDoc, TableOK
  <2>2. names \subseteq Seqs(e)
    BY <1>4, <1>7 DEF Seqs
  <2>3. ASSUME NEW f \in e.files, NEW g \in e.files, f.pid = g.pid PROVE f = g
    <3>1. PICK p \in t.parts : f.seq = p.seq
      BY <1>4, <1>6
    <3>2. PICK q \in t.parts : g.seq = q.seq
      BY <1>4, <1>6
    <3>3. f.pid = p.pid
      BY <1>7, <1>8, <3>1 DEF FilesOK, Holds
    <3>4. g.pid = q.pid
      BY <1>7, <1>8, <3>2 DEF FilesOK, Holds
    <3>5. p = q
      BY <1>3, <2>3, <3>3, <3>4 DEF TableOK
    <3> QED
      BY <1>8, <3>1, <3>2, <3>5 DEF FilesOK
  <2> QED
    BY <1>6, <2>1, <2>2, <2>3 DEF RecordOK
<1>10. Exact(t, e)
  BY <1>6, <1>7 DEF Exact
<1>11. \A p \in t.parts : p.seq \in Seqs(d)
  BY <1>7 DEF Seqs
<1> QED
  BY <1>1, <1>2, <1>5, <1>6, <1>8, <1>9, <1>10, <1>11 DEF DirOK

\* The steps that follow a RENAME's move are writes.
LEMMA AfterMove ==
  ASSUME TodoInv, NEW k \in DOMAIN todo, todo[k].do = "move"
  PROVE  \A j \in DOMAIN todo : j > k => todo[j].do \in Plain
  BY DEF TodoInv

\* The directory under the new name is whole before memory uses it.
LEMMA LinkStep ==
  ASSUME IInv, Link
  PROVE  IInv'
<1>0. todo # <<>> /\ todo[1].do = "link" /\ Proceed /\ UNCHANGED <<mem, log, cat, catOld, at>>
  BY DEF Link, Idle, Step
<1>1. at.pc = "none"
  BY <1>0, HeadSaysQuiet
<1>2. ~Writing /\ catOld = {} /\ \A n \in Names : dir[n].old = {}
  BY <1>1, Quiet
<1>3. todo \in Seq(Steps) /\ Len(todo) \in Nat /\ Len(todo) > 0 /\ DOMAIN todo = 1..Len(todo) /\ 1 \in DOMAIN todo
  BY <1>0 DEF IInv, TodoInv
<1>4. PICK a \in Names, b \in Names : todo[1].from = a /\ todo[1].to = b
  <2>1. todo[1] \in Steps
    BY <1>3
  <2>2. \A x \in [do : {"table"}, n : Names] \cup [do : {"catalog", "collect"}] : x.do # "link"
    OBVIOUS
  <2>3. todo[1] \in [do : {"link", "move"}, from : Names, to : Names]
    BY <1>0, <2>1, <2>2 DEF Steps
  <2> QED
    BY <2>3
<1>5. /\ 2 \in DOMAIN todo /\ todo[2] = [do |-> "move", from |-> a, to |-> b] /\ a # b
      /\ IsTable(mem[a]) /\ ~IsTable(mem[b]) /\ Ready(a)
  <2>1. 1 + 1 = 2 /\ 1 - 1 = 0 /\ \A j \in 1..0 : FALSE
    OBVIOUS
  <2> QED
    BY <1>0, <1>3, <1>4, <2>1 DEF IInv, TodoInv
<1>6. /\ DirOK(Linked(a, b)) /\ Linked(a, b).fresh = {} /\ Linked(a, b).old = {} /\ Exact(mem[a], Linked(a, b))
      /\ \A p \in mem[a].parts : p.seq \in Seqs(dir[a])
  BY <1>5, LinkedOK
<1>7. dir' = [dir EXCEPT ![b] = Linked(a, b)]
  BY <1>4, <1>6 DEF Link, Step
<1>8. dir' = [n \in Names |-> dir'[n]] /\ \A n \in Names : dir'[n] = IF n = b THEN Linked(a, b) ELSE dir[n]
  BY <1>7 DEF IInv, Shapes
<1>9. /\ todo' \in Seq(Steps) /\ DOMAIN todo' = 1..(Len(todo) - 1)
      /\ \A i \in 1..(Len(todo) - 1) : todo'[i] = todo[i + 1]
  BY <1>0, <1>3 DEF Proceed
<1>10. TodoInv'
  <2>1. \A j \in DOMAIN todo : j > 2 => todo[j].do \in Plain
    BY <1>5, AfterMove DEF IInv
  <2>2. ASSUME NEW i \in DOMAIN todo', i # 1 PROVE todo'[i].do \in Plain
    <3>1. i \in Nat /\ i > 1 /\ i + 1 \in DOMAIN todo /\ i + 1 > 2 /\ todo'[i] = todo[i + 1]
      BY <1>3, <1>9, <2>2
    <3> QED
      BY <2>1, <3>1
  <2>3. 1 \in DOMAIN todo' /\ todo'[1] = todo[2] /\ todo'[1].do = "move" /\ todo'[1].from = a /\ todo'[1].to = b
    BY <1>3, <1>5, <1>9
  <2>4. \A i \in DOMAIN todo' : todo'[i].do # "link" /\ (i # 1 => todo'[i].do # "move")
    BY <2>2, <2>3 DEF Plain
  <2>5. Exact(mem'[a], dir'[b])
    BY <1>0, <1>6, <1>8
  <2>6. todo' # <<>> /\ \A i \in DOMAIN todo' : i > 1 => i # 1
    BY <2>3, <1>9
  <2> QED
    BY <1>0, <1>5, <1>9, <2>2, <2>3, <2>4, <2>5, <2>6 DEF TodoInv
<1>11. DirInv'
  BY <1>2, <1>6, <1>8 DEF IInv, DirInv
<1>12. MemInv'
  <2>1. ASSUME NEW n \in Names, mem'[n] # None PROVE TableOK(mem'[n]) /\ Exact(mem'[n], dir'[n])
    <3>1. mem'[n] = mem[n] /\ TableOK(mem[n]) /\ Exact(mem[n], dir[n])
      BY <1>0, <2>1 DEF IInv, MemInv
    <3>2. CASE n = b
      <4>1. mem[n].parts = {}
        BY <1>5, <3>1, <3>2, <1>0, <2>1 DEF IsTable, TableOK
      <4> QED
        BY <3>1, <4>1 DEF Exact
    <3> QED
      BY <1>8, <3>1, <3>2
  <2> QED
    BY <2>1 DEF MemInv
<1>13. WriteInv'
  BY <1>0, <1>1 DEF WriteInv, Writing
<1>14. Shapes'
  BY <1>0, <1>1, <1>8 DEF IInv, Shapes
<1>15. CatInv'
  BY <1>0, <1>6, <1>8 DEF IInv, CatInv, Rosters
<1> QED
  BY <1>10, <1>11, <1>12, <1>13, <1>14, <1>15 DEF IInv

\* The head of the list is a RENAME's move: its names, and what follows it.
LEMMA AtMove ==
  ASSUME IInv, todo # <<>>, todo[1].do = "move"
  PROVE  \E a, b \in Names :
           /\ todo[1].from = a /\ todo[1].to = b /\ a # b /\ IsTable(mem[a]) /\ Exact(mem[a], dir[b])
           /\ \A n \in Names : todo[1] # [do |-> "table", n |-> n]
           /\ Tail(todo) \in Seq(Steps) /\ \A i \in DOMAIN Tail(todo) : Tail(todo)[i].do \in Plain
<1>1. todo \in Seq(Steps) /\ Len(todo) \in Nat /\ Len(todo) > 0 /\ DOMAIN todo = 1..Len(todo) /\ 1 \in DOMAIN todo
  BY DEF IInv, TodoInv
<1>2. PICK a \in Names, b \in Names : todo[1].from = a /\ todo[1].to = b
  <2>1. todo[1] \in Steps
    BY <1>1
  <2>2. \A x \in [do : {"table"}, n : Names] \cup [do : {"catalog", "collect"}] : x.do # "move"
    OBVIOUS
  <2>3. todo[1] \in [do : {"link", "move"}, from : Names, to : Names]
    BY <2>1, <2>2 DEF Steps
  <2> QED
    BY <2>3
<1>3. a # b /\ IsTable(mem[a]) /\ Exact(mem[a], dir[b])
  BY <1>2 DEF IInv, TodoInv
<1>4. \A j \in DOMAIN todo : j > 1 => todo[j].do \in Plain
  BY <1>1, AfterMove DEF IInv
<1>5. Tail(todo) \in Seq(Steps) /\ DOMAIN Tail(todo) = 1..(Len(todo) - 1) /\ \A i \in 1..(Len(todo) - 1) : Tail(todo)[i] = todo[i + 1]
  BY <1>1
<1>6. ASSUME NEW i \in DOMAIN Tail(todo) PROVE Tail(todo)[i].do \in Plain
  <2>1. i + 1 \in DOMAIN todo /\ i + 1 > 1 /\ Tail(todo)[i] = todo[i + 1]
    BY <1>1, <1>5
  <2> QED
    BY <1>4, <2>1
<1>7. \A n \in Names : [do |-> "table", n |-> n].do = "table"
  OBVIOUS
<1> QED
  BY <1>2, <1>3, <1>5, <1>6, <1>7

\* A step that only changes memory and shortens the list to writes.
LEMMA QuietStep ==
  ASSUME IInv, at.pc = "none", UNCHANGED <<log, dir, cat, catOld, at>>,
         mem' = [n \in Names |-> mem'[n]],
         \A n \in Names : mem'[n] # None =>
           /\ TableOK(mem'[n]) /\ Exact(mem'[n], dir[n])
           /\ mem'[n].bad => mem[n] # None /\ mem[n].bad,
         todo' \in Seq(Steps), \A i \in DOMAIN todo' : todo'[i].do \in Plain
  PROVE  IInv'
<1>1. TodoInv'
  BY PlainTodo
<1>2. DirInv'
  BY DEF IInv, DirInv
<1>3. MemInv'
  BY DEF MemInv
<1>4. WriteInv'
  BY DEF WriteInv, Writing
<1>5. Shapes'
  BY DEF IInv, Shapes
<1>6. CatInv'
  BY DEF IInv, CatInv, Rosters
<1> QED
  BY <1>1, <1>2, <1>3, <1>4, <1>5, <1>6 DEF IInv

\* Catalog::rename: the table under its new name finds its files there.
LEMMA MoveStep ==
  ASSUME IInv, Move
  PROVE  IInv'
<1>0. todo # <<>> /\ todo[1].do = "move" /\ todo' = Tail(todo) /\ UNCHANGED <<log, dir, cat, catOld, at>>
  BY DEF Move, Idle, Step, Proceed, disk
<1>1. at.pc = "none"
  BY <1>0, HeadSaysQuiet
<1>2. PICK a \in Names, b \in Names :
        /\ todo[1].from = a /\ todo[1].to = b /\ a # b /\ IsTable(mem[a]) /\ Exact(mem[a], dir[b])
        /\ Tail(todo) \in Seq(Steps) /\ \A i \in DOMAIN Tail(todo) : Tail(todo)[i].do \in Plain
  BY <1>0, AtMove
<1>3. mem' = [mem EXCEPT ![b] = mem[a], ![a] = None]
  BY <1>2 DEF Move, Step
<1>4. mem' = [n \in Names |-> mem'[n]] /\ \A n \in Names : mem'[n] = IF n = a THEN None ELSE IF n = b THEN mem[a] ELSE mem[n]
  BY <1>2, <1>3 DEF IInv, Shapes
<1>5. ASSUME NEW n \in Names, mem'[n] # None
      PROVE  TableOK(mem'[n]) /\ Exact(mem'[n], dir[n]) /\ (mem'[n].bad => mem[n] # None /\ mem[n].bad)
  <2>1. n # a
    BY <1>4, <1>5
  <2>2. CASE n = b
    <3>1. mem'[n] = mem[a]
      BY <1>4, <2>1, <2>2
    <3> QED
      BY <1>2, <2>2, <3>1 DEF IInv, MemInv, IsTable
  <2>3. CASE n # b
    <3>1. mem'[n] = mem[n]
      BY <1>4, <2>1, <2>3
    <3> QED
      BY <1>5, <3>1 DEF IInv, MemInv
  <2> QED
    BY <2>2, <2>3
<1> QED
  BY <1>0, <1>1, <1>2, <1>4, <1>5, QuietStep

\* A refused RENAME has lost a table and nothing else.
LEMMA MoveRefusedStep ==
  ASSUME IInv, MoveRefused
  PROVE  IInv'
<1>0. todo # <<>> /\ todo[1].do = "move" /\ todo' = <<>> /\ UNCHANGED <<log, dir, cat, catOld, at>>
  BY DEF MoveRefused, Idle, Step, disk
<1>1. at.pc = "none"
  BY <1>0, HeadSaysQuiet
<1>2. PICK a \in Names : todo[1].from = a
  BY <1>0, AtMove
<1>3. mem' = [mem EXCEPT ![a] = None]
  BY <1>2 DEF MoveRefused, Step
<1>4. mem' = [n \in Names |-> mem'[n]] /\ \A n \in Names : mem'[n] = None \/ mem'[n] = mem[n]
  BY <1>2, <1>3 DEF IInv, Shapes
<1>5. \A n \in Names : mem'[n] # None =>
        TableOK(mem'[n]) /\ Exact(mem'[n], dir[n]) /\ (mem'[n].bad => mem[n] # None /\ mem[n].bad)
  BY <1>4 DEF IInv, MemInv
<1>6. <<>> \in Seq(Steps) /\ DOMAIN <<>> = {}
  BY EmptySeq
<1> QED
  BY <1>0, <1>1, <1>4, <1>5, <1>6, QuietStep

\* A checkpoint that gives up leaves files nobody names.
LEMMA CheckpointFailsStep ==
  ASSUME IInv, WrittenBack, CheckpointFails
  PROVE  IInv'
<1>0. todo # <<>> /\ todo' = <<>> /\ at'.pc = "none" /\ at.pc \notin {"sync", "root"} /\ UNCHANGED <<mem, log, dir, cat, catOld>>
  BY DEF CheckpointFails, Idle, NotWriting, WrittenBack
<1>1. catOld = {} /\ \A n \in Names : dir[n].old = {}
  BY <1>0 DEF IInv, CatInv, DirInv
<1>2. <<>> \in Seq(Steps) /\ DOMAIN <<>> = {}
  BY EmptySeq
<1>3. TodoInv'
  BY <1>0, <1>2, PlainTodo
<1>4. DirInv'
  BY <1>0, <1>1 DEF IInv, DirInv
<1>5. MemInv'
  BY <1>0 DEF IInv, MemInv
<1>6. WriteInv'
  BY <1>0 DEF WriteInv, Writing
<1>7. Shapes'
  BY <1>0 DEF IInv, Shapes
<1>8. CatInv'
  BY <1>0, <1>1 DEF IInv, CatInv, Rosters
<1> QED
  BY <1>3, <1>4, <1>5, <1>6, <1>7, <1>8 DEF IInv

\* Opening a sound directory, written back, gives a sound catalog.
LEMMA ReopenStep ==
  ASSUME IInv, NEW roster \in [Names -> Nat \cup {None}], NEW ds, \A n \in Names : DirOK(ds[n]),
         dir' = [n \in Names |-> dir'[n]],
         \A n \in Names : /\ DirOK(dir'[n]) /\ dir'[n].fresh = {} /\ dir'[n].old = {}
                          /\ ds[n].files \subseteq dir'[n].files,
         cat' = roster, catOld' = {}, Reopen(LoadCatalog(roster, ds))
  PROVE  IInv'
<1>1. mem' = LoadCatalog(roster, ds) /\ todo' = <<>> /\ at'.pc = "none" /\ log' = log
  BY DEF Reopen, NotWriting
<1>2. ASSUME NEW n \in Names, mem'[n] # None
      PROVE  roster[n] # None /\ TableOK(mem'[n]) /\ Exact(mem'[n], dir'[n])
  <2>1. roster[n] # None /\ mem'[n] = Load(roster[n], ds[n], log[n])
    BY <1>1, <1>2 DEF LoadCatalog
  <2>2. roster[n] \in Nat /\ DirOK(ds[n]) /\ IsSeq(log[n])
    BY <2>1 DEF IInv, Shapes
  <2>3. PICK t : t = mem'[n]
    OBVIOUS
  <2>4. TableOK(t) /\ \A p \in t.parts : p.seq # NoFile => \E f \in ds[n].files : f.seq = p.seq /\ Holds(f, p)
    BY <2>1, <2>2, <2>3, LoadOK
  <2>5. Exact(t, dir'[n])
    BY <2>4 DEF Exact
  <2> QED
    BY <2>1, <2>3, <2>4, <2>5
<1>3. <<>> \in Seq(Steps) /\ DOMAIN <<>> = {}
  BY EmptySeq
<1>4. TodoInv'
  BY <1>1, <1>3, PlainTodo
<1>5. DirInv'
  BY DEF DirInv
<1>6. MemInv'
  BY <1>2 DEF MemInv
<1>7. WriteInv'
  BY <1>1 DEF WriteInv, Writing
<1>8. Shapes'
  <2>1. mem' = [n \in Names |-> mem'[n]]
    BY <1>1 DEF LoadCatalog
  <2> QED
    BY <1>1, <2>1 DEF IInv, Shapes
<1>9. CatInv'
  BY <1>2 DEF CatInv, Rosters
<1> QED
  BY <1>4, <1>5, <1>6, <1>7, <1>8, <1>9 DEF IInv

\* The process ends: its renames are kept, and the directory is opened.
LEMMA KillStep ==
  ASSUME IInv, WrittenBack, Kill
  PROVE  IInv'
<1>1. /\ Reopen(LoadCatalog(cat, dir)) /\ dir' = [n \in Names |-> Synced(dir[n])] /\ catOld' = {} /\ cat' = cat
  BY DEF Kill, WrittenBack
<1>2. cat \in [Names -> Nat \cup {None}]
  BY DEF IInv, CatInv, Rosters
<1>3. ASSUME NEW n \in Names
      PROVE  /\ DirOK(dir[n]) /\ dir'[n] = Synced(dir[n])
             /\ DirOK(dir'[n]) /\ dir'[n].fresh = {} /\ dir'[n].old = {} /\ dir[n].files \subseteq dir'[n].files
  <2>1. DirOK(dir[n]) /\ dir'[n] = Synced(dir[n])
    BY <1>1 DEF IInv, DirInv
  <2>2. DirOK(dir'[n]) /\ dir'[n].fresh = {} /\ dir'[n].old = {}
    BY <2>1, ImagesOK
  <2>3. dir'[n].files = dir[n].files
    BY <2>1 DEF Synced, DirOK
  <2> QED
    BY <2>1, <2>2, <2>3
<1>4. dir' = [n \in Names |-> dir'[n]]
  BY <1>1
<1> QED
  BY <1>1, <1>2, <1>3, <1>4, ReopenStep

\* The power goes: any renames not yet synced may be undone.
LEMMA PowerLossStep ==
  ASSUME IInv, PowerLoss
  PROVE  IInv'
<1>1. dir' \in AllImages /\ cat' \in Rosters /\ catOld' = {} /\ Reopen(LoadCatalog(cat', dir'))
  BY DEF PowerLoss
<1>2. PICK r, ds : r = cat' /\ ds = dir'
  OBVIOUS
<1>3. r \in [Names -> Nat \cup {None}] /\ Reopen(LoadCatalog(r, ds)) /\ cat' = r
  BY <1>1, <1>2 DEF IInv, CatInv
<1>4. ds = [n \in Names |-> ds[n]] /\ \A n \in Names : ds[n] \in Images(dir[n])
  BY <1>1, <1>2 DEF AllImages
<1>5. ASSUME NEW n \in Names PROVE DirOK(ds[n]) /\ ds[n].fresh = {} /\ ds[n].old = {}
  <2>1. DirOK(dir[n])
    BY DEF IInv, DirInv
  <2> QED
    BY <1>4, <2>1, ImagesOK
<1>6. /\ dir' = [n \in Names |-> dir'[n]]
      /\ \A n \in Names : DirOK(dir'[n]) /\ dir'[n].fresh = {} /\ dir'[n].old = {} /\ ds[n].files \subseteq dir'[n].files
  BY <1>2, <1>4, <1>5
<1> QED
  BY <1>1, <1>3, <1>5, <1>6, ReopenStep

\* A damaged file keeps its number, its identity and its place.
LEMMA RotOK ==
  ASSUME NEW d, DirOK(d), NEW f \in d.files, NEW t, Exact(t, d),
         NEW e, e = [d EXCEPT !.files = (d.files \ {f}) \cup {[f EXCEPT !.ok = FALSE]}]
  PROVE  DirOK(e) /\ e.fresh = d.fresh /\ e.old = d.old /\ Exact(t, e)
<1>1. PICK g : g = [f EXCEPT !.ok = FALSE]
  OBVIOUS
<1>2. IsFile(f)
  BY DEF DirOK, FilesOK
<1>3. IsFile(g) /\ g.seq = f.seq /\ g.pid = f.pid /\ g.rows = f.rows /\ g.dead = f.dead
  BY <1>1, <1>2 DEF IsFile
<1>4. /\ DOMAIN e = {"files", "table", "fresh", "old"} /\ e.files = (d.files \ {f}) \cup {g}
      /\ e.table = d.table /\ e.fresh = d.fresh /\ e.old = d.old
  BY <1>1 DEF DirOK
<1>5. FilesOK(e)
  <2>1. \A h \in e.files : IsFile(h)
    BY <1>3, <1>4 DEF DirOK, FilesOK
  <2>2. ASSUME NEW h \in e.files, NEW k \in e.files, h.seq = k.seq PROVE h = k
    BY <1>3, <1>4, <2>2 DEF DirOK, FilesOK
  <2>3. PICK b \in Nat : \A h \in d.files : h.seq <= b /\ h.pid <= b
    BY DEF DirOK, FilesOK
  <2>4. \A h \in e.files : h.seq <= b /\ h.pid <= b
    BY <1>3, <1>4, <2>3
  <2> QED
    BY <2>1, <2>2, <2>3, <2>4 DEF FilesOK
<1>6. Seqs(e) = Seqs(d)
  <2>1. ASSUME NEW h \in e.files PROVE h.seq \in Seqs(d)
    BY <1>3, <1>4 DEF Seqs
  <2>2. ASSUME NEW h \in d.files PROVE h.seq \in Seqs(e)
    BY <1>3, <1>4 DEF Seqs
  <2> QED
    BY <2>1, <2>2 DEF Seqs
<1>7. ASSUME NEW T \in {d.table} \cup d.old, T # None PROVE RecordOK(T, e)
  <2>1. RecordOK(T, d)
    BY <1>7 DEF DirOK
  <2>2. ASSUME NEW h \in e.files, NEW k \in e.files, h.seq \in T.files, k.seq \in T.files, h.pid = k.pid PROVE h = k
    BY <1>3, <1>4, <2>1, <2>2 DEF RecordOK, DirOK, FilesOK
  <2> QED
    BY <1>4, <1>6, <2>1, <2>2 DEF RecordOK
<1>8. Exact(t, e)
  <2>1. ASSUME NEW p \in t.parts, p.seq # NoFile PROVE \E h \in e.files : h.seq = p.seq /\ Holds(h, p)
    <3>1. PICK h \in d.files : h.seq = p.seq /\ Holds(h, p)
      BY <2>1 DEF Exact
    <3> QED
      BY <1>3, <1>4, <3>1 DEF Holds
  <2> QED
    BY <1>4, <2>1 DEF Exact
<1> QED
  BY <1>4, <1>5, <1>7, <1>8 DEF DirOK

\* Damage at rest does not move a file.
LEMMA RotStep ==
  ASSUME IInv, NEW n \in Names, Rot(n)
  PROVE  IInv'
<1>0. Idle /\ mem[n] # None /\ UNCHANGED <<mem, log, cat, catOld, todo, at>>
  BY DEF Rot
<1>1. at.pc = "none" /\ ~Writing /\ catOld = {} /\ \A m \in Names : dir[m].old = {}
  BY <1>0, IdleState
<1>2. PICK f \in dir[n].files :
        dir' = [dir EXCEPT ![n].files = (@ \ {f}) \cup {[f EXCEPT !.ok = FALSE]}]
  BY DEF Rot
<1>3. PICK d, e : d = dir[n] /\ e = [d EXCEPT !.files = (d.files \ {f}) \cup {[f EXCEPT !.ok = FALSE]}]
  OBVIOUS
<1>4. dir' = [m \in Names |-> dir'[m]] /\ \A m \in Names : dir'[m] = IF m = n THEN e ELSE dir[m]
  BY <1>2, <1>3 DEF IInv, Shapes
<1>5. DirOK(d) /\ Exact(mem[n], d)
  BY <1>0, <1>3 DEF IInv, DirInv, MemInv
<1>6. DirOK(e) /\ e.fresh = d.fresh /\ e.old = d.old /\ Exact(mem[n], e)
  BY <1>2, <1>3, <1>5, RotOK
<1>7. TodoInv'
  <2>1. todo' = <<>> /\ <<>> \in Seq(Steps) /\ DOMAIN <<>> = {}
    BY <1>0, EmptySeq DEF Idle
  <2> QED
    BY <2>1, PlainTodo
<1>8. DirInv'
  BY <1>1, <1>3, <1>4, <1>6 DEF IInv, DirInv
<1>9. MemInv'
  BY <1>0, <1>4, <1>6 DEF IInv, MemInv
<1>10. WriteInv'
  BY <1>0, <1>1 DEF WriteInv, Writing
<1>11. Shapes'
  BY <1>0, <1>1, <1>4 DEF IInv, Shapes
<1>12. CatInv'
  BY <1>0, <1>3, <1>4, <1>6 DEF IInv, CatInv, Rosters
<1> QED
  BY <1>7, <1>8, <1>9, <1>10, <1>11, <1>12 DEF IInv

-----------------------------------------------------------------------------
(* The theorems.                                                            *)

\* Every statement keeps the invariant.
LEMMA StatementInv ==
  ASSUME IInv, NoneIsNothing, Statement
  PROVE  IInv'
<1>1. CASE FlushBuffers
  BY <1>1, FlushBuffersStep
<1>2. CASE CheckpointStmt
  <2>1. Idle /\ Begin(FlushAll(mem), SaveCatalog) /\ MemOK(mem)
    BY <1>2, MemIsOK DEF CheckpointStmt
  <2> QED
    BY <2>1, SaveStep
<1>3. CASE \E n \in Names : Insert(n) \/ MergeParts(n) \/ Fold(n)
  BY <1>3, InsertStep, MergePartsStep, FoldStep
<1>4. CASE \E n \in Names : Create(n) \/ Drop(n) \/ Truncate(n) \/ Alter(n)
  BY <1>4, DdlSteps
<1>5. CASE \E n \in Names : \E S \in SUBSET (1..rows) : Sweep(n, S) \/ DarkSweep(n, S)
  BY <1>5, SweepStep, DarkSweepStep
<1>6. CASE \E n, m \in Names : Rename(n, m)
  BY <1>6, RenameStep
<1> QED
  BY <1>1, <1>2, <1>3, <1>4, <1>5, <1>6 DEF Statement

\* Every step of a checkpoint keeps the invariant.
LEMMA CheckpointStepInv ==
  ASSUME IInv, NoneIsNothing, CheckpointStep
  PROVE  IInv'
  BY StartTableStep, PublishPartStep, SyncPartsStep, CommitTableStep, SyncTableStep, FinishTableStep,
     CommitCatalogStep, SyncCatalogStep, CollectDroppedStep, LinkStep, MoveStep, MoveRefusedStep
     DEF CheckpointStep

\* So does a step of something else.
LEMMA StutterInv ==
  ASSUME IInv, UNCHANGED vars
  PROVE  IInv'
<1>1. UNCHANGED <<mem, log, dir, cat, catOld, todo, at>>
  BY DEF vars
<1>2. Shapes' /\ DirInv' /\ MemInv'
  BY <1>1 DEF IInv, Shapes, DirInv, MemInv
<1>3. WriteInv'
  BY <1>1 DEF IInv, WriteInv, Writing
<1>4. TodoInv'
  BY <1>1 DEF IInv, TodoInv, Ready
<1>5. CatInv'
  BY <1>1 DEF IInv, CatInv, Rosters
<1> QED
  BY <1>2, <1>3, <1>4, <1>5 DEF IInv

\* Every step keeps the invariant.
LEMMA StepInv ==
  ASSUME IInv, NoneIsNothing, WrittenBack, [Next]_vars
  PROVE  IInv'
  BY StatementInv, CheckpointStepInv, KillStep, PowerLossStep, CheckpointFailsStep, RotStep, StutterInv DEF Next

\* The invariant holds along every behaviour in which renames are written
\* back before the process is gone.
THEOREM InductiveInvariant ==
  ASSUME NoneIsNothing, WrittenBack
  PROVE  Spec => []IInv
<1>1. Init => IInv
  BY InitInv
<1>2. IInv /\ [Next]_vars => IInv'
  BY StepInv
<1> QED
  BY <1>1, <1>2, PTL DEF Spec

\* PartSet::origins: whenever write_table names a part's file again instead
\* of writing the part, the file holds that part, its mask included; a number
\* names one file and an identity one part.
THEOREM OriginsAreExact ==
  ASSUME NoneIsNothing, WrittenBack
  PROVE  Spec => []OriginIsExact
<1>1. ASSUME IInv PROVE OriginIsExact
  <2>1. ASSUME NEW n \in Names PROVE \A f, g \in dir[n].files : f.seq = g.seq => f = g
    BY <1>1 DEF IInv, DirInv, DirOK, FilesOK
  <2>2. ASSUME NEW n \in Names, mem[n] # None, NEW p \in mem[n].parts, NEW q \in mem[n].parts
        PROVE  p.pid < mem[n].next /\ (p.pid = q.pid => p = q)
    BY <1>1, <2>2 DEF IInv, MemInv, TableOK
  <2>3. ASSUME NEW n \in Names, mem[n] # None, NEW p \in mem[n].parts, p.seq \in Seqs(dir[n])
        PROVE  LET f == FileOf(dir[n], p.seq) IN f.pid = p.pid /\ f.rows = p.rows /\ f.dead = p.dead
    <3>1. \A f \in dir[n].files : f.seq \in Nat \ {0}
      BY <1>1 DEF IInv, DirInv, DirOK, FilesOK, IsFile
    <3>2. p.seq # NoFile
      BY <2>3, <3>1 DEF Seqs, NoFile
    <3>3. PICK f \in dir[n].files : f.seq = p.seq /\ Holds(f, p)
      BY <1>1, <2>3, <3>2 DEF IInv, MemInv, Exact
    <3>4. FileOf(dir[n], p.seq) = f
      BY <2>1, <3>3 DEF FileOf
    <3> QED
      BY <3>3, <3>4 DEF Holds
  <2> QED
    BY <2>1, <2>2, <2>3 DEF OriginIsExact
<1> QED
  BY <1>1, InductiveInvariant, PTL

\* A directory about whose table nothing is left to write back comes out of a
\* power loss as it was.
LEMMA SettledImage ==
  ASSUME NEW d, DirOK(d), d.fresh = {}, d.old = {}, NEW e \in Images(d) \cup {Synced(d)}
  PROVE  e.files = d.files /\ e.table = d.table
<1>1. CASE e = Synced(d)
  BY <1>1 DEF Synced, DirOK
<1>2. CASE e \in Images(d)
  <2>1. PICK gone \in SUBSET d.fresh, tbl \in {d.table} \cup d.old : e = Image(d, gone, tbl)
    BY <1>2 DEF Images
  <2>2. gone = {} /\ tbl = d.table
    <3>1. gone \subseteq {}
      BY <2>1
    <3> QED
      BY <2>1, <3>1
  <2>3. e.files = {f \in d.files : f.seq \notin gone} /\ e.table = tbl
    BY <2>1 DEF Image, DirOK
  <2> QED
    BY <2>2, <2>3
<1> QED
  BY <1>1, <1>2

\* save_catalog, a restart and every statement but DROP and RENAME leave a
\* quarantined table's directory as it is, and its name in the roster.
THEOREM QuarantineIsKept ==
  ASSUME NoneIsNothing, WrittenBack
  PROVE  Spec => QuarantineKept
<1>1. ASSUME IInv, Next PROVE KeepsQuarantined
  <2> SUFFICES ASSUME NEW n \in Names, mem[n] # None, mem[n].bad, mem'[n] # None, mem'[n].bad,
                      ~Idle => Step.do # "link", ~Rot(n)
               PROVE  /\ dir'[n].files = dir[n].files /\ dir'[n].table = dir[n].table
                      /\ cat[n] # None => cat'[n] # None
    BY DEF KeepsQuarantined
  <2>1. TableOK(mem[n]) /\ ~IsTable(mem[n]) /\ DirOK(dir[n]) /\ dir[n].fresh = {} /\ \A r \in Rosters : r[n] # None
    BY <1>1 DEF IInv, MemInv, DirInv, CatInv, IsTable
  <2>2. Writing => at.n # n /\ at.n \in Names
    BY <1>1, <2>1 DEF IInv, WriteInv
  <2>3. dir[n].old = {}
    BY <1>1, <2>2 DEF IInv, DirInv, Writing
  <2>4. CASE UNCHANGED <<dir, cat>>
    BY <2>4
  <2>5. CASE Statement
    <3>1. ASSUME NEW a \in Names,
                 Insert(a) \/ MergeParts(a) \/ Fold(a) \/ Create(a) \/ Drop(a) \/ Truncate(a) \/ Alter(a)
          PROVE  UNCHANGED <<dir, cat>>
      BY <3>1 DEF Insert, MergeParts, Fold, Create, Drop, Truncate, Alter, Begin, Ack, disk
    <3>2. ASSUME NEW a \in Names, NEW S \in SUBSET (1..rows), Sweep(a, S) \/ DarkSweep(a, S)
          PROVE  UNCHANGED <<dir, cat>>
      BY <3>2 DEF Sweep, DarkSweep, Begin, Ack, disk
    <3>3. ASSUME NEW a \in Names, NEW b \in Names, Rename(a, b)
          PROVE  UNCHANGED <<dir, cat>>
      BY <3>3 DEF Rename, Begin, disk
    <3>4. CASE FlushBuffers \/ CheckpointStmt
      BY <3>4 DEF FlushBuffers, CheckpointStmt, Begin, disk
    <3> QED
      BY <2>4, <2>5, <3>1, <3>2, <3>3, <3>4, Zenon DEF Statement
  <2>6. CASE PublishPart \/ SyncParts \/ CommitTable \/ SyncTable \/ FinishTable
    <3>1. Writing /\ cat' = cat
      BY <2>6 DEF PublishPart, SyncParts, CommitTable, SyncTable, FinishTable, Writing
    <3>2. PICK m \in Names : m = at.n /\ m # n
      BY <2>2, <3>1
    <3>3. dir = [k \in Names |-> dir[k]]
      BY <1>1 DEF IInv, Shapes
    <3>4. dir'[n] = dir[n]
      BY <2>6, <3>2, <3>3 DEF PublishPart, SyncParts, CommitTable, SyncTable, FinishTable
    <3> QED
      BY <3>1, <3>4
  <2>7. CASE CommitCatalog
    <3>1. dir' = dir /\ (cat' = cat \/ cat' = Roster(mem))
      BY <2>7 DEF CommitCatalog
    <3>2. mem[n].def \in Nat
      BY <2>1 DEF TableOK
    <3>3. Roster(mem)[n] # None
      BY <3>2 DEF Roster, NoneIsNothing
    <3> QED
      BY <3>1, <3>3
  <2>8. CASE CollectDropped
    <3>1. PICK gone \in {{}, {k \in Names : mem[k] = None /\ dir[k].table # None}} :
            dir' = [k \in Names |-> IF k \in gone THEN NoDir ELSE dir[k]]
      BY <2>8 DEF CollectDropped
    <3>2. dir'[n] = dir[n]
      BY <3>1
    <3>3. cat' = cat
      BY <2>8 DEF CollectDropped
    <3> QED
      BY <3>2, <3>3
  <2>9. CASE StartTable \/ SyncCatalog \/ Move \/ MoveRefused \/ CheckpointFails
    <3>1. UNCHANGED <<dir, cat>>
      BY <2>9 DEF StartTable, SyncCatalog, Move, MoveRefused, CheckpointFails, disk
    <3> QED
      BY <2>4, <3>1
  <2>10. CASE Link
    BY <2>10 DEF Link
  <2>11. CASE Kill
    <3>1. dir'[n] = Synced(dir[n]) /\ cat' = cat
      BY <2>11 DEF Kill, WrittenBack
    <3> QED
      BY <2>1, <2>3, <3>1, SettledImage
  <2>12. CASE PowerLoss
    <3>1. dir'[n] \in Images(dir[n]) /\ cat' \in Rosters
      BY <2>12 DEF PowerLoss, AllImages
    <3> QED
      BY <2>1, <2>3, <3>1, SettledImage
  <2>13. CASE \E m \in Names : Rot(m)
    <3>1. PICK m \in Names : Rot(m)
      BY <2>13
    <3>2. m # n
      BY <3>1
    <3>3. PICK f \in dir[m].files : dir' = [dir EXCEPT ![m].files = (@ \ {f}) \cup {[f EXCEPT !.ok = FALSE]}]
      BY <3>1 DEF Rot
    <3>4. dir = [k \in Names |-> dir[k]] /\ cat' = cat
      BY <1>1, <3>1 DEF IInv, Shapes, Rot
    <3>5. dir'[n] = dir[n]
      BY <3>2, <3>3, <3>4
    <3> QED
      BY <3>4, <3>5
  <2> QED
    BY <1>1, <2>5, <2>6, <2>7, <2>8, <2>9, <2>10, <2>11, <2>12, <2>13 DEF Next, CheckpointStep
<1>2. IInv /\ [Next]_vars => [KeepsQuarantined]_vars
  BY <1>1
<1> QED
  BY <1>2, InductiveInvariant, PTL DEF Spec, QuarantineKept
=============================================================================
