--------------------------- MODULE RecoveryProofs ---------------------------
(***************************************************************************)
(* Opening a data directory gives what was acknowledged (module            *)
(* Checkpoint), for any names and any bounds, and any faults but a         *)
(* directory fsync that comes late.                                        *)
(*                                                                         *)
(* The invariant is about a table in memory and a TABLE record: Matches    *)
(* says which rows of the one the files and the log of the other account   *)
(* for.  It survives everything that happens between two checkpoints, is   *)
(* made anew by one, and may be broken only for the name the running       *)
(* statement changes, until that name's record is written.                 *)
(***************************************************************************)
EXTENDS CheckpointProofs

\* None is no record of any kind either.
NoneIsNoRecord ==
  /\ \A def, files, wc : None # [def |-> def, files |-> files, wc |-> wc]
  /\ \A def, bad, R : None # [def |-> def, bad |-> bad, rows |-> R]

-----------------------------------------------------------------------------
(* A TABLE record T, the files F it names and the records R after its log   *)
(* position.                                                                *)

Named(d, T) == {f \in d.files : f.seq \in T.files}

\* The positions that the records hide in the part pid.
MaskOf(R, pid) == UNION {r.poss : r \in {q \in R : q.kind = "mask" /\ q.pid = pid}}
Inserted(R) == {r.row : r \in {q \in R : q.kind = "ins"}}
LiveIn(f, R) == {f.rows[i] : i \in DOMAIN f.rows \ (f.dead \cup MaskOf(R, f.pid))}

\* A record resolves: it has the table's definition, and a part to apply to.
Applies(r, def, F) ==
  /\ r.def = def
  /\ r.kind = "mask" => \E f \in F : f.pid = r.pid /\ r.poss \subseteq DOMAIN f.rows

\* What opening the directory makes of them.
Opens(T, F, R) == /\ \A s \in T.files : \E f \in F : f.seq = s /\ f.ok
                  /\ \A r \in R : Applies(r, T.def, F)
Found(T, F, R) ==
  IF Opens(T, F, R)
  THEN [def |-> T.def, bad |-> FALSE, rows |-> Inserted(R) \cup UNION {LiveIn(f, R) : f \in F}]
  ELSE [def |-> T.def, bad |-> TRUE, rows |-> {}]
FoundIn(T, d, l) == Found(T, Named(d, T), Suffix(l, T.wc))

\* The parts of t that came from a file, by identity.
Homed(t, pid) == \E p \in t.parts : p.homed /\ p.pid = pid

\* The table t is what F and R account for: a part from a file is that file
\* and the masks since, and all other rows are, as a set, the rows inserted
\* since and those of the files whose parts t no longer has.
Matches(t, T, F, R) ==
  /\ T.def = t.def
  /\ Opens(T, F, R)
  /\ \A p \in t.parts : p.homed =>
       \E f \in F : f.pid = p.pid /\ f.rows = p.rows /\ p.dead = f.dead \cup MaskOf(R, p.pid)
  /\ Inserted(R) \cup UNION {LiveIn(f, R) : f \in {g \in F : ~Homed(t, g.pid)}}
       = t.delta \cup UNION {Live(p) : p \in {q \in t.parts : ~q.homed}}
MatchesIn(t, T, d, l) == T # None /\ Matches(t, T, Named(d, T), Suffix(l, T.wc))

\* The files that the parts of t claim decode.
Decodes(S, d) == \A s \in S : \E f \in d.files : f.seq = s /\ f.ok
Claims(t) == {p.seq : p \in {q \in t.parts : q.seq # NoFile}}

-----------------------------------------------------------------------------
(* The invariant.                                                           *)

Records(n) == {dir[n].table} \cup dir[n].old

\* Rows are numbers given out so far, wherever they are.
RowsOK(t, k) == /\ t.delta \subseteq 1..k
                /\ \A p \in t.parts : p.rows \in Seq(1..k) /\ p.homed \in BOOLEAN
FileRowsOK(d, k) == \A f \in d.files : f.rows \in Seq(1..k)
LogRowsOK(l, k) == \A i \in DOMAIN l : l[i].kind = "ins" => l[i].row \in 1..k
RowsInv ==
  /\ rows \in Nat
  /\ \A n \in Names : mem[n] # None => RowsOK(mem[n], rows) /\ mem[n].bad \in BOOLEAN
  /\ \A n \in Names : FileRowsOK(dir[n], rows) /\ LogRowsOK(log[n], rows)

\* A record covers no more than there is of the log, and the one that is being
\* written covers all of it.
CoverInv ==
  /\ \A n \in Names : \A T \in Records(n) : T # None => T.wc <= Len(log[n])
  /\ Writing => at.wc = Len(log[at.n])
  /\ at.pc \in {"sync", "claim"} => dir[at.n].table = TableDoc(mem[at.n].def, at.names, at.wc)

\* In the list q the table n is written, or from its place k on the catalog is,
\* before anything that is not a table.
Due(q, n) == \E i \in DOMAIN q : /\ q[i] = [do |-> "table", n |-> n]
                                 /\ \A j \in 1..(i - 1) : q[j].do = "table"
CatalogFrom(q, k) == \E i \in DOMAIN q : /\ i >= k /\ q[i].do = "catalog"
                                         /\ \A j \in k..(i - 1) : q[j].do = "table"

\* What the list q writes has been flushed, and after a RENAME's move comes a
\* checkpoint.
Flushed(q, m) ==
  \A i \in DOMAIN q :
    /\ q[i].do = "table" /\ IsTable(m[q[i].n]) => m[q[i].n].delta = {}
    /\ q[i].do \in {"link", "move"} => m[q[i].from].delta = {}
    /\ q[i].do = "move" => CatalogFrom(q, i + 1)
Moves(q) == \E i \in DOMAIN q : q[i].do \in {"link", "move"}

\* What a statement has said and what it will have done: RENAME has nothing to
\* show for itself before its move.
StmtInv ==
  /\ want = View(mem)
  /\ Idle \/ Moves(todo) => acked = want
  /\ Flushed(todo, mem)

\* A name in memory and its directory.
Stale(n) == acked[n] # want[n] /\ Due(todo, n) /\ ~(at.pc \in {"sync", "claim"} /\ at.n = n)
KeptInv ==
  \A n \in Names \ lost : mem[n] # None =>
    /\ ~mem[n].bad
    /\ Decodes(Claims(mem[n]), dir[n])
    /\ MatchesIn(mem[n], dir[n].table, dir[n], log[n]) \/ Stale(n)
NamesInv == Writing /\ at.n \notin lost => Decodes(at.names, dir[at.n])

\* A name in a roster and its directory.
Gives(r, n) ==
  IF r[n] = None THEN acked[n] = None \/ want[n] = None
  ELSE \A T \in Records(n) : T # None /\ FoundIn(T, dir[n], log[n]) \in {acked[n], want[n]}
GivesInv == \A r \in Rosters : \A n \in Names \ lost : Gives(r, n)

\* Two names change only in a RENAME, and every roster has exactly one of them.
MovedInv ==
  \A a, b \in Names \ lost : a # b /\ acked[a] # want[a] /\ acked[b] # want[b] =>
    /\ (want[a] = None /\ acked[b] = None) \/ (want[b] = None /\ acked[a] = None)
    /\ \A r \in Rosters : r[a] = None <=> r[b] # None

\* The rosters list what is in memory, or the catalog is written before
\* anything is collected.
Listed == \A r \in Rosters : \A n \in Names \ lost : r[n] = None <=> mem[n] = None
ListedInv ==
  /\ Listed \/ CatalogFrom(todo, 1)
  /\ at.pc = "root" => \A n \in Names \ lost : cat[n] = None <=> mem[n] = None

\* Between the two steps of a RENAME the new name's directory is complete.
LinkedInv ==
  todo # <<>> /\ todo[1].do = "move" /\ todo[1].from \notin lost =>
    LET a == todo[1].from
        b == todo[1].to
    IN Decodes(Claims(mem[a]), dir[b]) /\ MatchesIn(mem[a], dir[b].table, dir[b], log[b])

\* Nothing undamaged is acknowledged as quarantined.
SoundInv == \A n \in Names \ lost : acked[n] # None => ~acked[n].bad

JInv == /\ RowsInv /\ CoverInv /\ StmtInv /\ KeptInv /\ NamesInv /\ GivesInv /\ MovedInv
        /\ ListedInv /\ LinkedInv /\ SoundInv

-----------------------------------------------------------------------------
(* Rows in sort order.                                                      *)

\* A finite set of numbers can be listed in ascending order.
LEMMA Ascending ==
  ASSUME NEW S \in SUBSET Nat, IsFiniteSet(S)
  PROVE  \E s \in [1..Cardinality(S) -> S] : \A i, j \in DOMAIN s : i < j => s[i] < s[j]
<1> DEFINE Lists(X) == \E s \in [1..Cardinality(X) -> X] : \A i, j \in DOMAIN s : i < j => s[i] < s[j]
           B == {k \in Nat : \E X \in SUBSET Nat : IsFiniteSet(X) /\ Cardinality(X) = k /\ ~Lists(X)}
<1>1. SUFFICES ASSUME B # {} PROVE FALSE
  <2>1. Cardinality(S) \in Nat
    BY FS_CardinalityType
  <2>2. Lists(S)
    BY <1>1, <2>1
  <2> QED
    BY <2>2
<1>2. PICK k \in B : \A z \in B : ~(<<z, k>> \in OpToRel(<, Nat))
  <2>1. B \subseteq Nat
    OBVIOUS
  <2> HIDE DEF B
  <2> QED
    BY <1>1, <2>1, NatLessThanWellFounded, WFMin
<1>3. \A z \in B : ~(z < k)
  BY <1>2 DEF OpToRel
<1>4. PICK X \in SUBSET Nat : IsFiniteSet(X) /\ Cardinality(X) = k /\ ~Lists(X)
  BY <1>2
<1>5. k \in Nat
  BY <1>2
<1>6. X # {}
  <2>1. SUFFICES ASSUME X = {} PROVE FALSE
    OBVIOUS
  <2>2. k = 0
    BY <1>4, <2>1, FS_EmptySet
  <2>3. [i \in 1..0 |-> 0] \in [1..Cardinality(X) -> X] /\ DOMAIN [i \in 1..0 |-> 0] = {}
    BY <1>4, <2>2
  <2> QED
    BY <1>4, <2>3
<1>7. PICK m \in X : \A x \in X : ~(<<x, m>> \in OpToRel(<, Nat))
  BY <1>6, NatLessThanWellFounded, WFMin
<1>8. \A x \in X \ {m} : m < x
  <2>1. ASSUME NEW x \in X PROVE x \in Nat /\ m \in Nat /\ ~(x < m)
    BY <1>7 DEF OpToRel
  <2> QED
    BY <2>1
<1> DEFINE Y == X \ {m}
<1>9. IsFiniteSet(Y) /\ Cardinality(Y) = k - 1 /\ k - 1 \in Nat
  <2>1. IsFiniteSet(Y) /\ Cardinality(Y) = Cardinality(X) - 1
    BY <1>4, <1>7, FS_RemoveElement
  <2>2. Cardinality(Y) \in Nat
    BY <2>1, FS_CardinalityType
  <2> QED
    BY <1>4, <2>1, <2>2
<1>10. Lists(Y)
  <2>1. k - 1 \notin B
    BY <1>3, <1>5, <1>9
  <2>2. Y \in SUBSET Nat
    OBVIOUS
  <2> QED
    BY <1>9, <2>1, <2>2
<1>11. PICK s \in [1..Cardinality(Y) -> Y] : \A i, j \in DOMAIN s : i < j => s[i] < s[j]
  BY <1>10
<1>12. s \in [1..(k - 1) -> Y] /\ \A i, j \in 1..(k - 1) : i < j => s[i] < s[j]
  <2>1. s \in [1..(k - 1) -> Y]
    BY <1>9, <1>11
  <2>2. DOMAIN s = 1..(k - 1)
    BY <2>1
  <2> QED
    BY <1>11, <2>1, <2>2
<1> HIDE DEF Y
<1> DEFINE t == [i \in 1..k |-> IF i = 1 THEN m ELSE s[i - 1]]
<1>13. ASSUME NEW i \in 1..k, i # 1 PROVE i - 1 \in 1..(k - 1) /\ t[i] = s[i - 1] /\ s[i - 1] \in Y
  <2> HIDE DEF B
  <2>1. i - 1 \in 1..(k - 1)
    BY <1>5, <1>13
  <2>2. s[i - 1] \in Y
    BY <1>12, <2>1
  <2> QED
    BY <1>13, <2>1, <2>2
<1>14. t \in [1..k -> X]
  BY <1>7, <1>13 DEF Y
<1>15. ASSUME NEW i \in 1..k, NEW j \in 1..k, i < j PROVE t[i] < t[j]
  <2>1. j # 1
    BY <1>5, <1>15
  <2>2. CASE i = 1
    <3>1. t[i] = m /\ t[j] \in Y
      BY <1>13, <2>1, <2>2
    <3> QED
      BY <1>8, <3>1 DEF Y
  <2>3. CASE i # 1
    <3>1. i - 1 < j - 1
      BY <1>5, <1>15
    <3> QED
      BY <1>12, <1>13, <2>1, <2>3, <3>1
  <2> QED
    BY <2>2, <2>3
<1>16. Lists(X)
  <2>1. DOMAIN t = 1..k
    OBVIOUS
  <2> HIDE DEF t
  <2> QED
    BY <1>4, <1>14, <1>15, <2>1
<1> QED
  BY <1>4, <1>16

\* Sorted lists a finite set of numbers, all of it.
LEMMA SortedLists ==
  ASSUME NEW S \in SUBSET Nat, IsFiniteSet(S)
  PROVE  /\ Sorted(S) \in Seq(S) /\ {Sorted(S)[i] : i \in DOMAIN Sorted(S)} = S
<1> DEFINE c == Cardinality(S)
           s == Sorted(S)
<1>1. c \in Nat
  BY FS_CardinalityType
<1>2. s \in [1..c -> S] /\ \A i, j \in DOMAIN s : i < j => s[i] < s[j]
  BY Ascending DEF Sorted
<1> HIDE DEF s, c
<1>8. DOMAIN s = 1..c /\ \A i \in 1..c : s[i] \in S
  BY <1>2
<1>3. ASSUME NEW i \in 1..c, NEW j \in 1..c, s[i] = s[j] PROVE i = j
  <2>1. PICK x \in Nat : x = s[i] /\ x = s[j]
    BY <1>3, <1>8
  <2>2. DOMAIN s = 1..c
    BY <1>8
  <2>3. ~(x < x)
    OBVIOUS
  <2>4. ~(i < j) /\ ~(j < i)
    BY <1>2, <2>1, <2>2, <2>3
  <2> QED
    BY <1>1, <2>4
<1>4. s \in Injection(1..c, S)
  BY <1>2, <1>3 DEF Injection, IsInjective
<1>5. IsFiniteSet(1..c) /\ Cardinality(1..c) = c
  BY <1>1, FS_Interval
<1>6. s \in Surjection(1..c, S)
  BY <1>4, <1>5, FS_Injection DEF c
<1>7. \A x \in S : \E i \in 1..c : s[i] = x
  BY <1>6 DEF Surjection
<1>9. s \in Seq(S)
  BY <1>1, <1>2
<1>10. {s[i] : i \in DOMAIN s} = S
  BY <1>7, <1>8
<1> QED
  BY <1>9, <1>10 DEF s

\* A part built in memory has the rows it is built of.
LEMMA BuildHas ==
  ASSUME NEW k \in Nat, NEW S \in SUBSET (1..k), NEW pid
  PROVE  /\ Live(Build(S, pid)) = S /\ Build(S, pid).rows \in Seq(1..k)
         /\ Build(S, pid).homed = FALSE /\ Build(S, pid).seq = NoFile
<1> DEFINE b == Build(S, pid)
<1>1. b.rows = Sorted(S) /\ b.dead = {} /\ b.homed = FALSE /\ b.seq = NoFile
  BY DEF Build
<1> HIDE DEF b
<1>2. Live(b) = {Sorted(S)[i] : i \in DOMAIN Sorted(S)}
  BY <1>1 DEF Live, Positions
<1>3. IsFiniteSet(1..k)
  BY FS_Interval
<1>4. S \in SUBSET Nat /\ IsFiniteSet(S)
  <2>1. 1..k \subseteq Nat
    OBVIOUS
  <2>2. IsFiniteSet(S)
    BY <1>3, FS_Subset
  <2> QED
    BY <2>1, <2>2
<1>5. Sorted(S) \in Seq(S) /\ {Sorted(S)[i] : i \in DOMAIN Sorted(S)} = S
  BY <1>4, SortedLists
<1>6. Sorted(S) \in Seq(1..k)
  <2> DEFINE D == 1..k
             x == Sorted(S)
  <2>1. S \subseteq D /\ x \in Seq(S)
    BY <1>5
  <2> HIDE DEF D, x
  <2>2. x \in Seq(D)
    BY <2>1, SeqMonotonic
  <2> QED
    BY <2>2 DEF D, x
<1> QED
  BY <1>1, <1>2, <1>5, <1>6 DEF b

-----------------------------------------------------------------------------
(* Tables and records.                                                      *)

\* A file and the masks since show the rows of the part that is both.
LEMMA LivesAgree ==
  ASSUME NEW p, NEW f, NEW R, f.pid = p.pid, f.rows = p.rows, p.dead = f.dead \cup MaskOf(R, p.pid)
  PROVE  LiveIn(f, R) = Live(p)
  BY DEF LiveIn, Live, Positions

\* A table that matches its directory is what opening the directory gives.
LEMMA MatchesFound ==
  ASSUME NEW t, NEW T, NEW F, NEW R, Matches(t, T, F, R), \A f, g \in F : f.pid = g.pid => f = g
  PROVE  Found(T, F, R) = [def |-> t.def, bad |-> FALSE, rows |-> TableRows(t)]
<1> DEFINE U == UNION {LiveIn(f, R) : f \in F}
           V == UNION {Live(p) : p \in t.parts}
           L == UNION {LiveIn(f, R) : f \in {g \in F : ~Homed(t, g.pid)}}
           K == UNION {Live(p) : p \in {q \in t.parts : ~q.homed}}
<1>1. Inserted(R) \cup L = t.delta \cup K
  BY DEF Matches
<1>2. ASSUME NEW p \in t.parts, p.homed
      PROVE  \E f \in F : f.pid = p.pid /\ LiveIn(f, R) = Live(p)
  <2>1. PICK f \in F : f.pid = p.pid /\ f.rows = p.rows /\ p.dead = f.dead \cup MaskOf(R, p.pid)
    BY <1>2 DEF Matches
  <2> QED
    BY <2>1, LivesAgree
<1>3. L \subseteq U /\ K \subseteq V
  BY Zenon
<1>4. ASSUME NEW x \in U PROVE x \in L \cup V
  <2>1. PICK f \in F : x \in LiveIn(f, R)
    OBVIOUS
  <2>2. CASE ~Homed(t, f.pid)
    BY <2>1, <2>2
  <2>3. CASE Homed(t, f.pid)
    <3>1. PICK p \in t.parts : p.homed /\ p.pid = f.pid
      BY <2>3 DEF Homed
    <3>2. PICK g \in F : g.pid = p.pid /\ LiveIn(g, R) = Live(p)
      BY <1>2, <3>1
    <3>3. g = f
      BY <3>1, <3>2
    <3> QED
      BY <2>1, <3>2, <3>3
  <2> QED
    BY <2>2, <2>3
<1>5. ASSUME NEW x \in V PROVE x \in K \cup U
  <2>1. PICK p \in t.parts : x \in Live(p)
    OBVIOUS
  <2>2. CASE ~p.homed
    BY <2>1, <2>2
  <2>3. CASE p.homed
    <3>1. PICK f \in F : f.pid = p.pid /\ LiveIn(f, R) = Live(p)
      BY <1>2, <2>3
    <3> QED
      BY <2>1, <3>1
  <2> QED
    BY <2>2, <2>3
<1> HIDE DEF U, V, L, K
<1>6. Inserted(R) \cup U = t.delta \cup V
  BY <1>1, <1>3, <1>4, <1>5
<1> QED
  BY <1>6 DEF Found, Matches, TableRows, U, V

\* A table that gave up some parts from files, and has their rows elsewhere.
LEMMA Regroup ==
  ASSUME NEW t, NEW T, NEW F, NEW R, Matches(t, T, F, R),
         \A f, g \in F : f.pid = g.pid => f = g, \A p, q \in t.parts : p.pid = q.pid => p = q,
         NEW u, u.def = t.def, \A p \in u.parts : p.homed => p \in t.parts,
         u.delta \cup UNION {Live(p) : p \in {q \in u.parts : ~q.homed}}
           = (t.delta \cup (UNION {Live(p) : p \in {q \in t.parts : ~q.homed}}))
               \cup (UNION {Live(p) : p \in {q \in t.parts : q.homed /\ q \notin u.parts}})
  PROVE  Matches(u, T, F, R)
<1> DEFINE L(v) == UNION {LiveIn(f, R) : f \in {g \in F : ~Homed(v, g.pid)}}
           K(v) == UNION {Live(p) : p \in {q \in v.parts : ~q.homed}}
           G == UNION {Live(p) : p \in {q \in t.parts : q.homed /\ q \notin u.parts}}
<1>1. Inserted(R) \cup L(t) = t.delta \cup K(t)
  BY DEF Matches
<1>2. u.delta \cup K(u) = (t.delta \cup K(t)) \cup G
  OBVIOUS
<1>3. ASSUME NEW p \in t.parts, p.homed
      PROVE  \E f \in F : f.pid = p.pid /\ LiveIn(f, R) = Live(p)
  <2>1. PICK f \in F : f.pid = p.pid /\ f.rows = p.rows /\ p.dead = f.dead \cup MaskOf(R, p.pid)
    BY <1>3 DEF Matches
  <2> QED
    BY <2>1, LivesAgree
<1>4. \A pid : Homed(u, pid) => Homed(t, pid)
  BY DEF Homed
<1>5. ASSUME NEW x \in L(u) PROVE x \in L(t) \cup G
  <2>1. PICK f \in F : ~Homed(u, f.pid) /\ x \in LiveIn(f, R)
    OBVIOUS
  <2>2. CASE ~Homed(t, f.pid)
    BY <2>1, <2>2
  <2>3. CASE Homed(t, f.pid)
    <3>1. PICK p \in t.parts : p.homed /\ p.pid = f.pid
      BY <2>3 DEF Homed
    <3>2. p \notin u.parts
      BY <2>1, <3>1 DEF Homed
    <3>3. PICK g \in F : g.pid = p.pid /\ LiveIn(g, R) = Live(p)
      BY <1>3, <3>1
    <3>4. g = f
      BY <3>1, <3>3
    <3> QED
      BY <2>1, <3>1, <3>2, <3>3, <3>4
  <2> QED
    BY <2>2, <2>3
<1>6. ASSUME NEW x \in L(t) PROVE x \in L(u)
  <2>1. PICK f \in F : ~Homed(t, f.pid) /\ x \in LiveIn(f, R)
    OBVIOUS
  <2>2. ~Homed(u, f.pid)
    BY <1>4, <2>1
  <2> QED
    BY <2>1, <2>2
<1>7. ASSUME NEW x \in G PROVE x \in L(u)
  <2>1. PICK p \in t.parts : p.homed /\ p \notin u.parts /\ x \in Live(p)
    OBVIOUS
  <2>2. PICK f \in F : f.pid = p.pid /\ LiveIn(f, R) = Live(p)
    BY <1>3, <2>1
  <2>3. ~Homed(u, f.pid)
    BY <2>1, <2>2 DEF Homed
  <2> QED
    BY <2>1, <2>2, <2>3
<1> HIDE DEF L, K, G
<1>8. Inserted(R) \cup L(u) = u.delta \cup K(u)
  BY <1>1, <1>2, <1>5, <1>6, <1>7
<1>9. \A p \in u.parts : p.homed =>
        \E f \in F : f.pid = p.pid /\ f.rows = p.rows /\ p.dead = f.dead \cup MaskOf(R, p.pid)
  BY DEF Matches
<1>10. Opens(T, F, R) /\ T.def = u.def
  BY DEF Matches
<1> QED
  BY <1>8, <1>9, <1>10 DEF Matches, L, K

\* Table::flush changes no rows, and keeps a match.
LEMMA FlushKeeps ==
  ASSUME NEW t, TableOK(t), NEW k \in Nat, RowsOK(t, k)
  PROVE  /\ Flush(t).def = t.def /\ Flush(t).bad = t.bad /\ Flush(t).delta = {}
         /\ TableRows(Flush(t)) = TableRows(t) /\ RowsOK(Flush(t), k) /\ Claims(Flush(t)) = Claims(t)
         /\ \A T, F, R : Matches(t, T, F, R) /\ (\A f, g \in F : f.pid = g.pid => f = g)
                           => Matches(Flush(t), T, F, R)
<1>1. CASE t.delta = {}
  BY <1>1 DEF Flush
<1>2. CASE t.delta # {}
  <2> DEFINE b == Build(t.delta, t.next)
             u == [t EXCEPT !.delta = {}, !.next = t.next + 1, !.parts = t.parts \cup {b}]
  <2>1. Flush(t) = u
    BY <1>2 DEF Flush
  <2>2. Live(b) = t.delta /\ b.rows \in Seq(1..k) /\ b.homed = FALSE /\ b.seq = NoFile
    <3>1. k \in Nat /\ t.delta \in SUBSET (1..k)
      BY DEF RowsOK
    <3>2. PICK D, x : D = t.delta /\ x = t.next
      OBVIOUS
    <3>3. k \in Nat /\ D \in SUBSET (1..k)
      BY <3>1, <3>2
    <3>4. /\ Live(Build(D, x)) = D /\ Build(D, x).rows \in Seq(1..k)
          /\ Build(D, x).homed = FALSE /\ Build(D, x).seq = NoFile
      BY ONLY <3>3, BuildHas
    <3> QED
      BY ONLY <3>2, <3>4
  <2> HIDE DEF b
  <2>3. u.def = t.def /\ u.bad = t.bad /\ u.delta = {} /\ u.parts = t.parts \cup {b}
    BY DEF TableOK
  <2> HIDE DEF u
  <2>4. TableRows(u) = TableRows(t)
    <3>1. \A x : x \in TableRows(u) <=> \E p \in t.parts \cup {b} : x \in Live(p)
      BY <2>3 DEF TableRows
    <3>2. \A x : x \in TableRows(t) <=> x \in t.delta \/ \E p \in t.parts : x \in Live(p)
      BY DEF TableRows
    <3> QED
      BY <2>2, <3>1, <3>2
  <2>5. RowsOK(u, k)
    BY <2>2, <2>3 DEF RowsOK
  <2>6. Claims(u) = Claims(t)
    BY <2>2, <2>3 DEF Claims
  <2>7. ASSUME NEW T, NEW F, NEW R, Matches(t, T, F, R), \A f, g \in F : f.pid = g.pid => f = g
        PROVE  Matches(u, T, F, R)
    <3> DEFINE A == UNION {Live(p) : p \in {q \in u.parts : ~q.homed}}
               B == UNION {Live(p) : p \in {q \in t.parts : ~q.homed}}
               C == UNION {Live(p) : p \in {q \in t.parts : q.homed /\ q \notin u.parts}}
    <3>1. \A p \in u.parts : p.homed => p \in t.parts
      BY <2>2, <2>3
    <3>2. \A x : x \in A <=> x \in B \/ x \in t.delta
      <4>1. \A x : x \in A <=> \E p \in u.parts : ~p.homed /\ x \in Live(p)
        OBVIOUS
      <4>2. \A x : x \in B <=> \E p \in t.parts : ~p.homed /\ x \in Live(p)
        OBVIOUS
      <4> HIDE DEF A, B
      <4> QED
        BY <2>2, <2>3, <4>1, <4>2
    <3>3. C = {}
      BY <2>3
    <3> HIDE DEF A, B, C
    <3>4. u.delta \cup A = (t.delta \cup B) \cup C
      BY <2>3, <3>2, <3>3
    <3>5. \A p, q \in t.parts : p.pid = q.pid => p = q
      BY DEF TableOK
    <3> QED
      BY <2>3, <2>7, <3>1, <3>4, <3>5, Regroup DEF A, B, C
  <2> QED
    BY <2>1, <2>3, <2>4, <2>5, <2>6, <2>7
<1> QED
  BY <1>1, <1>2

\* A table just written matches the record that names its files.
LEMMA WrittenMatches ==
  ASSUME NEW t, NEW T, NEW F, T.def = t.def, t.delta = {},
         \A s \in T.files : \E f \in F : f.seq = s /\ f.ok,
         \A p \in t.parts : \E f \in F : Holds(f, p), \A f \in F : \E p \in t.parts : Holds(f, p),
         \A p, q \in t.parts : p.pid = q.pid => p = q
  PROVE  Matches(t, T, F, {})
<1> DEFINE L == UNION {LiveIn(f, {}) : f \in {g \in F : ~Homed(t, g.pid)}}
           K == UNION {Live(p) : p \in {q \in t.parts : ~q.homed}}
<1>1. Inserted({}) = {} /\ \A pid : MaskOf({}, pid) = {}
  BY Zenon DEF Inserted, MaskOf
<1>2. \A f \in F, p \in t.parts : Holds(f, p) => LiveIn(f, {}) = Live(p)
  BY <1>1 DEF Holds, LiveIn, Live, Positions
<1>3. ASSUME NEW x \in L PROVE x \in K
  <2>1. PICK f \in F : ~Homed(t, f.pid) /\ x \in LiveIn(f, {})
    OBVIOUS
  <2>2. PICK p \in t.parts : Holds(f, p)
    OBVIOUS
  <2>3. ~p.homed
    BY <2>1, <2>2 DEF Homed, Holds
  <2> QED
    BY <1>2, <2>1, <2>2, <2>3
<1>4. ASSUME NEW x \in K PROVE x \in L
  <2>1. PICK p \in t.parts : ~p.homed /\ x \in Live(p)
    OBVIOUS
  <2>2. PICK f \in F : Holds(f, p)
    OBVIOUS
  <2>3. ~Homed(t, f.pid)
    BY <2>1, <2>2 DEF Homed, Holds
  <2> QED
    BY <1>2, <2>1, <2>2, <2>3
<1> HIDE DEF L, K
<1>5. Inserted({}) \cup L = t.delta \cup K
  BY <1>1, <1>3, <1>4
<1>6. ASSUME NEW p \in t.parts
      PROVE  \E f \in F : f.pid = p.pid /\ f.rows = p.rows /\ p.dead = f.dead \cup MaskOf({}, p.pid)
  BY <1>1 DEF Holds
<1> QED
  BY <1>5, <1>6 DEF Matches, Opens, L, K

\* PartSet::tombstone hides the positions it is given, and changes no rows.
LEMMA TombstoneHides ==
  ASSUME NEW p, IsPart(p), NEW poss
  PROVE  /\ Tombstone(p, poss).pid = p.pid /\ Tombstone(p, poss).rows = p.rows
         /\ Tombstone(p, poss).dead = p.dead \cup poss /\ Tombstone(p, poss).homed = p.homed
         /\ Tombstone(p, poss).seq \in {p.seq, NoFile}
<1>1. CASE poss \subseteq p.dead
  <2>1. p.dead = p.dead \cup poss
    BY <1>1
  <2> QED
    BY <1>1, <2>1 DEF Tombstone
<1>2. CASE ~(poss \subseteq p.dead)
  BY <1>2 DEF Tombstone, IsPart
<1> QED
  BY <1>1, <1>2

\* A DELETE hides the rows it names, in every part.
LEMMA HideHides ==
  ASSUME NEW t, TableOK(t), NEW S
  PROVE  /\ Hide(t, S).def = t.def /\ Hide(t, S).bad = t.bad /\ Hide(t, S).delta = t.delta
         /\ Claims(Hide(t, S)) \subseteq Claims(t) /\ \A k : RowsOK(t, k) => RowsOK(Hide(t, S), k)
         /\ Hide(t, S).parts = {Tombstone(p, Hits(p, S)) : p \in t.parts}
         /\ t.delta = {} /\ S \subseteq TableRows(t) /\ S # {} => TableRows(Hide(t, S)) # TableRows(t)
<1> DEFINE h(p) == Tombstone(p, Hits(p, S))
           u == Hide(t, S)
<1>1. \A p \in t.parts : /\ h(p).pid = p.pid /\ h(p).rows = p.rows /\ h(p).dead = p.dead \cup Hits(p, S)
                         /\ h(p).homed = p.homed /\ h(p).seq \in {p.seq, NoFile}
  BY TombstoneHides DEF TableOK
<1>2. u.parts = {h(p) : p \in t.parts} /\ u.def = t.def /\ u.bad = t.bad /\ u.delta = t.delta
  BY DEF Hide, TableOK
<1> HIDE DEF h, u
<1>3. Claims(u) \subseteq Claims(t)
  <2> SUFFICES ASSUME NEW s \in Claims(u) PROVE s \in Claims(t)
    OBVIOUS
  <2>1. PICK q \in u.parts : q.seq # NoFile /\ s = q.seq
    BY DEF Claims
  <2>2. PICK p \in t.parts : q = h(p)
    BY <1>2, <2>1
  <2>3. p.seq = s /\ p.seq # NoFile
    BY <1>1, <2>1, <2>2
  <2> QED
    BY <2>3 DEF Claims
<1>4. ASSUME NEW k, RowsOK(t, k) PROVE RowsOK(u, k)
  <2> SUFFICES ASSUME NEW q \in u.parts PROVE q.rows \in Seq(1..k) /\ q.homed \in BOOLEAN
    BY <1>2, <1>4 DEF RowsOK
  <2>1. PICK p \in t.parts : q = h(p)
    BY <1>2
  <2> QED
    BY <1>1, <1>4, <2>1, Zenon DEF RowsOK
<1>5. ASSUME t.delta = {}, S \subseteq TableRows(t), S # {} PROVE TableRows(u) # TableRows(t)
  <2>1. PICK x \in S : x \in TableRows(t)
    BY <1>5
  <2>2. ASSUME x \in TableRows(u) PROVE FALSE
    <3>1. PICK q \in u.parts : x \in Live(q)
      BY <1>2, <1>5, <2>2 DEF TableRows
    <3>2. PICK p \in t.parts : q = h(p)
      BY <1>2
    <3>3. PICK i \in Positions(q) \ q.dead : x = q.rows[i]
      BY <3>1 DEF Live
    <3>4. i \in Hits(p, S)
      BY <1>1, <3>2, <3>3 DEF Hits, Positions
    <3> QED
      BY <1>1, <3>2, <3>3, <3>4
  <2> QED
    BY <2>1, <2>2
<1> QED
  BY <1>2, <1>3, <1>4, <1>5 DEF h, u

\* A DELETE whose rows the log names: the records hide, in the files, the
\* positions that the masks hide in memory.
LEMMA SweepMatches ==
  ASSUME NEW t, TableOK(t), NEW T, NEW F, NEW R, Matches(t, T, F, R),
         \A f, g \in F : f.pid = g.pid => f = g, NEW S, t.delta = {}, ~Dark(t, S)
  PROVE  Matches(Hide(t, S), T, F, R \cup MaskRuns(t, S))
<1> DEFINE h(p) == Tombstone(p, Hits(p, S))
           u == Hide(t, S)
           M == MaskRuns(t, S)
           Q == R \cup M
<1>1. \A p \in t.parts : /\ h(p).pid = p.pid /\ h(p).rows = p.rows /\ h(p).dead = p.dead \cup Hits(p, S)
                         /\ h(p).homed = p.homed
  BY TombstoneHides DEF TableOK
<1>2. u.parts = {h(p) : p \in t.parts} /\ u.def = t.def /\ u.delta = t.delta
  BY HideHides
<1>3. \A r \in M : /\ r.kind = "mask" /\ r.def = t.def
                   /\ \E p \in t.parts : p.homed /\ Hits(p, S) # {} /\ r.pid = p.pid /\ r.poss = Hits(p, S)
  BY DEF MaskRuns, Citable
<1>4. \A p \in t.parts : p.homed /\ Hits(p, S) # {} =>
        \E r \in M : r.kind = "mask" /\ r.pid = p.pid /\ r.poss = Hits(p, S)
  <2> TAKE p \in t.parts
  <2> HAVE p.homed /\ Hits(p, S) # {}
  <2> DEFINE r == [kind |-> "mask", def |-> t.def, pid |-> p.pid, poss |-> Hits(p, S)]
  <2>1. r \in M
    BY DEF MaskRuns, Citable
  <2>2. r.kind = "mask" /\ r.pid = p.pid /\ r.poss = Hits(p, S)
    OBVIOUS
  <2> QED
    BY <2>1, <2>2
<1>5. \A p \in t.parts : ~p.homed => Hits(p, S) = {}
  BY DEF Dark, Citable
<1>6. \A p, q \in t.parts : p.pid = q.pid => p = q
  BY DEF TableOK
<1>7. \A pid : Homed(u, pid) <=> Homed(t, pid)
  <2> HIDE DEF h
  <2> QED
    BY <1>1, <1>2 DEF Homed
<1> HIDE DEF h, u, M
<1>8. Inserted(Q) = Inserted(R)
  BY <1>3 DEF Inserted
<1>9. ASSUME NEW p \in t.parts, p.homed PROVE MaskOf(Q, p.pid) = MaskOf(R, p.pid) \cup Hits(p, S)
  <2>1. \A i : i \in MaskOf(Q, p.pid) <=> \E r \in Q : r.kind = "mask" /\ r.pid = p.pid /\ i \in r.poss
    BY DEF MaskOf
  <2>2. \A i : i \in MaskOf(R, p.pid) <=> \E r \in R : r.kind = "mask" /\ r.pid = p.pid /\ i \in r.poss
    BY DEF MaskOf
  <2>3. ASSUME NEW r \in M, r.pid = p.pid PROVE r.poss = Hits(p, S)
    BY <1>3, <1>6, <2>3
  <2>4. ASSUME NEW i \in Hits(p, S) PROVE i \in MaskOf(Q, p.pid)
    <3>1. PICK r \in M : r.kind = "mask" /\ r.pid = p.pid /\ r.poss = Hits(p, S)
      BY <1>4, <1>9, <2>4
    <3> QED
      BY <2>1, <3>1
  <2> HIDE DEF Q
  <2>5. ASSUME NEW i \in MaskOf(Q, p.pid) PROVE i \in MaskOf(R, p.pid) \cup Hits(p, S)
    <3>1. PICK r \in Q : r.kind = "mask" /\ r.pid = p.pid /\ i \in r.poss
      BY <2>1
    <3>2. r \in R \/ r \in M
      BY DEF Q
    <3> QED
      BY <2>2, <2>3, <3>1, <3>2
  <2>6. MaskOf(R, p.pid) \subseteq MaskOf(Q, p.pid)
    <3>1. R \subseteq Q
      BY DEF Q
    <3> QED
      BY <2>1, <2>2, <3>1
  <2> QED
    BY <2>4, <2>5, <2>6
<1>10. ASSUME NEW f \in F, ~Homed(t, f.pid) PROVE LiveIn(f, Q) = LiveIn(f, R)
  <2>1. \A r \in M : r.pid # f.pid
    BY <1>3, <1>10 DEF Homed
  <2>2. MaskOf(Q, f.pid) = MaskOf(R, f.pid)
    <3>1. {q \in Q : q.kind = "mask" /\ q.pid = f.pid} = {q \in R : q.kind = "mask" /\ q.pid = f.pid}
      BY <2>1
    <3> QED
      BY <3>1 DEF MaskOf
  <2> QED
    BY <2>2 DEF LiveIn
<1>11. ASSUME NEW q \in u.parts, q.homed
       PROVE  \E f \in F : f.pid = q.pid /\ f.rows = q.rows /\ q.dead = f.dead \cup MaskOf(Q, q.pid)
  <2>1. PICK p \in t.parts : q = h(p)
    BY <1>2
  <2>2. p.homed
    BY <1>1, <1>11, <2>1
  <2>3. PICK f \in F : f.pid = p.pid /\ f.rows = p.rows /\ p.dead = f.dead \cup MaskOf(R, p.pid)
    BY <2>2 DEF Matches
  <2>4. q.pid = p.pid /\ q.rows = p.rows /\ q.dead = p.dead \cup Hits(p, S)
    BY <1>1, <2>1
  <2>5. MaskOf(Q, p.pid) = MaskOf(R, p.pid) \cup Hits(p, S)
    BY <1>9, <2>2
  <2> QED
    BY <2>3, <2>4, <2>5
<1>12. Opens(T, F, Q)
  <2>1. Opens(T, F, R) /\ T.def = t.def
    BY DEF Matches
  <2>2. ASSUME NEW r \in M PROVE Applies(r, T.def, F)
    <3>1. PICK p \in t.parts : p.homed /\ r.pid = p.pid /\ r.poss = Hits(p, S)
      BY <1>3
    <3>2. PICK f \in F : f.pid = p.pid /\ f.rows = p.rows
      BY <3>1 DEF Matches
    <3>3. r.poss \subseteq DOMAIN f.rows
      BY <3>1, <3>2 DEF Hits, Positions
    <3>4. r.def = T.def
      BY <1>3, <2>1
    <3> QED
      BY <3>1, <3>2, <3>3, <3>4 DEF Applies
  <2> QED
    BY <2>1, <2>2 DEF Opens
<1> DEFINE L(v, X) == UNION {LiveIn(f, X) : f \in {g \in F : ~Homed(v, g.pid)}}
           K(v) == UNION {Live(p) : p \in {q \in v.parts : ~q.homed}}
<1>13. Inserted(R) \cup L(t, R) = t.delta \cup K(t)
  BY DEF Matches
<1>14. L(u, Q) = L(t, R)
  <2>1. {g \in F : ~Homed(u, g.pid)} = {g \in F : ~Homed(t, g.pid)}
    BY <1>7
  <2> HIDE DEF Q
  <2>2. {LiveIn(f, Q) : f \in {g \in F : ~Homed(t, g.pid)}} = {LiveIn(f, R) : f \in {g \in F : ~Homed(t, g.pid)}}
    BY <1>10
  <2> QED
    BY <2>1, <2>2
<1>15. K(u) = K(t)
  <2>1. ASSUME NEW p \in t.parts, ~p.homed PROVE Live(h(p)) = Live(p)
    <3>1. h(p).rows = p.rows /\ h(p).dead = p.dead
      BY <1>1, <1>5, <2>1
    <3> QED
      BY <3>1 DEF Live, Positions
  <2>2. \A x : x \in K(u) <=> \E q \in u.parts : ~q.homed /\ x \in Live(q)
    OBVIOUS
  <2>3. \A x : x \in K(t) <=> \E q \in t.parts : ~q.homed /\ x \in Live(q)
    OBVIOUS
  <2> HIDE DEF K
  <2>4. \A x : x \in K(u) <=> x \in K(t)
    <3>1. ASSUME NEW x \in K(u) PROVE x \in K(t)
      BY <1>1, <1>2, <2>1, <2>2, <2>3
    <3>2. ASSUME NEW x \in K(t) PROVE x \in K(u)
      BY <1>1, <1>2, <2>1, <2>2, <2>3
    <3> QED
      BY <3>1, <3>2
  <2>5. K(u) \subseteq K(t) /\ K(t) \subseteq K(u)
    BY <2>4
  <2> QED
    BY <2>5
<1> HIDE DEF L, K
<1>16. Inserted(Q) \cup L(u, Q) = u.delta \cup K(u)
  BY <1>2, <1>8, <1>13, <1>14, <1>15
<1>17. T.def = u.def
  BY <1>2 DEF Matches
<1> HIDE DEF Q
<1>18. Matches(u, T, F, Q)
  BY <1>11, <1>12, <1>16, <1>17 DEF Matches, L, K
<1> QED
  BY <1>18 DEF u, Q, M

\* Table::merge_parts moves the live rows of some parts into one.
LEMMA MergeMatches ==
  ASSUME NEW t, TableOK(t), NEW ps \in SUBSET t.parts, NEW b, NEW u,
         b.homed = FALSE, Live(b) = UNION {Live(p) : p \in ps}, u.def = t.def, u.delta = t.delta,
         u.parts = (t.parts \ ps) \cup (IF Live(b) = {} THEN {} ELSE {b})
  PROVE  /\ TableRows(u) = TableRows(t)
         /\ \A T, F, R : Matches(t, T, F, R) /\ (\A f, g \in F : f.pid = g.pid => f = g) => Matches(u, T, F, R)
<1>1. \A x : x \in Live(b) <=> \E p \in ps : x \in Live(p)
  <2> DEFINE U == UNION {Live(p) : p \in ps}
  <2>1. \A x : x \in U <=> \E p \in ps : x \in Live(p)
    OBVIOUS
  <2>2. Live(b) = U
    OBVIOUS
  <2> HIDE DEF U
  <2> QED
    BY <2>1, <2>2
<1>2. \A p : p \in u.parts <=> (p \in t.parts /\ p \notin ps) \/ (Live(b) # {} /\ p = b)
  OBVIOUS
<1>3. TableRows(u) = TableRows(t)
  <2>1. \A x : x \in TableRows(u) <=> x \in t.delta \/ \E p \in u.parts : x \in Live(p)
    BY DEF TableRows
  <2>2. \A x : x \in TableRows(t) <=> x \in t.delta \/ \E p \in t.parts : x \in Live(p)
    BY DEF TableRows
  <2>3. ASSUME NEW x, NEW p \in u.parts, x \in Live(p) PROVE \E q \in t.parts : x \in Live(q)
    BY <1>1, <1>2, <2>3
  <2>4. ASSUME NEW x, NEW q \in t.parts, x \in Live(q) PROVE \E p \in u.parts : x \in Live(p)
    <3>1. CASE q \in ps
      <4>1. x \in Live(b)
        BY <1>1, <2>4, <3>1
      <4> QED
        BY <1>2, <4>1
    <3>2. CASE q \notin ps
      BY <1>2, <2>4, <3>2
    <3> QED
      BY <3>1, <3>2
  <2>5. TableRows(u) \subseteq TableRows(t)
    BY <2>1, <2>2, <2>3
  <2>6. TableRows(t) \subseteq TableRows(u)
    BY <2>1, <2>2, <2>4
  <2> QED
    BY <2>5, <2>6
<1>4. ASSUME NEW T, NEW F, NEW R, Matches(t, T, F, R), \A f, g \in F : f.pid = g.pid => f = g
      PROVE  Matches(u, T, F, R)
  <2> DEFINE A == UNION {Live(p) : p \in {q \in u.parts : ~q.homed}}
             B == UNION {Live(p) : p \in {q \in t.parts : ~q.homed}}
             C == UNION {Live(p) : p \in {q \in t.parts : q.homed /\ q \notin u.parts}}
  <2>1. \A x : x \in A <=> \E p \in u.parts : ~p.homed /\ x \in Live(p)
    OBVIOUS
  <2>2. \A x : x \in B <=> \E p \in t.parts : ~p.homed /\ x \in Live(p)
    OBVIOUS
  <2>3. \A x : x \in C <=> \E p \in t.parts : p.homed /\ p \notin u.parts /\ x \in Live(p)
    OBVIOUS
  <2> HIDE DEF A, B, C
  <2>4. ASSUME NEW p \in u.parts, p.homed PROVE p \in t.parts
    BY <1>2, <2>4
  <2>5. ASSUME NEW x \in A PROVE x \in B \cup C
    <3>1. PICK p \in u.parts : ~p.homed /\ x \in Live(p)
      BY <2>1
    <3>2. CASE p \in t.parts
      BY <2>2, <3>1, <3>2
    <3>3. CASE p = b
      <4>1. PICK q \in ps : x \in Live(q)
        BY <1>1, <3>1, <3>3
      <4>2. q \in t.parts /\ (q \in u.parts => q = b)
        BY <1>2
      <4>3. CASE q.homed
        BY <2>3, <4>1, <4>2, <4>3
      <4>4. CASE ~q.homed
        BY <2>2, <4>1, <4>2, <4>4
      <4> QED
        BY <4>3, <4>4
    <3> QED
      BY <1>2, <3>2, <3>3
  <2>6. ASSUME NEW x \in B \cup C PROVE x \in A
    <3>1. PICK q \in t.parts : x \in Live(q) /\ (q.homed => q \notin u.parts)
      BY <2>2, <2>3
    <3>2. CASE q \in u.parts
      BY <2>1, <3>1, <3>2
    <3>3. CASE q \notin u.parts
      <4>1. q \in ps
        BY <1>2, <3>3
      <4>2. x \in Live(b)
        BY <1>1, <3>1, <4>1
      <4>3. b \in u.parts
        BY <1>2, <4>2
      <4> QED
        BY <2>1, <4>2, <4>3
    <3> QED
      BY <3>2, <3>3
  <2>7. u.delta \cup A = (t.delta \cup B) \cup C
    BY <2>5, <2>6
  <2>8. \A p, q \in t.parts : p.pid = q.pid => p = q
    BY DEF TableOK
  <2> QED
    BY <1>4, <2>4, <2>7, <2>8, Regroup DEF A, B, C
<1> QED
  BY <1>3, <1>4

\* A table emptied of nothing matches whatever the full one did.
LEMMA TruncateMatches ==
  ASSUME NEW t, TableOK(t), NEW T, NEW F, NEW R, Matches(t, T, F, R),
         \A f, g \in F : f.pid = g.pid => f = g, TableRows(t) = {},
         NEW u, u.def = t.def, u.delta = {}, u.parts = {}
  PROVE  Matches(u, T, F, R)
<1> DEFINE A == UNION {Live(p) : p \in {q \in u.parts : ~q.homed}}
           B == UNION {Live(p) : p \in {q \in t.parts : ~q.homed}}
           C == UNION {Live(p) : p \in {q \in t.parts : q.homed /\ q \notin u.parts}}
<1>1. A = {}
  OBVIOUS
<1>2. t.delta = {} /\ \A p \in t.parts : Live(p) = {}
  BY DEF TableRows
<1>3. B = {} /\ C = {}
  BY <1>2
<1> HIDE DEF A, B, C
<1>4. u.delta \cup A = (t.delta \cup B) \cup C
  BY <1>1, <1>2, <1>3
<1>5. \A p, q \in t.parts : p.pid = q.pid => p = q
  BY DEF TableOK
<1>6. \A p \in u.parts : p.homed => p \in t.parts
  OBVIOUS
<1> QED
  BY <1>4, <1>5, <1>6, Regroup DEF A, B, C

\* The records after a position of the log, as more are appended.
LEMMA SuffixGrows ==
  ASSUME NEW A, NEW l \in Seq(A), NEW wc \in Nat, wc <= Len(l), NEW s \in Seq(A)
  PROVE  /\ Suffix(l \o s, wc) = Suffix(l, wc) \cup {s[i] : i \in 1..Len(s)}
         /\ wc <= Len(l \o s)
<1>1. PICK a \in Nat : a = Len(l)
  OBVIOUS
<1>2. PICK b \in Nat : b = Len(s)
  OBVIOUS
<1>3. /\ Len(l \o s) = a + b
      /\ \A i \in 1..(a + b) : (l \o s)[i] = IF i <= a THEN l[i] ELSE s[i - a]
  BY <1>1, <1>2, ConcatProperties
<1> DEFINE e(i) == (l \o s)[i]
<1>4. Suffix(l \o s, wc) = {e(i) : i \in (wc + 1)..(a + b)}
  BY <1>3 DEF Suffix
<1>5. Suffix(l, wc) = {l[i] : i \in (wc + 1)..a}
  BY <1>1 DEF Suffix
<1>6. \A i \in (wc + 1)..a : e(i) = l[i] /\ i \in (wc + 1)..(a + b)
  BY <1>1, <1>2, <1>3
<1>7. \A i \in 1..b : e(a + i) = s[i] /\ a + i \in (wc + 1)..(a + b)
  BY <1>1, <1>2, <1>3
<1>8. \A i \in (wc + 1)..(a + b) : i \in (wc + 1)..a \/ (i - a \in 1..b /\ e(i) = s[i - a])
  BY <1>1, <1>2, <1>3
<1> HIDE DEF e
<1>9. {e(i) : i \in (wc + 1)..(a + b)} = {l[i] : i \in (wc + 1)..a} \cup {s[i] : i \in 1..b}
  <2>1. ASSUME NEW x \in {e(i) : i \in (wc + 1)..(a + b)}
        PROVE  x \in {l[i] : i \in (wc + 1)..a} \cup {s[i] : i \in 1..b}
    BY <1>6, <1>8
  <2>2. ASSUME NEW x \in {l[i] : i \in (wc + 1)..a} PROVE x \in {e(i) : i \in (wc + 1)..(a + b)}
    BY <1>6
  <2>3. ASSUME NEW x \in {s[i] : i \in 1..b} PROVE x \in {e(i) : i \in (wc + 1)..(a + b)}
    <3>1. PICK i \in 1..b : x = s[i]
      OBVIOUS
    <3> QED
      BY <1>7, <3>1
  <2> QED
    BY <2>1, <2>2, <2>3
<1>10. wc <= Len(l \o s)
  BY <1>1, <1>2, <1>3
<1> QED
  BY <1>2, <1>4, <1>5, <1>9, <1>10

\* Nothing comes after the last position.
LEMMA SuffixAtEnd ==
  ASSUME NEW l, IsSeq(l)
  PROVE  Suffix(l, Len(l)) = {}
<1>1. PICK k \in Nat : k = Len(l)
  BY DEF IsSeq
<1>2. (k + 1)..k = {}
  OBVIOUS
<1> QED
  BY <1>1, <1>2 DEF Suffix

\* load_catalog, one table: what it shows, and that it matches what it read.
LEMMA LoadFinds ==
  ASSUME NEW def, NEW d, DirOK(d), d.table # None, NEW l, IsSeq(l),
         NEW k \in Nat, FileRowsOK(d, k), LogRowsOK(l, k)
  PROVE  LET T == d.table
             F == Named(d, T)
             R == Suffix(l, T.wc)
             u == Load(def, d, l)
         IN /\ Found(T, F, R) = [def |-> u.def, bad |-> u.bad, rows |-> TableRows(u)]
            /\ RowsOK(u, k) /\ u.bad \in BOOLEAN
            /\ ~u.bad => Matches(u, T, F, R) /\ Decodes(Claims(u), d)
            /\ u.bad => u.delta = {} /\ u.parts = {}
<1> DEFINE T == d.table
           F == Named(d, T)
           R == Suffix(l, T.wc)
           ps == Adopted(d)
           t == Table(T.def, ps, IF ps = {} THEN Seeded(T.wc) ELSE 1 + Max({p.pid : p \in ps}))
           v == Replay(t, R)
           ok == Readable(d) /\ Replayable(t, R)
<1>1. Load(def, d, l) = IF ok THEN v ELSE Quarantined(T.def)
  BY DEF Load
<1>2. ps = {ReadPart(f) : f \in F}
  BY DEF Adopted, Named
<1>3. \A f \in F : /\ ReadPart(f).pid = f.pid /\ ReadPart(f).rows = f.rows /\ ReadPart(f).dead = f.dead
                   /\ ReadPart(f).seq = f.seq /\ ReadPart(f).homed = TRUE /\ IsPart(ReadPart(f))
                   /\ f \in d.files /\ f.seq \in T.files
  BY DEF ReadPart, IsPart, Named, DirOK, FilesOK, IsFile
<1>4. /\ t.parts = ps /\ t.def = T.def /\ t.bad = FALSE /\ t.delta = {}
      /\ DOMAIN t = {"def", "bad", "delta", "parts", "next"}
  BY DEF Table
<1> HIDE DEF ps, t, F, R
<1>5. ok <=> Opens(T, F, R)
  <2>1. Readable(d) <=> \A s \in T.files : \E f \in F : f.seq = s /\ f.ok
    BY DEF Readable, F, Named
  <2>2. ASSUME NEW r PROVE Resolves(t.parts, r) <=> \E f \in F : f.pid = r.pid /\ r.poss \subseteq DOMAIN f.rows
    <3>1. Resolves(t.parts, r) <=> \E p \in ps : p.homed /\ p.pid = r.pid /\ r.poss \subseteq DOMAIN p.rows
      BY <1>4 DEF Resolves, Citable, Positions
    <3>2. ASSUME NEW p \in ps, p.homed /\ p.pid = r.pid /\ r.poss \subseteq DOMAIN p.rows
          PROVE  \E f \in F : f.pid = r.pid /\ r.poss \subseteq DOMAIN f.rows
      BY <1>2, <1>3, <3>2
    <3>3. ASSUME NEW f \in F, f.pid = r.pid /\ r.poss \subseteq DOMAIN f.rows
          PROVE  \E p \in ps : p.homed /\ p.pid = r.pid /\ r.poss \subseteq DOMAIN p.rows
      BY <1>2, <1>3, <3>3
    <3> QED
      BY <3>1, <3>2, <3>3
  <2>3. Replayable(t, R) <=> \A r \in R : Applies(r, T.def, F)
    BY <1>4, <2>2 DEF Replayable, Applies
  <2> QED
    BY <2>1, <2>3 DEF Opens
<1> DEFINE m(f) == Masked(ReadPart(f), R)
<1>6. \A f \in F : /\ m(f).pid = f.pid /\ m(f).rows = f.rows /\ m(f).dead = f.dead \cup MaskOf(R, f.pid)
                   /\ m(f).homed = TRUE /\ m(f).seq \in {f.seq, NoFile}
  <2> TAKE f \in F
  <2> DEFINE p == ReadPart(f)
  <2>1. p.homed = TRUE /\ p.pid = f.pid /\ p.rows = f.rows /\ p.dead = f.dead /\ p.seq = f.seq /\ IsPart(p)
    BY <1>3
  <2> HIDE DEF p
  <2>2. Masked(p, R) = Tombstone(p, MaskOf(R, f.pid))
    <3>1. {q \in R : q.kind = "mask" /\ Citable(p) /\ q.pid = p.pid} = {q \in R : q.kind = "mask" /\ q.pid = f.pid}
      BY <2>1 DEF Citable
    <3> QED
      BY <3>1 DEF Masked, MaskOf
  <2>3. /\ Masked(p, R).pid = p.pid /\ Masked(p, R).rows = p.rows
        /\ Masked(p, R).dead = p.dead \cup MaskOf(R, f.pid) /\ Masked(p, R).homed = p.homed
        /\ Masked(p, R).seq \in {p.seq, NoFile}
    BY <2>1, <2>2, TombstoneHides
  <2>4. Masked(p, R).homed = TRUE
    BY <2>1, <2>3
  <2> QED
    BY <2>1, <2>3, <2>4 DEF p
<1>7. v.parts = {m(f) : f \in F} /\ v.delta = Inserted(R) /\ v.def = T.def /\ v.bad = FALSE
  <2> DEFINE x(p) == Masked(p, R)
  <2>1. v.parts = {x(p) : p \in ps} /\ v.delta = Inserted(R) /\ v.def = T.def /\ v.bad = FALSE
    BY <1>4 DEF Replay, Inserted
  <2> HIDE DEF x
  <2>2. {x(p) : p \in ps} = {x(ReadPart(f)) : f \in F}
    BY <1>2
  <2> QED
    BY <2>1, <2>2 DEF x
<1> HIDE DEF m, v
<1>8. ASSUME NEW f \in F PROVE Live(m(f)) = LiveIn(f, R) /\ m(f) \in v.parts
  <2>1. m(f).pid = f.pid /\ m(f).rows = f.rows /\ m(f).dead = f.dead \cup MaskOf(R, f.pid)
    BY <1>6
  <2>2. m(f).dead = f.dead \cup MaskOf(R, m(f).pid)
    BY <2>1
  <2>3. LiveIn(f, R) = Live(m(f))
    BY <2>1, <2>2, LivesAgree
  <2> QED
    BY <1>7, <2>3
<1>9. RowsOK(v, k)
  <2>1. \A f \in F : m(f).rows \in Seq(1..k)
    BY <1>3, <1>6 DEF FileRowsOK
  <2>2. \A q \in v.parts : q.rows \in Seq(1..k) /\ q.homed \in BOOLEAN
    BY <1>6, <1>7, <2>1
  <2>3. PICK len \in Nat : len = Len(l) /\ DOMAIN l = 1..len
    BY DEF IsSeq
  <2>4. T.wc \in Nat
    BY DEF DirOK, RecordOK
  <2>5. ASSUME NEW r \in R, r.kind = "ins" PROVE r.row \in 1..k
    <3>1. PICK i \in (T.wc + 1)..len : r = l[i]
      BY <2>3 DEF R, Suffix
    <3>2. i \in DOMAIN l
      BY <2>3, <2>4
    <3> QED
      BY <2>5, <3>1, <3>2 DEF LogRowsOK
  <2>6. Inserted(R) \subseteq 1..k
    BY <2>5 DEF Inserted
  <2> QED
    BY <1>7, <2>2, <2>6 DEF RowsOK
<1>10. TableRows(v) = Inserted(R) \cup (UNION {LiveIn(f, R) : f \in F})
  <2>1. {Live(p) : p \in v.parts} = {LiveIn(f, R) : f \in F}
    BY <1>7, <1>8
  <2> QED
    BY <1>7, <2>1 DEF TableRows
<1>11. ASSUME ok PROVE Matches(v, T, F, R)
  <2>1. \A q \in v.parts : \E f \in F : f.pid = q.pid /\ f.rows = q.rows /\ q.dead = f.dead \cup MaskOf(R, q.pid)
    BY <1>6, <1>7
  <2>2. \A f \in F : Homed(v, f.pid)
    BY <1>6, <1>8 DEF Homed
  <2>3. {g \in F : ~Homed(v, g.pid)} = {} /\ {q \in v.parts : ~q.homed} = {}
    BY <1>6, <1>7, <2>2
  <2>4. Opens(T, F, R)
    BY <1>5, <1>11
  <2> QED
    BY <1>7, <2>1, <2>3, <2>4 DEF Matches
<1>12. ASSUME ok PROVE Decodes(Claims(v), d)
  <2>1. ASSUME NEW s \in Claims(v) PROVE \E f \in d.files : f.seq = s /\ f.ok
    <3>1. PICK q \in v.parts : q.seq # NoFile /\ s = q.seq
      BY DEF Claims
    <3>2. PICK f \in F : q = m(f)
      BY <1>7
    <3>3. s = f.seq /\ f.seq \in T.files
      BY <1>3, <1>6, <3>1, <3>2
    <3> QED
      BY <1>12, <3>3 DEF Readable
  <2> QED
    BY <2>1 DEF Decodes
<1> DEFINE w == Quarantined(T.def)
<1>13. /\ w.def = T.def /\ w.bad = TRUE /\ w.delta = {} /\ w.parts = {}
  BY DEF Quarantined, Table
<1> HIDE DEF w
<1>14. TableRows(w) = {} /\ RowsOK(w, k)
  BY <1>13 DEF TableRows, RowsOK
<1>15. CASE ok
  <2>1. Load(def, d, l) = v
    BY <1>1, <1>15
  <2>2. Found(T, F, R) = [def |-> v.def, bad |-> v.bad, rows |-> TableRows(v)]
    BY <1>5, <1>7, <1>10, <1>15 DEF Found
  <2> QED
    BY <1>7, <1>9, <1>11, <1>12, <1>15, <2>1, <2>2 DEF F, R
<1>16. CASE ~ok
  <2>1. Load(def, d, l) = w
    BY <1>1, <1>16 DEF w
  <2>2. Found(T, F, R) = [def |-> w.def, bad |-> w.bad, rows |-> TableRows(w)]
    BY <1>5, <1>13, <1>14, <1>16 DEF Found
  <2> QED
    BY <1>13, <1>14, <2>1, <2>2 DEF F, R
<1> QED
  BY <1>15, <1>16

-----------------------------------------------------------------------------
(* The list of things to do.                                                *)

\* The list without its head.
LEMMA TailIndex ==
  ASSUME NEW q \in Seq(Steps), q # <<>>
  PROVE  /\ Len(q) \in Nat /\ Len(q) > 0 /\ DOMAIN q = 1..Len(q) /\ 1 \in DOMAIN q
         /\ Tail(q) \in Seq(Steps) /\ DOMAIN Tail(q) = 1..(Len(q) - 1) /\ Len(Tail(q)) = Len(q) - 1
         /\ \A i \in 1..(Len(q) - 1) : Tail(q)[i] = q[i + 1]
<1>1. Len(q) \in Nat /\ Len(q) > 0 /\ DOMAIN q = 1..Len(q)
  OBVIOUS
<1>2. Tail(q) \in Seq(Steps) /\ DOMAIN Tail(q) = 1..(Len(q) - 1) /\ Len(Tail(q)) = Len(q) - 1
  BY <1>1
<1>3. \A i \in 1..(Len(q) - 1) : Tail(q)[i] = q[i + 1]
  BY <1>1
<1>4. 1 \in DOMAIN q
  BY <1>1
<1> QED
  BY <1>1, <1>2, <1>3, <1>4

\* What was due and is not the head is due still.
LEMMA DueTail ==
  ASSUME NEW q \in Seq(Steps), q # <<>>, NEW n, Due(q, n), q[1] # [do |-> "table", n |-> n]
  PROVE  Due(Tail(q), n) /\ q[1].do = "table"
<1>1. PICK i \in DOMAIN q : q[i] = [do |-> "table", n |-> n] /\ \A j \in 1..(i - 1) : q[j].do = "table"
  BY DEF Due
<1>2. /\ Len(q) \in Nat /\ DOMAIN q = 1..Len(q) /\ DOMAIN Tail(q) = 1..(Len(q) - 1)
      /\ \A h \in 1..(Len(q) - 1) : Tail(q)[h] = q[h + 1]
  BY TailIndex
<1>3. i # 1 /\ i \in 1..Len(q)
  BY <1>1, <1>2
<1>4. i - 1 \in 1..(Len(q) - 1) /\ 1 \in 1..(i - 1)
  BY <1>2, <1>3
<1>5. Tail(q)[i - 1] = q[i]
  <2>1. Tail(q)[i - 1] = q[(i - 1) + 1] /\ (i - 1) + 1 = i
    BY <1>2, <1>3, <1>4
  <2> QED
    BY <2>1
<1>6. ASSUME NEW j \in 1..((i - 1) - 1) PROVE Tail(q)[j].do = "table"
  <2>1. j \in 1..(Len(q) - 1) /\ j + 1 \in 1..(i - 1)
    BY <1>2, <1>3
  <2> QED
    BY <1>1, <1>2, <2>1
<1>7. Due(Tail(q), n)
  BY <1>1, <1>2, <1>4, <1>5, <1>6 DEF Due
<1> QED
  BY <1>1, <1>4, <1>7

\* The same of the catalog, from any place of the tail.
LEMMA CatalogTail ==
  ASSUME NEW q \in Seq(Steps), q # <<>>
  PROVE  /\ \A k \in Nat \ {0} : CatalogFrom(q, k + 1) => CatalogFrom(Tail(q), k)
         /\ CatalogFrom(q, 1) => q[1].do \in {"table", "catalog"}
         /\ CatalogFrom(q, 1) /\ q[1].do # "catalog" => CatalogFrom(Tail(q), 1)
         /\ CatalogFrom(q, 1) => Len(q) > 1 \/ q[1].do = "catalog"
<1>1. /\ Len(q) \in Nat /\ DOMAIN q = 1..Len(q) /\ DOMAIN Tail(q) = 1..(Len(q) - 1)
      /\ \A h \in 1..(Len(q) - 1) : Tail(q)[h] = q[h + 1]
  BY TailIndex
<1>2. ASSUME NEW k \in Nat \ {0}, CatalogFrom(q, k + 1) PROVE CatalogFrom(Tail(q), k)
  <2>1. PICK i \in DOMAIN q : i >= k + 1 /\ q[i].do = "catalog" /\ \A j \in (k + 1)..(i - 1) : q[j].do = "table"
    BY <1>2 DEF CatalogFrom
  <2>2. i \in 1..Len(q) /\ i - 1 \in 1..(Len(q) - 1) /\ i - 1 >= k
    BY <1>1, <2>1
  <2>3. Tail(q)[i - 1] = q[i]
    <3>1. Tail(q)[i - 1] = q[(i - 1) + 1] /\ (i - 1) + 1 = i
      BY <1>1, <2>2
    <3> QED
      BY <3>1
  <2>4. ASSUME NEW j \in k..((i - 1) - 1) PROVE Tail(q)[j].do = "table"
    <3>1. j \in 1..(Len(q) - 1) /\ j + 1 \in (k + 1)..(i - 1)
      BY <1>1, <2>2
    <3> QED
      BY <1>1, <2>1, <3>1
  <2> QED
    BY <1>1, <2>1, <2>2, <2>3, <2>4 DEF CatalogFrom
<1>3. ASSUME CatalogFrom(q, 1)
      PROVE  /\ q[1].do \in {"table", "catalog"} /\ (q[1].do # "catalog" => CatalogFrom(q, 2))
             /\ Len(q) > 1 \/ q[1].do = "catalog"
  <2>1. PICK i \in DOMAIN q : i >= 1 /\ q[i].do = "catalog" /\ \A j \in 1..(i - 1) : q[j].do = "table"
    BY <1>3 DEF CatalogFrom
  <2>2. CASE i = 1
    BY <2>1, <2>2
  <2>3. CASE i # 1
    <3>1. i >= 2 /\ 1 \in 1..(i - 1) /\ Len(q) > 1 /\ \A j \in 2..(i - 1) : j \in 1..(i - 1)
      BY <1>1, <2>1, <2>3
    <3> QED
      BY <2>1, <3>1 DEF CatalogFrom
  <2> QED
    BY <2>2, <2>3
<1>4. 1 \in Nat \ {0} /\ 1 + 1 = 2
  OBVIOUS
<1> QED
  BY <1>2, <1>3, <1>4

\* A shorter list asks for less.
LEMMA FlushedTail ==
  ASSUME NEW q \in Seq(Steps), q # <<>>, NEW m, Flushed(q, m)
  PROVE  Flushed(Tail(q), m) /\ (Moves(Tail(q)) => Moves(q))
<1>1. /\ Len(q) \in Nat /\ DOMAIN q = 1..Len(q) /\ DOMAIN Tail(q) = 1..(Len(q) - 1)
      /\ \A h \in 1..(Len(q) - 1) : Tail(q)[h] = q[h + 1]
  BY TailIndex
<1>2. ASSUME NEW i \in DOMAIN Tail(q) PROVE i + 1 \in DOMAIN q /\ Tail(q)[i] = q[i + 1] /\ i \in Nat \ {0}
  BY <1>1
<1>3. ASSUME NEW i \in DOMAIN Tail(q), Tail(q)[i].do = "move" PROVE CatalogFrom(Tail(q), i + 1)
  <2>1. CatalogFrom(q, (i + 1) + 1)
    BY <1>2, <1>3 DEF Flushed
  <2>2. i + 1 \in Nat \ {0}
    BY <1>2
  <2> QED
    BY <2>1, <2>2, CatalogTail
<1>4. Flushed(Tail(q), m)
  BY <1>2, <1>3 DEF Flushed
<1>5. Moves(Tail(q)) => Moves(q)
  BY <1>2 DEF Moves
<1> QED
  BY <1>4, <1>5

-----------------------------------------------------------------------------
(* One name: what is in memory, what is in its directory, what is shown.    *)

\* A record that a directory may be opened with names each identity once.
LEMMA NamedOnce ==
  ASSUME NEW d, DirOK(d), NEW T \in {d.table} \cup d.old, T # None
  PROVE  T.wc \in Nat /\ \A f, g \in Named(d, T) : f.pid = g.pid => f = g
  BY DEF DirOK, RecordOK, Named

\* A table that matches its record is what the directory gives for it.
LEMMA MatchGives ==
  ASSUME NEW d, DirOK(d), NEW l, NEW t, t # None, t.bad = FALSE, MatchesIn(t, d.table, d, l)
  PROVE  d.table # None /\ FoundIn(d.table, d, l) = Contents(t)
<1> DEFINE T == d.table
<1>1. T # None /\ Matches(t, T, Named(d, T), Suffix(l, T.wc))
  BY DEF MatchesIn
<1>2. \A f, g \in Named(d, T) : f.pid = g.pid => f = g
  BY <1>1, NamedOnce
<1>3. Found(T, Named(d, T), Suffix(l, T.wc)) = [def |-> t.def, bad |-> FALSE, rows |-> TableRows(t)]
  <2>1. PICK F, R : F = Named(d, T) /\ R = Suffix(l, T.wc)
    OBVIOUS
  <2>2. Matches(t, T, F, R) /\ \A f, g \in F : f.pid = g.pid => f = g
    BY <1>1, <1>2, <2>1
  <2> HIDE DEF T
  <2>3. Found(T, F, R) = [def |-> t.def, bad |-> FALSE, rows |-> TableRows(t)]
    BY ONLY <2>2, MatchesFound
  <2> QED
    BY ONLY <2>1, <2>3
<1> QED
  BY <1>1, <1>3 DEF Contents, FoundIn

\* What a client sees under a name is there when the table is.
LEMMA ContentsSome ==
  ASSUME NoneIsNoRecord, NEW t
  PROVE  /\ Contents(t) = None <=> t = None
         /\ t # None => Contents(t).def = t.def /\ Contents(t).bad = t.bad /\ Contents(t).rows = TableRows(t)
  BY DEF NoneIsNoRecord, Contents

\* Between statements there is one roster and one record each, and they are
\* those of the tables in memory.
LEMMA IdleFacts ==
  ASSUME IInv, JInv, Idle
  PROVE  /\ todo = <<>> /\ at.pc = "none" /\ ~Writing /\ Rosters = {cat} /\ catOld = {} /\ acked = View(mem) /\ want = acked
         /\ \A n \in Names : Records(n) = {dir[n].table} /\ DirOK(dir[n]) /\ dir[n].old = {}
         /\ \A n \in Names \ lost : cat[n] = None <=> mem[n] = None
         /\ \A n \in Names \ lost : mem[n] # None =>
              /\ ~mem[n].bad /\ mem[n].bad \in BOOLEAN /\ Decodes(Claims(mem[n]), dir[n])
              /\ MatchesIn(mem[n], dir[n].table, dir[n], log[n])
              /\ dir[n].table # None /\ FoundIn(dir[n].table, dir[n], log[n]) = Contents(mem[n])
<1>1. todo = <<>> /\ at.pc = "none" /\ ~Writing /\ catOld = {} /\ \A n \in Names : dir[n].old = {}
  BY IdleState DEF Idle
<1>2. acked = View(mem) /\ want = acked
  BY <1>1 DEF JInv, StmtInv, Idle
<1>3. Rosters = {cat} /\ \A n \in Names : Records(n) = {dir[n].table} /\ DirOK(dir[n])
  BY <1>1 DEF Rosters, Records, IInv, DirInv
<1>4. \A n : ~Due(todo, n)
  BY <1>1 DEF Due
<1>5. ~CatalogFrom(todo, 1)
  BY <1>1 DEF CatalogFrom
<1>6. \A n \in Names \ lost : cat[n] = None <=> mem[n] = None
  BY <1>3, <1>5 DEF JInv, ListedInv, Listed
<1>7. \A n \in Names : mem[n] # None => mem[n].bad \in BOOLEAN
  BY DEF JInv, RowsInv
<1>8. \A n \in Names \ lost : mem[n] # None =>
        /\ ~mem[n].bad /\ Decodes(Claims(mem[n]), dir[n]) /\ MatchesIn(mem[n], dir[n].table, dir[n], log[n])
  BY <1>4 DEF JInv, KeptInv, Stale
<1>9. ASSUME NEW n \in Names \ lost, mem[n] # None
      PROVE  dir[n].table # None /\ FoundIn(dir[n].table, dir[n], log[n]) = Contents(mem[n])
  <2>1. mem[n].bad = FALSE /\ DirOK(dir[n]) /\ MatchesIn(mem[n], dir[n].table, dir[n], log[n])
    BY <1>3, <1>7, <1>8, <1>9
  <2> QED
    BY <1>9, <2>1, MatchGives
<1> QED
  BY <1>1, <1>2, <1>3, <1>6, <1>7, <1>8, <1>9

\* A statement that leaves the disk's directories alone and keeps every table
\* and its record matched.
LEMMA IdleSafe ==
  ASSUME NoneIsNoRecord, IInv, JInv, Idle, RowsInv', UNCHANGED <<dir, cat, catOld, todo, at, lost>>,
         want' = View(mem'), acked' = want',
         \A n \in Names : Len(log[n]) \in Nat /\ Len(log'[n]) \in Nat /\ Len(log[n]) <= Len(log'[n]),
         \A n \in Names : mem'[n] = None <=> mem[n] = None,
         \A n \in Names \ lost : mem[n] # None =>
           /\ ~mem'[n].bad /\ Claims(mem'[n]) \subseteq Claims(mem[n])
           /\ MatchesIn(mem'[n], dir[n].table, dir[n], log'[n])
  PROVE  JInv'
<1>1. /\ todo = <<>> /\ at.pc = "none" /\ ~Writing /\ Rosters = {cat} /\ catOld = {}
      /\ \A n \in Names : Records(n) = {dir[n].table} /\ DirOK(dir[n]) /\ dir[n].old = {}
      /\ \A n \in Names \ lost : cat[n] = None <=> mem[n] = None
      /\ \A n \in Names \ lost : mem[n] # None => Decodes(Claims(mem[n]), dir[n])
  BY IdleFacts
<1>2. /\ Rosters' = {cat} /\ todo' = <<>> /\ at'.pc = "none" /\ ~Writing'
      /\ \A n \in Names : Records(n)' = {dir[n].table}
  BY <1>1 DEF Rosters, Records, Writing
<1>3. CoverInv'
  <2>1. ASSUME NEW n \in Names, dir[n].table # None PROVE dir[n].table.wc <= Len(log'[n])
    <3>1. dir[n].table.wc \in Nat
      BY <1>1, <2>1, NamedOnce
    <3>2. dir[n].table.wc <= Len(log[n])
      BY <1>1, <2>1 DEF JInv, CoverInv
    <3> QED
      BY <3>1, <3>2
  <2> QED
    BY <1>2, <2>1 DEF CoverInv
<1>4. StmtInv'
  BY <1>2 DEF StmtInv, Flushed
<1>5. KeptInv'
  <2>1. \A n \in Names \ lost : mem'[n] # None => Decodes(Claims(mem'[n]), dir[n])
    BY <1>1 DEF Decodes
  <2> QED
    BY <2>1 DEF KeptInv
<1>6. NamesInv'
  BY <1>2 DEF NamesInv
<1>7. GivesInv'
  <2>1. SUFFICES ASSUME NEW n \in Names \ lost PROVE Gives(cat, n)'
    BY <1>2 DEF GivesInv
  <2>2. want'[n] = Contents(mem'[n])
    BY DEF View
  <2>3. CASE cat[n] = None
    BY <1>1, <2>2, <2>3, ContentsSome DEF Gives
  <2>4. CASE cat[n] # None
    <3>1. mem'[n] # None /\ mem[n] # None /\ mem'[n].bad \in BOOLEAN
      BY <1>1, <2>4 DEF RowsInv
    <3>2. DirOK(dir[n]) /\ mem'[n].bad = FALSE /\ MatchesIn(mem'[n], dir[n].table, dir[n], log'[n])
      BY <1>1, <3>1
    <3>3. dir[n].table # None /\ FoundIn(dir[n].table, dir[n], log'[n]) = Contents(mem'[n])
      BY <3>1, <3>2, MatchGives
    <3> QED
      BY <1>2, <2>2, <2>4, <3>3 DEF Gives
  <2> QED
    BY <2>3, <2>4
<1>8. MovedInv'
  BY DEF MovedInv
<1>9. ListedInv'
  BY <1>1, <1>2 DEF ListedInv, Listed
<1>10. LinkedInv'
  BY <1>2 DEF LinkedInv
<1>11. SoundInv'
  <2>1. SUFFICES ASSUME NEW n \in Names \ lost, acked'[n] # None PROVE ~acked'[n].bad
    BY DEF SoundInv
  <2>2. acked'[n] = Contents(mem'[n])
    BY DEF View
  <2> QED
    BY <2>1, <2>2, ContentsSome
<1> QED
  BY <1>3, <1>4, <1>5, <1>6, <1>7, <1>8, <1>9, <1>10, <1>11 DEF JInv

\* What is a row stays one as more are given out.
LEMMA RowsGrow ==
  ASSUME NEW k \in Nat, NEW j \in Nat, k <= j
  PROVE  /\ \A t : RowsOK(t, k) => RowsOK(t, j)
         /\ \A d : FileRowsOK(d, k) => FileRowsOK(d, j)
         /\ \A l : LogRowsOK(l, k) => LogRowsOK(l, j)
<1> DEFINE K == 1..k
           J == 1..j
<1>1. K \subseteq J
  OBVIOUS
<1> HIDE DEF K, J
<1>2. \A s : s \in Seq(K) => s \in Seq(J)
  BY <1>1, SeqMonotonic
<1>3. \A t : RowsOK(t, k) => RowsOK(t, j)
  BY <1>1, <1>2 DEF RowsOK, K, J
<1>4. \A d : FileRowsOK(d, k) => FileRowsOK(d, j)
  BY <1>1, <1>2 DEF FileRowsOK, K, J
<1>5. \A l : LogRowsOK(l, k) => LogRowsOK(l, j)
  BY <1>1 DEF LogRowsOK, K, J
<1> QED
  BY <1>3, <1>4, <1>5

\* A log that grows: the records after a position, and its rows.
LEMMA LogGrows ==
  ASSUME NEW l, IsSeq(l), NEW s, IsSeq(s)
  PROVE  /\ Len(l) \in Nat /\ Len(l \o s) \in Nat /\ Len(l) <= Len(l \o s)
         /\ \A wc \in Nat : wc <= Len(l) => Suffix(l \o s, wc) = Suffix(l, wc) \cup {s[i] : i \in 1..Len(s)}
         /\ \A k \in Nat : LogRowsOK(l, k) /\ (\A i \in 1..Len(s) : s[i].kind = "ins" => s[i].row \in 1..k)
              => LogRowsOK(l \o s, k)
<1>1. PICK A : l \in Seq(A)
  BY DEF IsSeq
<1>2. PICK B : s \in Seq(B)
  BY DEF IsSeq
<1> DEFINE C == A \cup B
<1>3. A \subseteq C /\ B \subseteq C
  OBVIOUS
<1> HIDE DEF C
<1>4. l \in Seq(C) /\ s \in Seq(C)
  BY <1>1, <1>2, <1>3, SeqMonotonic
<1>5. /\ Len(l) \in Nat /\ Len(s) \in Nat /\ Len(l \o s) = Len(l) + Len(s)
      /\ DOMAIN l = 1..Len(l) /\ DOMAIN (l \o s) = 1..(Len(l) + Len(s))
      /\ \A i \in 1..(Len(l) + Len(s)) : (l \o s)[i] = IF i <= Len(l) THEN l[i] ELSE s[i - Len(l)]
  BY <1>4
<1>6. \A wc \in Nat : wc <= Len(l) => Suffix(l \o s, wc) = Suffix(l, wc) \cup {s[i] : i \in 1..Len(s)}
  BY <1>4, SuffixGrows
<1>7. ASSUME NEW k \in Nat, LogRowsOK(l, k), \A i \in 1..Len(s) : s[i].kind = "ins" => s[i].row \in 1..k
      PROVE  LogRowsOK(l \o s, k)
  <2>1. SUFFICES ASSUME NEW i \in 1..(Len(l) + Len(s)), (l \o s)[i].kind = "ins" PROVE (l \o s)[i].row \in 1..k
    BY <1>5 DEF LogRowsOK
  <2>2. CASE i <= Len(l)
    <3>1. i \in DOMAIN l /\ (l \o s)[i] = l[i]
      BY <1>5, <2>2
    <3> QED
      BY <1>7, <2>1, <3>1 DEF LogRowsOK
  <2>3. CASE ~(i <= Len(l))
    <3>1. i - Len(l) \in 1..Len(s) /\ (l \o s)[i] = s[i - Len(l)]
      BY <1>5, <2>3
    <3> QED
      BY <1>7, <2>1, <3>1
  <2> QED
    BY <2>2, <2>3
<1> QED
  BY <1>5, <1>6, <1>7

\* A row that a record of the log inserts, and the table has.
LEMMA InsertMatches ==
  ASSUME NEW t, NEW T, NEW F, NEW R, Matches(t, T, F, R), NEW row, NEW r, r.kind = "ins", r.def = t.def, r.row = row,
         NEW u, u.def = t.def, u.parts = t.parts, u.delta = t.delta \cup {row}
  PROVE  Matches(u, T, F, R \cup {r})
<1> DEFINE Q == R \cup {r}
<1>1. \A pid : MaskOf(Q, pid) = MaskOf(R, pid)
  <2>1. \A pid : {q \in Q : q.kind = "mask" /\ q.pid = pid} = {q \in R : q.kind = "mask" /\ q.pid = pid}
    OBVIOUS
  <2> QED
    BY <2>1 DEF MaskOf
<1>2. Inserted(Q) = Inserted(R) \cup {row}
  BY DEF Inserted
<1>3. \A f : LiveIn(f, Q) = LiveIn(f, R)
  BY <1>1 DEF LiveIn
<1>4. \A pid : Homed(u, pid) <=> Homed(t, pid)
  BY DEF Homed
<1>5. Opens(T, F, Q)
  <2>1. Applies(r, T.def, F)
    BY DEF Applies, Matches
  <2>2. T.def = t.def /\ Opens(T, F, R)
    BY DEF Matches
  <2> QED
    BY <2>1, <2>2 DEF Opens
<1> DEFINE L(v, X) == UNION {LiveIn(f, X) : f \in {g \in F : ~Homed(v, g.pid)}}
           K == UNION {Live(p) : p \in {q \in t.parts : ~q.homed}}
<1>6. L(u, Q) = L(t, R)
  BY <1>3, <1>4
<1>7. Inserted(R) \cup L(t, R) = t.delta \cup K
  BY DEF Matches
<1>8. Inserted(Q) \cup L(u, Q) = u.delta \cup UNION {Live(p) : p \in {q \in u.parts : ~q.homed}}
  <2>1. K = UNION {Live(p) : p \in {q \in u.parts : ~q.homed}}
    OBVIOUS
  <2> HIDE DEF L, K
  <2> QED
    BY <1>2, <1>6, <1>7, <2>1
<1>9. \A p \in u.parts : p.homed =>
        \E f \in F : f.pid = p.pid /\ f.rows = p.rows /\ p.dead = f.dead \cup MaskOf(Q, p.pid)
  <2> HIDE DEF Q
  <2> QED
    BY <1>1 DEF Matches
<1> HIDE DEF Q
<1> QED
  BY <1>5, <1>8, <1>9 DEF Matches, Q

\* The same for a statement about one table.
LEMMA OneTableSafe ==
  ASSUME NoneIsNoRecord, IInv, JInv, Idle, NEW n \in Names, mem[n] # None, UNCHANGED <<dir, cat, catOld, todo, at, lost>>,
         want' = View(mem'), acked' = want', rows' \in Nat, rows <= rows',
         NEW u, NEW l, mem' = [mem EXCEPT ![n] = u], log' = [log EXCEPT ![n] = l],
         u # None, RowsOK(u, rows'), u.bad = mem[n].bad, Claims(u) \subseteq Claims(mem[n]),
         LogRowsOK(l, rows'), Len(l) \in Nat, Len(log[n]) <= Len(l),
         n \notin lost => MatchesIn(u, dir[n].table, dir[n], l)
  PROVE  JInv'
<1>1. rows \in Nat /\ \A k \in Names : /\ mem[k] # None => RowsOK(mem[k], rows) /\ mem[k].bad \in BOOLEAN
                                      /\ FileRowsOK(dir[k], rows) /\ LogRowsOK(log[k], rows)
  BY DEF JInv, RowsInv
<1>2. /\ \A k \in Names : mem'[k] = IF k = n THEN u ELSE mem[k]
      /\ \A k \in Names : log'[k] = IF k = n THEN l ELSE log[k]
  BY DEF IInv, Shapes
<1>3. /\ \A k \in Names : mem[k] # None => RowsOK(mem[k], rows')
      /\ \A k \in Names : FileRowsOK(dir[k], rows') /\ LogRowsOK(log[k], rows')
  BY <1>1, RowsGrow
<1>4. RowsInv'
  BY <1>1, <1>2, <1>3 DEF RowsInv
<1>5. \A k \in Names : Len(log[k]) \in Nat /\ Len(log'[k]) \in Nat /\ Len(log[k]) <= Len(log'[k])
  <2>1. \A k \in Names : Len(log[k]) \in Nat
    BY DEF IInv, Shapes, IsSeq
  <2> QED
    BY <1>2, <2>1
<1>6. ASSUME NEW k \in Names \ lost, mem[k] # None
      PROVE  /\ ~mem'[k].bad /\ Claims(mem'[k]) \subseteq Claims(mem[k])
             /\ MatchesIn(mem'[k], dir[k].table, dir[k], log'[k])
  <2>1. ~mem[k].bad /\ MatchesIn(mem[k], dir[k].table, dir[k], log[k])
    BY <1>6, IdleFacts
  <2>2. CASE k = n
    BY <1>2, <2>1, <2>2
  <2>3. CASE k # n
    BY <1>2, <2>1, <2>3
  <2> QED
    BY <2>2, <2>3
<1>7. \A k \in Names : mem'[k] = None <=> mem[k] = None
  BY <1>2
<1> QED
  BY <1>4, <1>5, <1>6, <1>7, IdleSafe

\* INSERT.
LEMMA InsertSafe ==
  ASSUME NoneIsNothing, NoneIsNoRecord, IInv, JInv, NEW n \in Names, Insert(n)
  PROVE  JInv'
<1>1. /\ Idle /\ IsTable(mem[n]) /\ rows' = rows + 1 /\ UNCHANGED <<dir, cat, catOld, todo, at, lost>>
      /\ acked' = View(mem') /\ want' = acked'
  BY DEF Insert, Ack
<1> DEFINE t == mem[n]
           row == rows + 1
           r == [kind |-> "ins", def |-> t.def, row |-> row]
           u == [t EXCEPT !.delta = t.delta \cup {row}]
           l == log[n] \o <<r>>
<1>2. TableOK(t) /\ Exact(t, dir[n]) /\ t # None /\ ~t.bad
  BY <1>1 DEF IInv, MemInv, IsTable
<1>3. rows \in Nat /\ row \in Nat /\ rows <= row /\ row \in 1..row /\ RowsOK(t, rows) /\ LogRowsOK(log[n], rows)
  BY <1>2 DEF JInv, RowsInv
<1>4. IsSeq(log[n]) /\ Append(log[n], r) = l /\ IsSeq(<<r>>) /\ Len(<<r>>) = 1 /\ <<r>>[1] = r
  <2>1. PICK S : log[n] \in Seq(S)
    BY DEF IInv, Shapes, IsSeq
  <2>2. <<r>> \in Seq({r})
    OBVIOUS
  <2>3. Append(log[n], r) = log[n] \o <<r>>
    <3> HIDE DEF r
    <3>1. S \subseteq S \cup {r}
      OBVIOUS
    <3>2. log[n] \in Seq(S \cup {r})
      BY <2>1, <3>1, SeqMonotonic
    <3>3. r \in S \cup {r}
      OBVIOUS
    <3> QED
      BY <3>2, <3>3, AppendIsConcat
  <2> QED
    BY <2>1, <2>2, <2>3 DEF IsSeq
<1>5. mem' = [mem EXCEPT ![n] = u] /\ log' = [log EXCEPT ![n] = l]
  <2>1. mem = [k \in Names |-> mem[k]]
    BY DEF IInv, Shapes
  <2> QED
    BY <1>1, <1>4, <2>1 DEF Insert
<1>6. u.def = t.def /\ u.parts = t.parts /\ u.delta = t.delta \cup {row} /\ u.bad = t.bad /\ u # None
  <2>2. DOMAIN u = {"def", "bad", "delta", "parts", "next"}
    BY <1>2 DEF TableOK
  <2>3. u = [x \in {"def", "bad", "delta", "parts", "next"} |-> u[x]]
    BY <2>2
  <2>4. u # None
    <3> HIDE DEF u
    <3> QED
      BY <2>3, ShapeIsTable
  <2> QED
    BY <1>2, <2>4 DEF TableOK
<1>7. r.kind = "ins" /\ r.def = t.def /\ r.row = row
  OBVIOUS
<1> HIDE DEF t, row, r, u
<1>8. RowsOK(u, row) /\ Claims(u) = Claims(t)
  <2>1. RowsOK(t, row)
    BY <1>3, RowsGrow
  <2> QED
    BY <1>3, <1>6, <2>1 DEF RowsOK, Claims
<1>9. LogRowsOK(l, row) /\ Len(l) \in Nat /\ Len(log[n]) <= Len(l)
  <2>1. LogRowsOK(log[n], row)
    BY <1>3, RowsGrow
  <2>2. \A i \in 1..Len(<<r>>) : <<r>>[i].kind = "ins" => <<r>>[i].row \in 1..row
    BY <1>3, <1>4, <1>7
  <2> QED
    BY <1>3, <1>4, <2>1, <2>2, LogGrows
<1>10. ASSUME n \notin lost PROVE MatchesIn(u, dir[n].table, dir[n], l)
  <2> DEFINE T == dir[n].table
             F == Named(dir[n], T)
             R == Suffix(log[n], T.wc)
  <2>1. T # None /\ Matches(t, T, F, R)
    BY <1>1, <1>2, <1>10, IdleFacts DEF MatchesIn, t
  <2>2. T.wc \in Nat /\ T.wc <= Len(log[n])
    <3>1. DirOK(dir[n]) /\ T \in Records(n)
      BY DEF IInv, DirInv, Records
    <3> QED
      BY <2>1, <3>1, NamedOnce DEF JInv, CoverInv
  <2>3. Suffix(l, T.wc) = R \cup {r}
    <3>1. PICK s : s = <<r>>
      OBVIOUS
    <3>2. PICK wc \in Nat : wc = T.wc /\ wc <= Len(log[n])
      BY <2>2
    <3>3. IsSeq(log[n]) /\ IsSeq(s) /\ {s[i] : i \in 1..Len(s)} = {r}
      BY ONLY <1>4, <3>1
    <3>4. Suffix(log[n] \o s, wc) = Suffix(log[n], wc) \cup {s[i] : i \in 1..Len(s)}
      BY ONLY <3>2, <3>3, LogGrows
    <3> QED
      BY ONLY <3>1, <3>2, <3>3, <3>4
  <2> HIDE DEF T, F, R
  <2>4. Matches(u, T, F, R \cup {r})
    BY <1>6, <1>7, <2>1, InsertMatches
  <2> QED
    BY <2>1, <2>3, <2>4 DEF MatchesIn, T, F, R
<1> HIDE DEF l
<1> QED
  <2>1. rows' \in Nat /\ rows <= rows' /\ RowsOK(u, rows') /\ LogRowsOK(l, rows')
    BY <1>1, <1>3, <1>8, <1>9 DEF row
  <2>2. mem[n] # None /\ u.bad = mem[n].bad /\ Claims(u) \subseteq Claims(mem[n])
    BY <1>2, <1>6, <1>8 DEF t
  <2> QED
    BY <1>1, <1>5, <1>6, <1>9, <1>10, <2>1, <2>2, OneTableSafe

\* A flush of everything shows the same tables, and keeps them matched.
LEMMA FlushAllKeeps ==
  ASSUME NoneIsNothing, NEW m, MemOK(m), NEW n \in Names, NEW k \in Nat,
         m[n] # None => RowsOK(m[n], k) /\ m[n].bad \in BOOLEAN
  PROVE  LET t == m[n]
             u == FlushAll(m)[n]
         IN /\ u = None <=> t = None
            /\ Contents(u) = Contents(t)
            /\ t # None => u.def = t.def /\ u.bad = t.bad /\ RowsOK(u, k) /\ Claims(u) = Claims(t)
            /\ IsTable(u) => u.delta = {}
            /\ \A d, l : t # None /\ DirOK(d) /\ MatchesIn(t, d.table, d, l) => MatchesIn(u, d.table, d, l)
<1> DEFINE t == m[n]
           u == FlushAll(m)[n]
<1>1. CASE IsTable(t)
  <2>1. u = Flush(t)
    BY <1>1 DEF FlushAll
  <2>2. TableOK(t) /\ Exact(t, dir[n]) /\ t # None /\ ~t.bad /\ RowsOK(t, k)
    BY <1>1 DEF MemOK, IsTable
  <2> HIDE DEF t, u
  <2>3. u # None
    BY <2>1, <2>2, FlushOK
  <2>4. /\ u.def = t.def /\ u.bad = t.bad /\ u.delta = {} /\ TableRows(u) = TableRows(t)
        /\ RowsOK(u, k) /\ Claims(u) = Claims(t)
    BY <2>1, <2>2, FlushKeeps
  <2>5. ASSUME NEW d, NEW l, DirOK(d), MatchesIn(t, d.table, d, l) PROVE MatchesIn(u, d.table, d, l)
    <3> DEFINE T == d.table
    <3>1. T # None /\ Matches(t, T, Named(d, T), Suffix(l, T.wc))
      BY <2>5 DEF MatchesIn
    <3>2. \A f, g \in Named(d, T) : f.pid = g.pid => f = g
      BY <2>5, <3>1, NamedOnce
    <3> HIDE DEF T
    <3>3. Matches(u, T, Named(d, T), Suffix(l, T.wc))
      BY <2>1, <2>2, <3>1, <3>2, FlushKeeps
    <3> QED
      BY <3>1, <3>3 DEF MatchesIn, T
  <2>6. Contents(u) = Contents(t)
    BY <2>2, <2>3, <2>4 DEF Contents
  <2> QED
    BY <2>2, <2>3, <2>4, <2>5, <2>6 DEF t, u
<1>2. CASE ~IsTable(t)
  <2>1. u = t
    BY <1>2 DEF FlushAll
  <2> QED
    BY <1>2, <2>1
<1> QED
  BY <1>1, <1>2

\* SYSTEM FLUSH, and the flush before a SELECT.
LEMMA FlushBuffersSafe ==
  ASSUME NoneIsNothing, NoneIsNoRecord, IInv, JInv, FlushBuffers
  PROVE  JInv'
<1>1. Idle /\ mem' = FlushAll(mem) /\ UNCHANGED <<log, dir, cat, catOld, todo, at, acked, want, lost, rows>>
  BY DEF FlushBuffers, disk, counters
<1>2. MemOK(mem) /\ rows \in Nat
  BY MemIsOK DEF JInv, RowsInv
<1>3. \A n \in Names : mem[n] # None => RowsOK(mem[n], rows) /\ mem[n].bad \in BOOLEAN
  BY DEF JInv, RowsInv
<1>4. ASSUME NEW n \in Names
      PROVE  /\ mem'[n] = None <=> mem[n] = None
             /\ Contents(mem'[n]) = Contents(mem[n])
             /\ mem[n] # None => /\ mem'[n].bad = mem[n].bad /\ RowsOK(mem'[n], rows)
                                 /\ Claims(mem'[n]) = Claims(mem[n])
             /\ \A d, l : mem[n] # None /\ DirOK(d) /\ MatchesIn(mem[n], d.table, d, l)
                            => MatchesIn(mem'[n], d.table, d, l)
  BY <1>1, <1>2, <1>3, FlushAllKeeps
<1>5. RowsInv'
  BY <1>1, <1>3, <1>4 DEF JInv, RowsInv
<1>6. want' = View(mem') /\ acked' = want'
  <2>1. want = View(mem) /\ acked = want
    BY <1>1, IdleFacts
  <2>2. View(mem') = View(mem)
    BY <1>4 DEF View
  <2> QED
    BY <1>1, <2>1, <2>2
<1>7. \A n \in Names : Len(log[n]) \in Nat /\ Len(log'[n]) \in Nat /\ Len(log[n]) <= Len(log'[n])
  <2>1. \A n \in Names : Len(log[n]) \in Nat
    BY DEF IInv, Shapes, IsSeq
  <2> QED
    BY <1>1, <2>1
<1>8. ASSUME NEW n \in Names \ lost, mem[n] # None
      PROVE  /\ ~mem'[n].bad /\ Claims(mem'[n]) \subseteq Claims(mem[n])
             /\ MatchesIn(mem'[n], dir[n].table, dir[n], log'[n])
  <2>1. ~mem[n].bad /\ MatchesIn(mem[n], dir[n].table, dir[n], log[n]) /\ DirOK(dir[n])
    BY <1>1, <1>8, IdleFacts
  <2> QED
    BY <1>1, <1>4, <1>8, <2>1
<1> QED
  BY <1>1, <1>4, <1>5, <1>6, <1>7, <1>8, IdleSafe

\* The rows a part shows are rows.
LEMMA LiveRows ==
  ASSUME NEW p, NEW D, p.rows \in Seq(D)
  PROVE  Live(p) \subseteq D
<1>1. PICK s \in Seq(D) : s = p.rows
  OBVIOUS
<1>2. \A i \in DOMAIN s : s[i] \in D
  OBVIOUS
<1> QED
  BY <1>1, <1>2 DEF Live, Positions

\* OPTIMIZE and auto-compaction.
LEMMA MergePartsSafe ==
  ASSUME NoneIsNothing, NoneIsNoRecord, IInv, JInv, NEW n \in Names, MergeParts(n)
  PROVE  JInv'
<1>1. Idle /\ IsTable(mem[n]) /\ UNCHANGED <<log, dir, cat, catOld, todo, at, acked, want, lost, rows>>
  BY DEF MergeParts, disk
<1> DEFINE t == mem[n]
<1>2. PICK ps \in SUBSET t.parts :
        LET kept == UNION {Live(p) : p \in ps}
        IN mem' = [mem EXCEPT ![n].parts = (t.parts \ ps) \cup (IF kept = {} THEN {} ELSE {Build(kept, t.next)}),
                              ![n].next = IF kept = {} THEN t.next ELSE t.next + 1]
  BY DEF MergeParts
<1> DEFINE kept == UNION {Live(p) : p \in ps}
           b == Build(kept, t.next)
           u == [t EXCEPT !.parts = (t.parts \ ps) \cup (IF kept = {} THEN {} ELSE {b}),
                          !.next = IF kept = {} THEN t.next ELSE t.next + 1]
<1>3. mem' = [mem EXCEPT ![n] = u]
  <2>1. mem = [k \in Names |-> mem[k]]
    BY DEF IInv, Shapes
  <2> HIDE DEF b
  <2> QED
    BY <1>2, <2>1 DEF b
<1>4. TableOK(t) /\ t # None /\ ~t.bad
  BY <1>1 DEF IInv, MemInv, IsTable
<1>5. rows \in Nat /\ RowsOK(t, rows) /\ LogRowsOK(log[n], rows)
  BY <1>4 DEF JInv, RowsInv
<1> HIDE DEF t
<1>6. kept \subseteq 1..rows
  <2>1. ASSUME NEW p \in ps PROVE Live(p) \subseteq 1..rows
    <3>1. p.rows \in Seq(1..rows)
      BY <1>5 DEF RowsOK
    <3> QED
      BY <3>1, LiveRows
  <2> QED
    BY <2>1
<1> HIDE DEF kept
<1>7. Live(b) = kept /\ b.rows \in Seq(1..rows) /\ b.homed = FALSE /\ b.seq = NoFile
  <2>1. PICK k \in Nat : k = rows
    BY <1>5
  <2>2. kept \in SUBSET (1..k)
    BY <1>6, <2>1
  <2>3. /\ Live(Build(kept, t.next)) = kept /\ Build(kept, t.next).rows \in Seq(1..k)
        /\ Build(kept, t.next).homed = FALSE /\ Build(kept, t.next).seq = NoFile
    BY <2>2, BuildHas
  <2> QED
    BY <2>1, <2>3
<1> HIDE DEF b
<1>8. /\ u.def = t.def /\ u.delta = t.delta /\ u.bad = t.bad
      /\ u.parts = (t.parts \ ps) \cup (IF Live(b) = {} THEN {} ELSE {b})
      /\ u = [x \in {"def", "bad", "delta", "parts", "next"} |-> u[x]]
  BY <1>4, <1>7 DEF TableOK
<1> HIDE DEF u
<1>9. u # None
  BY <1>8, ShapeIsTable
<1>10. /\ TableRows(u) = TableRows(t)
       /\ \A T, F, R : Matches(t, T, F, R) /\ (\A f, g \in F : f.pid = g.pid => f = g) => Matches(u, T, F, R)
  <2>1. Live(b) = UNION {Live(p) : p \in ps}
    BY <1>7 DEF kept
  <2> QED
    BY <1>4, <1>7, <1>8, <2>1, MergeMatches
<1>11. RowsOK(u, rows) /\ Claims(u) \subseteq Claims(t)
  <2>1. u.parts \subseteq t.parts \cup {b}
    BY <1>8
  <2> QED
    BY <1>5, <1>7, <1>8, <2>1 DEF RowsOK, Claims
<1>12. want' = View(mem') /\ acked' = want'
  <2>1. want = View(mem) /\ acked = want
    BY <1>1, IdleFacts
  <2>2. Contents(u) = Contents(t)
    BY <1>4, <1>8, <1>9, <1>10 DEF Contents
  <2>3. View(mem') = View(mem)
    <3>1. \A k \in Names : mem'[k] = IF k = n THEN u ELSE mem[k]
      BY <1>3 DEF IInv, Shapes
    <3>2. \A k \in Names : Contents(mem'[k]) = Contents(mem[k])
      BY <2>2, <3>1 DEF t
    <3> QED
      BY <3>2 DEF View
  <2> QED
    BY <1>1, <2>1, <2>3
<1>13. ASSUME n \notin lost PROVE MatchesIn(u, dir[n].table, dir[n], log[n])
  <2> DEFINE T == dir[n].table
  <2>1. T # None /\ Matches(t, T, Named(dir[n], T), Suffix(log[n], T.wc))
    BY <1>1, <1>4, <1>13, IdleFacts DEF MatchesIn, t
  <2>2. \A f, g \in Named(dir[n], T) : f.pid = g.pid => f = g
    <3>1. DirOK(dir[n])
      BY DEF IInv, DirInv
    <3> QED
      BY <2>1, <3>1, NamedOnce
  <2> HIDE DEF T
  <2> QED
    BY <1>10, <2>1, <2>2 DEF MatchesIn, T
<1>14. Len(log[n]) \in Nat /\ Len(log[n]) <= Len(log[n]) /\ log' = [log EXCEPT ![n] = log[n]]
  <2>1. Len(log[n]) \in Nat
    BY DEF IInv, Shapes, IsSeq
  <2> QED
    BY <1>1, <2>1 DEF IInv, Shapes
<1>15. rows' \in Nat /\ rows <= rows' /\ RowsOK(u, rows') /\ LogRowsOK(log[n], rows')
  BY <1>1, <1>5, <1>11
<1>16. mem[n] # None /\ u.bad = mem[n].bad /\ Claims(u) \subseteq Claims(mem[n])
  BY <1>4, <1>8, <1>11 DEF t
<1>17. UNCHANGED <<dir, cat, catOld, todo, at, lost>>
  BY <1>1
<1> QED
  BY <1>1, <1>3, <1>9, <1>12, <1>13, <1>14, <1>15, <1>16, <1>17, OneTableSafe

\* DELETE by log record.
LEMMA SweepSafe ==
  ASSUME NoneIsNothing, NoneIsNoRecord, IInv, JInv, NEW n \in Names, NEW S, Sweep(n, S)
  PROVE  JInv'
<1> DEFINE t == Flush(mem[n])
           M == MaskRuns(t, S)
           s == SetToSeq(M)
           u == Hide(t, S)
           l == log[n] \o s
<1>1. /\ Idle /\ IsTable(mem[n]) /\ ~Dark(t, S) /\ UNCHANGED <<dir, cat, catOld, todo, at, lost, rows>>
      /\ mem' = [mem EXCEPT ![n] = u] /\ log' = [log EXCEPT ![n] = l]
      /\ acked' = View(mem') /\ want' = acked'
  BY DEF Sweep, Ack
<1>2. TableOK(mem[n]) /\ Exact(mem[n], dir[n]) /\ mem[n] # None /\ ~mem[n].bad
  BY <1>1 DEF IInv, MemInv, IsTable
<1>3. rows \in Nat /\ RowsOK(mem[n], rows) /\ LogRowsOK(log[n], rows) /\ IsSeq(log[n])
  BY <1>2 DEF JInv, RowsInv, IInv, Shapes
<1>4. /\ TableOK(t) /\ Exact(t, dir[n]) /\ t.bad = mem[n].bad /\ t.delta = {} /\ RowsOK(t, rows)
      /\ Claims(t) = Claims(mem[n])
      /\ \A T, F, R : Matches(mem[n], T, F, R) /\ (\A f, g \in F : f.pid = g.pid => f = g) => Matches(t, T, F, R)
  BY <1>2, <1>3, FlushOK, FlushKeeps
<1> HIDE DEF t
<1>5. u # None /\ u.bad = t.bad /\ Claims(u) \subseteq Claims(t) /\ RowsOK(u, rows)
  BY <1>4, HideOK, HideHides
<1>6. IsSeq(s) /\ {s[i] : i \in 1..Len(s)} = M /\ \A i \in 1..Len(s) : s[i].kind # "ins"
  <2> DEFINE c == Cardinality(M)
  <2>1. s \in [1..c -> M] /\ c \in Nat /\ \A x \in M : \E i \in 1..c : s[i] = x
    BY <1>4, MaskRunsFinite, SetToSeqLists
  <2>2. \A x \in M : x.kind = "mask"
    BY DEF MaskRuns
  <2> HIDE DEF s, c, M
  <2>3. s \in Seq(M) /\ Len(s) = c
    BY <2>1
  <2>4. {s[i] : i \in 1..c} = M
    BY <2>1
  <2> QED
    BY <2>1, <2>2, <2>3, <2>4 DEF IsSeq
<1> HIDE DEF s, M
<1>7. LogRowsOK(l, rows) /\ Len(l) \in Nat /\ Len(log[n]) <= Len(l)
  BY <1>3, <1>6, LogGrows
<1>8. ASSUME n \notin lost PROVE MatchesIn(u, dir[n].table, dir[n], l)
  <2> DEFINE T == dir[n].table
             F == Named(dir[n], T)
             R == Suffix(log[n], T.wc)
  <2>1. T # None /\ Matches(mem[n], T, F, R)
    BY <1>1, <1>2, <1>8, IdleFacts DEF MatchesIn
  <2>2. T.wc \in Nat /\ T.wc <= Len(log[n]) /\ \A f, g \in F : f.pid = g.pid => f = g
    <3>1. DirOK(dir[n]) /\ T \in Records(n)
      BY DEF IInv, DirInv, Records
    <3> QED
      BY <2>1, <3>1, NamedOnce DEF JInv, CoverInv
  <2>3. Suffix(l, T.wc) = R \cup M
    BY <1>3, <1>6, <2>2, LogGrows
  <2> HIDE DEF T, F, R, u, l
  <2>4. Matches(t, T, F, R)
    BY <1>4, <2>1, <2>2
  <2>5. Matches(u, T, F, R \cup M)
    BY <1>1, <1>4, <2>2, <2>4, SweepMatches DEF u, M
  <2> QED
    BY <2>1, <2>3, <2>5 DEF MatchesIn, T, F, R
<1> HIDE DEF l, u
<1>9. rows' \in Nat /\ rows <= rows' /\ RowsOK(u, rows') /\ LogRowsOK(l, rows')
  BY <1>1, <1>3, <1>5, <1>7
<1>10. u.bad = mem[n].bad /\ Claims(u) \subseteq Claims(mem[n])
  BY <1>4, <1>5
<1>11. UNCHANGED <<dir, cat, catOld, todo, at, lost>>
  BY <1>1
<1> QED
  BY <1>1, <1>2, <1>5, <1>7, <1>8, <1>9, <1>10, <1>11, OneTableSafe

-----------------------------------------------------------------------------
(* Statements that write a table, or everything, out: how they begin.       *)

\* A statement that changes at most what is under x, and lists what makes the
\* disk agree again.
LEMMA BeginSafe ==
  ASSUME NoneIsNoRecord, IInv, JInv, Idle, NEW m, NEW steps, Begin(m, steps),
         \A n \in Names : m[n] # None => RowsOK(m[n], rows) /\ m[n].bad \in BOOLEAN,
         steps # <<>>, steps[1].do # "move", Flushed(steps, m), Moves(steps) => View(m) = acked,
         NEW x \in Names,
         \A n \in Names \ {x} : (m[n] = None <=> mem[n] = None) /\ Contents(m[n]) = Contents(mem[n]),
         \A n \in Names \ lost : m[n] # None => ~m[n].bad /\ Decodes(Claims(m[n]), dir[n]),
         \A n \in Names \ lost : m[n] # None =>
           \/ MatchesIn(m[n], dir[n].table, dir[n], log[n])
           \/ n = x /\ Contents(m[n]) # Contents(mem[n]) /\ Due(steps, n),
         (m[x] = None <=> mem[x] = None) \/ CatalogFrom(steps, 1)
  PROVE  JInv'
<1>1. /\ at.pc = "none" /\ ~Writing /\ Rosters = {cat} /\ acked = View(mem)
      /\ \A n \in Names : Records(n) = {dir[n].table} /\ DirOK(dir[n])
      /\ \A n \in Names \ lost : cat[n] = None <=> mem[n] = None
      /\ \A n \in Names \ lost : mem[n] # None =>
           dir[n].table # None /\ FoundIn(dir[n].table, dir[n], log[n]) = Contents(mem[n])
  BY IdleFacts
<1>2. mem' = m /\ todo' = steps /\ want' = View(m) /\ UNCHANGED <<log, dir, cat, catOld, at, acked, lost, rows>>
  BY DEF Begin
<1>3. /\ Rosters' = {cat} /\ at'.pc = "none" /\ ~Writing'
      /\ \A n \in Names : Records(n)' = {dir[n].table}
  BY <1>1, <1>2 DEF Rosters, Records, Writing
<1>4. \A n \in Names : want'[n] = Contents(m[n]) /\ acked'[n] = Contents(mem[n])
  BY <1>1, <1>2 DEF View
<1>5. RowsInv'
  BY <1>2 DEF JInv, RowsInv
<1>6. CoverInv'
  BY <1>1, <1>2, <1>3 DEF JInv, CoverInv
<1>7. StmtInv'
  BY <1>2 DEF StmtInv, Idle
<1>8. KeptInv'
  BY <1>2, <1>3, <1>4 DEF KeptInv, Stale
<1>9. NamesInv'
  BY <1>3 DEF NamesInv
<1>10. GivesInv'
  <2>1. SUFFICES ASSUME NEW n \in Names \ lost PROVE Gives(cat, n)'
    BY <1>2, <1>3 DEF GivesInv
  <2>2. CASE cat[n] = None
    BY <1>1, <1>2, <1>4, <2>2, ContentsSome DEF Gives
  <2>3. CASE cat[n] # None
    <3>1. dir[n].table # None /\ FoundIn(dir[n].table, dir[n], log[n]) = Contents(mem[n])
      BY <1>1, <2>3
    <3> QED
      BY <1>2, <1>3, <1>4, <2>3, <3>1 DEF Gives
  <2> QED
    BY <2>2, <2>3
<1>11. MovedInv'
  <2>1. \A n \in Names : acked'[n] # want'[n] => n = x
    BY <1>4
  <2> QED
    BY <2>1 DEF MovedInv
<1>12. ListedInv'
  <2>1. CASE CatalogFrom(steps, 1)
    BY <1>2, <1>3, <2>1 DEF ListedInv
  <2>2. CASE m[x] = None <=> mem[x] = None
    <3>1. \A n \in Names : m[n] = None <=> mem[n] = None
      BY <2>2
    <3> QED
      BY <1>1, <1>2, <1>3, <3>1 DEF ListedInv, Listed
  <2> QED
    BY <2>1, <2>2
<1>13. LinkedInv'
  BY <1>2 DEF LinkedInv
<1>14. SoundInv'
  BY <1>2 DEF JInv, SoundInv
<1> QED
  BY <1>5, <1>6, <1>7, <1>8, <1>9, <1>10, <1>11, <1>12, <1>13, <1>14 DEF JInv

\* A list of nothing but writes, of tables that have been flushed.
LEMMA PlainFlushed ==
  ASSUME NEW q, \A i \in DOMAIN q : q[i].do \in Plain, NEW m,
         \A i \in DOMAIN q : q[i].do = "table" /\ IsTable(m[q[i].n]) => m[q[i].n].delta = {}
  PROVE  Flushed(q, m) /\ ~Moves(q)
<1>1. \A i \in DOMAIN q : q[i].do \notin {"link", "move"} /\ q[i].do # "move"
  BY DEF Plain
<1> QED
  BY <1>1 DEF Flushed, Moves

\* save_catalog: every table, then the roster, then what is collected.
LEMMA SaveOrder ==
  CatalogFrom(SaveCatalog, 1) /\ \A n \in Names : Due(SaveCatalog, n)
<1> DEFINE c == Cardinality(Names)
           w == WriteTables
           tail == <<[do |-> "catalog"], [do |-> "collect"]>>
           step(n) == [do |-> "table", n |-> n]
<1>1. c \in Nat /\ SetToSeq(Names) \in [1..c -> Names] /\ \A n \in Names : \E i \in 1..c : SetToSeq(Names)[i] = n
  BY CheckpointAssumption, SetToSeqLists
<1>2. w = [i \in 1..c |-> w[i]] /\ \A i \in 1..c : w[i] = step(SetToSeq(Names)[i]) /\ w[i].do = "table"
  BY DEF WriteTables
<1> DEFINE S == {w[i] : i \in 1..c} \cup {[do |-> "catalog"], [do |-> "collect"]}
<1>3. w \in Seq(S) /\ Len(w) = c
  <2>1. \A i \in 1..c : w[i] \in S
    OBVIOUS
  <2> HIDE DEF w, c, S
  <2> QED
    BY <1>1, <1>2, <2>1
<1>4. tail \in Seq(S) /\ Len(tail) = 2 /\ tail[1].do = "catalog"
  <2>1. [do |-> "catalog"] \in S /\ [do |-> "collect"] \in S
    OBVIOUS
  <2> HIDE DEF S
  <2> QED
    BY <2>1
<1>5. SaveCatalog = w \o tail
  BY DEF SaveCatalog
<1> HIDE DEF c, w, tail, S, step
<1>6. /\ DOMAIN SaveCatalog = 1..(c + 2) /\ \A i \in 1..c : SaveCatalog[i] = w[i]
      /\ SaveCatalog[c + 1] = tail[1]
  <2>1. /\ w \o tail \in Seq(S) /\ Len(w \o tail) = Len(w) + Len(tail)
        /\ \A i \in 1..(Len(w) + Len(tail)) : (w \o tail)[i] = IF i <= Len(w) THEN w[i] ELSE tail[i - Len(w)]
    BY <1>3, <1>4, ConcatProperties
  <2>2. DOMAIN (w \o tail) = 1..(c + 2)
    BY <1>3, <1>4, <2>1
  <2>3. \A i \in 1..(c + 2) : (w \o tail)[i] = IF i <= c THEN w[i] ELSE tail[i - c]
    BY <1>3, <1>4, <2>1
  <2>4. c + 1 \in 1..(c + 2) /\ ~(c + 1 <= c) /\ (c + 1) - c = 1 /\ \A i \in 1..c : i \in 1..(c + 2) /\ i <= c
    BY <1>1
  <2> QED
    BY <1>5, <2>2, <2>3, <2>4
<1>7. \A i \in 1..c : SaveCatalog[i].do = "table"
  BY <1>2, <1>6
<1>8. CatalogFrom(SaveCatalog, 1)
  <2>1. c + 1 \in DOMAIN SaveCatalog /\ c + 1 >= 1 /\ 1..((c + 1) - 1) = 1..c
    BY <1>1, <1>6
  <2>2. SaveCatalog[c + 1].do = "catalog"
    BY <1>4, <1>6
  <2> QED
    BY <1>7, <2>1, <2>2 DEF CatalogFrom
<1>9. ASSUME NEW n \in Names PROVE Due(SaveCatalog, n)
  <2>1. PICK i \in 1..c : SetToSeq(Names)[i] = n
    BY <1>1
  <2>2. i \in DOMAIN SaveCatalog /\ \A j \in 1..(i - 1) : j \in 1..c
    BY <1>1, <1>6
  <2>3. SaveCatalog[i] = [do |-> "table", n |-> n]
    BY <1>2, <1>6, <2>1 DEF step
  <2> QED
    BY <1>7, <2>2, <2>3 DEF Due
<1> QED
  BY <1>8, <1>9

\* The list of a CREATE: the new table first, then everything.
LEMMA CreateOrder ==
  ASSUME NEW n \in Names
  PROVE  LET q == <<[do |-> "table", n |-> n]>> \o SaveCatalog
         IN /\ q \in Seq(Steps) /\ q # <<>> /\ \A i \in DOMAIN q : q[i].do \in Plain
            /\ CatalogFrom(q, 1) /\ Due(q, n)
<1> DEFINE h == [do |-> "table", n |-> n]
           q == <<h>> \o SaveCatalog
           k == Len(SaveCatalog)
<1>1. h \in Steps /\ h.do \in Plain /\ <<h>> \in Seq(Steps) /\ Len(<<h>>) = 1 /\ <<h>>[1] = h /\ h.do = "table"
  BY OneTable
<1>2. SaveCatalog \in Seq(Steps) /\ k \in Nat /\ \A i \in 1..k : SaveCatalog[i].do \in Plain
  BY SaveCatalogSteps
<1> HIDE DEF h, k
<1>3. q \in Seq(Steps) /\ Len(q) = 1 + k /\ \A i \in 1..(1 + k) : q[i] = IF i <= 1 THEN <<h>>[i] ELSE SaveCatalog[i - 1]
  <2>1. /\ <<h>> \o SaveCatalog \in Seq(Steps) /\ Len(<<h>> \o SaveCatalog) = Len(<<h>>) + Len(SaveCatalog)
        /\ \A i \in 1..(Len(<<h>>) + Len(SaveCatalog)) :
             (<<h>> \o SaveCatalog)[i] = IF i <= Len(<<h>>) THEN <<h>>[i] ELSE SaveCatalog[i - Len(<<h>>)]
    BY <1>1, <1>2, ConcatProperties
  <2> QED
    BY <1>1, <2>1 DEF k
<1> HIDE DEF q
<1>4. DOMAIN q = 1..(1 + k) /\ q # <<>>
  BY <1>2, <1>3
<1>5. q[1] = h
  BY <1>1, <1>2, <1>3
<1>6. \A i \in 1..k : i + 1 \in 1..(1 + k) /\ q[i + 1] = SaveCatalog[i]
  <2> TAKE i \in 1..k
  <2>1. i + 1 \in 1..(1 + k) /\ ~(i + 1 <= 1) /\ (i + 1) - 1 = i
    BY <1>2
  <2> QED
    BY <1>3, <2>1
<1>7. ASSUME NEW i \in 1..(1 + k) PROVE i = 1 \/ (i - 1 \in 1..k /\ q[i] = SaveCatalog[i - 1])
  <2>1. i = 1 \/ (i - 1 \in 1..k /\ (i - 1) + 1 = i)
    BY <1>2
  <2> QED
    BY <1>6, <2>1
<1>8. \A i \in DOMAIN q : q[i].do \in Plain
  BY <1>1, <1>2, <1>4, <1>5, <1>7
<1>9. Due(q, n)
  <2>1. 1 \in DOMAIN q /\ 1..(1 - 1) = {}
    BY <1>2, <1>4
  <2> QED
    BY <1>5, <2>1 DEF Due, h
<1>10. CatalogFrom(q, 1)
  <2>1. PICK i \in DOMAIN SaveCatalog : SaveCatalog[i].do = "catalog" /\ \A j \in 1..(i - 1) : SaveCatalog[j].do = "table"
    BY SaveOrder DEF CatalogFrom
  <2>2. i \in 1..k
    BY <1>2, <2>1 DEF k
  <2>3. i + 1 \in DOMAIN q /\ i + 1 >= 1 /\ q[i + 1].do = "catalog"
    BY <1>2, <1>4, <1>6, <2>1, <2>2
  <2>4. ASSUME NEW j \in 1..((i + 1) - 1) PROVE q[j].do = "table"
    <3>1. j \in 1..(1 + k) /\ (j # 1 => j - 1 \in 1..(i - 1))
      BY <1>2, <2>2
    <3> QED
      BY <1>1, <1>5, <1>7, <2>1, <3>1
  <2> QED
    BY <2>3, <2>4 DEF CatalogFrom
<1> QED
  BY <1>3, <1>4, <1>8, <1>9, <1>10 DEF q, h

\* A statement that puts t under x, flushes everything and saves the catalog.
LEMMA SaveSafe ==
  ASSUME NoneIsNothing, NoneIsNoRecord, IInv, JInv, Idle, NEW x \in Names, NEW t,
         NEW steps \in Seq(Steps), steps # <<>>, \A i \in DOMAIN steps : steps[i].do \in Plain,
         CatalogFrom(steps, 1), Due(steps, x),
         NEW w, w = [mem EXCEPT ![x] = t], MemOK(w), Begin(FlushAll(w), steps),
         t # None => RowsOK(t, rows) /\ t.bad \in BOOLEAN,
         x \notin lost /\ t # None => /\ ~t.bad /\ Decodes(Claims(t), dir[x])
                                      /\ \/ MatchesIn(t, dir[x].table, dir[x], log[x])
                                         \/ Contents(t) # Contents(mem[x])
  PROVE  JInv'
<1> DEFINE m == FlushAll(w)
<1>1. rows \in Nat /\ \A n \in Names : mem[n] # None => RowsOK(mem[n], rows) /\ mem[n].bad \in BOOLEAN
  BY DEF JInv, RowsInv
<1>2. \A n \in Names : w[n] = IF n = x THEN t ELSE mem[n]
  BY DEF IInv, Shapes
<1>3. \A n \in Names : w[n] # None => RowsOK(w[n], rows) /\ w[n].bad \in BOOLEAN
  BY <1>1, <1>2
<1>4. ASSUME NEW n \in Names
      PROVE  /\ m[n] = None <=> w[n] = None
             /\ Contents(m[n]) = Contents(w[n])
             /\ w[n] # None => m[n].bad = w[n].bad /\ RowsOK(m[n], rows) /\ Claims(m[n]) = Claims(w[n])
             /\ IsTable(m[n]) => m[n].delta = {}
             /\ \A d, l : w[n] # None /\ DirOK(d) /\ MatchesIn(w[n], d.table, d, l) => MatchesIn(m[n], d.table, d, l)
  <2>1. NoneIsNothing /\ MemOK(w) /\ n \in Names /\ rows \in Nat
    BY DEF JInv, RowsInv
  <2>2. w[n] # None => RowsOK(w[n], rows) /\ w[n].bad \in BOOLEAN
    BY <1>3
  <2> QED
    BY ONLY <2>1, <2>2, FlushAllKeeps
<1> HIDE DEF m
<1>5. \A n \in Names : m[n] # None => RowsOK(m[n], rows) /\ m[n].bad \in BOOLEAN
  BY <1>3, <1>4
<1>6. Flushed(steps, m) /\ ~Moves(steps) /\ steps[1].do # "move"
  <2>1. \A i \in DOMAIN steps : steps[i].do = "table" => steps[i].n \in Names
    <3> TAKE i \in DOMAIN steps
    <3>1. steps[i] \in Steps
      OBVIOUS
    <3> QED
      BY <3>1 DEF Steps
  <2>2. 1 \in DOMAIN steps
    OBVIOUS
  <2> QED
    BY <1>4, <2>1, <2>2, PlainFlushed DEF Plain
<1>7. \A n \in Names \ {x} : (m[n] = None <=> mem[n] = None) /\ Contents(m[n]) = Contents(mem[n])
  BY <1>2, <1>4
<1>8. ASSUME NEW n \in Names \ lost, m[n] # None
      PROVE  /\ ~m[n].bad /\ Decodes(Claims(m[n]), dir[n])
             /\ \/ MatchesIn(m[n], dir[n].table, dir[n], log[n])
                \/ n = x /\ Contents(m[n]) # Contents(mem[n]) /\ Due(steps, n)
  <2>1. DirOK(dir[n])
    BY DEF IInv, DirInv
  <2>2. w[n] # None
    BY <1>4, <1>8
  <2>3. /\ ~w[n].bad /\ Decodes(Claims(w[n]), dir[n])
        /\ \/ MatchesIn(w[n], dir[n].table, dir[n], log[n])
           \/ n = x /\ Contents(w[n]) # Contents(mem[n])
    <3>1. CASE n = x
      BY <1>2, <2>2, <3>1
    <3>2. CASE n # x
      <4>1. w[n] = mem[n]
        BY <1>2, <3>2
      <4>2. ~mem[n].bad /\ Decodes(Claims(mem[n]), dir[n]) /\ MatchesIn(mem[n], dir[n].table, dir[n], log[n])
        BY <2>2, <4>1, IdleFacts
      <4> QED
        BY <4>1, <4>2
    <3> QED
      BY <3>1, <3>2
  <2>4. m[n].bad = w[n].bad /\ Claims(m[n]) = Claims(w[n]) /\ Contents(m[n]) = Contents(w[n])
    BY <1>4, <2>2
  <2>5. MatchesIn(w[n], dir[n].table, dir[n], log[n]) => MatchesIn(m[n], dir[n].table, dir[n], log[n])
    BY <1>4, <2>1, <2>2
  <2> QED
    BY <2>3, <2>4, <2>5
<1>9. Begin(m, steps)
  BY DEF m
<1> QED
  BY <1>5, <1>6, <1>7, <1>8, <1>9, BeginSafe

\* CHECKPOINT.
LEMMA CheckpointStmtSafe ==
  ASSUME NoneIsNothing, NoneIsNoRecord, IInv, JInv, CheckpointStmt
  PROVE  JInv'
<1>1. Idle /\ Begin(FlushAll(mem), SaveCatalog)
  BY DEF CheckpointStmt
<1>2. PICK x \in Names : TRUE
  BY CheckpointAssumption
<1> DEFINE t == mem[x]
<1>3. mem = [mem EXCEPT ![x] = t] /\ MemOK(mem)
  BY MemIsOK DEF IInv, Shapes
<1>4. t # None => RowsOK(t, rows) /\ t.bad \in BOOLEAN
  BY DEF JInv, RowsInv
<1>5. x \notin lost /\ t # None =>
        ~t.bad /\ Decodes(Claims(t), dir[x]) /\ MatchesIn(t, dir[x].table, dir[x], log[x])
  BY <1>1, IdleFacts
<1>6. /\ SaveCatalog \in Seq(Steps) /\ SaveCatalog # <<>> /\ \A i \in DOMAIN SaveCatalog : SaveCatalog[i].do \in Plain
      /\ CatalogFrom(SaveCatalog, 1) /\ Due(SaveCatalog, x)
  BY SaveCatalogSteps, SaveOrder
<1> HIDE DEF t
<1> QED
  BY <1>1, <1>3, <1>4, <1>5, <1>6, SaveSafe

\* A table that a DDL statement has just made.
IsNew(t, def, D) ==
  /\ t = [x \in {"def", "bad", "delta", "parts", "next"} |-> t[x]]
  /\ t.def = def /\ t.bad = FALSE /\ t.delta = D /\ t.parts = {} /\ t.def \in Nat /\ t.next \in Nat

\* Table::new, with or without rows in the buffer, makes one.
LEMMA NewTable ==
  ASSUME NEW def \in Nat, NEW next \in Nat, NEW D
  PROVE  IsNew(Table(def, {}, next), def, {}) /\ IsNew([Table(def, {}, next) EXCEPT !.delta = D], def, D)
  BY DEF IsNew, Table

\* A table without parts claims no file.
LEMMA NewTableClaims ==
  ASSUME NoneIsNothing, NEW t, NEW def, NEW D, IsNew(t, def, D), NEW k \in Nat, D \subseteq 1..k, NEW d
  PROVE  /\ t # None /\ t.bad = FALSE /\ t.def = def /\ t.parts = {} /\ t.delta = D /\ TableRows(t) = D
         /\ RowsOK(t, k) /\ Decodes(Claims(t), d) /\ TableOK(t) /\ Exact(t, d)
<1>1. /\ t.bad = FALSE /\ t.def = def /\ t.parts = {} /\ t.delta = D /\ t.next \in Nat /\ t.def \in Nat
      /\ t = [x \in {"def", "bad", "delta", "parts", "next"} |-> t[x]]
  BY DEF IsNew
<1>2. TableOK(t)
  <2>1. DOMAIN t = {"def", "bad", "delta", "parts", "next"}
    BY <1>1
  <2> QED
    BY <1>1, <2>1 DEF TableOK
<1>3. t # None
  BY <1>1, ShapeIsTable
<1>4. TableRows(t) = D /\ RowsOK(t, k) /\ Claims(t) = {}
  BY <1>1 DEF TableRows, RowsOK, Claims
<1> QED
  BY <1>1, <1>2, <1>3, <1>4 DEF Decodes, Exact

\* The rows of a table are rows.
LEMMA TableRowsAre ==
  ASSUME NEW t, NEW k, RowsOK(t, k)
  PROVE  TableRows(t) \subseteq 1..k
<1> DEFINE D == 1..k
<1>1. t.delta \subseteq D /\ \A p \in t.parts : p.rows \in Seq(D)
  BY DEF RowsOK
<1> HIDE DEF D
<1>2. \A p \in t.parts : Live(p) \subseteq D
  BY <1>1, LiveRows
<1>3. TableRows(t) \subseteq D
  BY <1>1, <1>2 DEF TableRows
<1> QED
  BY <1>3 DEF D

\* CREATE, DROP, TRUNCATE and ALTER TABLE.
LEMMA DdlSafe ==
  ASSUME NoneIsNothing, NoneIsNoRecord, IInv, JInv, NEW n \in Names, Create(n) \/ Drop(n) \/ Truncate(n) \/ Alter(n)
  PROVE  JInv'
<1>1. MemOK(mem) /\ rows \in Nat /\ {} \subseteq 1..rows
  BY MemIsOK DEF JInv, RowsInv
<1>2. /\ SaveCatalog \in Seq(Steps) /\ SaveCatalog # <<>> /\ \A i \in DOMAIN SaveCatalog : SaveCatalog[i].do \in Plain
      /\ CatalogFrom(SaveCatalog, 1) /\ Due(SaveCatalog, n)
  BY SaveCatalogSteps, SaveOrder
<1>3. Seeded(Len(log[n])) \in Nat
  BY DEF IInv, Shapes, IsSeq, Seeded
<1>4. ASSUME NEW t, NEW def, NEW D, IsNew(t, def, D), D \subseteq 1..rows
      PROVE  /\ t # None /\ t.bad = FALSE /\ t.def = def /\ t.parts = {} /\ t.delta = D /\ TableRows(t) = D
             /\ RowsOK(t, rows) /\ Decodes(Claims(t), dir[n]) /\ TableOK(t) /\ Exact(t, dir[n])
  BY <1>1, <1>4, NewTableClaims
<1>5. CASE Create(n)
  <2> DEFINE t == Table(0, {}, Seeded(Len(log[n])))
             w == [mem EXCEPT ![n] = t]
             q == <<[do |-> "table", n |-> n]>> \o SaveCatalog
  <2>1. Idle /\ mem[n] = None /\ Begin(FlushAll(w), q)
    BY <1>5 DEF Create
  <2>2. /\ t # None /\ t.bad = FALSE /\ RowsOK(t, rows) /\ Decodes(Claims(t), dir[n])
        /\ TableOK(t) /\ Exact(t, dir[n])
    <3>1. IsNew(t, 0, {})
      BY <1>3, NewTable
    <3> HIDE DEF t
    <3> QED
      BY <1>1, <1>4, <3>1
  <2> HIDE DEF t
  <2>3. MemOK(w)
    BY <1>1, <2>2, PutOK
  <2>4. Contents(t) # Contents(mem[n])
    BY <2>1, <2>2, ContentsSome
  <2>5. q \in Seq(Steps) /\ q # <<>> /\ (\A i \in DOMAIN q : q[i].do \in Plain) /\ CatalogFrom(q, 1) /\ Due(q, n)
    BY CreateOrder
  <2> HIDE DEF w, q
  <2> QED
    BY <2>1, <2>2, <2>3, <2>4, <2>5, SaveSafe DEF w
<1>6. CASE Drop(n)
  <2> DEFINE w == [mem EXCEPT ![n] = None]
  <2>1. Idle /\ Begin(FlushAll(w), SaveCatalog)
    BY <1>6 DEF Drop
  <2>2. MemOK(w)
    BY <1>1, PutOK
  <2> HIDE DEF w
  <2> QED
    BY <1>2, <2>1, <2>2, SaveSafe DEF w
<1>7. CASE Truncate(n)
  <2> DEFINE o == mem[n]
             t == Table(o.def, {}, Seeded(Len(log[n])))
             w == [mem EXCEPT ![n] = t]
  <2>1. Idle /\ IsTable(o) /\ Begin(FlushAll(w), SaveCatalog)
    BY <1>7 DEF Truncate
  <2>2. TableOK(o) /\ o.def \in Nat /\ o # None /\ o.bad = FALSE
    BY <2>1 DEF IInv, MemInv, TableOK, IsTable, JInv, RowsInv
  <2>3. /\ t # None /\ t.bad = FALSE /\ RowsOK(t, rows) /\ Decodes(Claims(t), dir[n])
        /\ TableOK(t) /\ Exact(t, dir[n]) /\ t.def = o.def /\ t.parts = {} /\ t.delta = {} /\ TableRows(t) = {}
    <3>1. IsNew(t, o.def, {})
      <4> DEFINE def == o.def
                 next == Seeded(Len(log[n]))
      <4>1. def \in Nat /\ next \in Nat
        BY <1>3, <2>2
      <4> HIDE DEF def, next
      <4>2. IsNew(Table(def, {}, next), def, {})
        BY <4>1, NewTable
      <4> QED
        BY <4>2 DEF def, next
    <3> DEFINE E == {}
    <3>2. IsNew(t, o.def, E) /\ E \subseteq 1..rows
      BY <1>1, <3>1
    <3> HIDE DEF t, o, E
    <3>3. t # None /\ t.bad = FALSE /\ RowsOK(t, rows) /\ Decodes(Claims(t), dir[n]) /\ TableOK(t) /\ Exact(t, dir[n])
      BY <1>4, <3>2
    <3>4. t.def = o.def /\ t.parts = {} /\ t.delta = E
      BY <3>2 DEF IsNew
    <3>5. TableRows(t) = E
      BY <3>4 DEF TableRows
    <3> QED
      BY <3>3, <3>4, <3>5 DEF E
  <2> HIDE DEF t
  <2>4. MemOK(w)
    BY <1>1, <2>3, PutOK
  <2>5. ASSUME n \notin lost PROVE MatchesIn(t, dir[n].table, dir[n], log[n]) \/ Contents(t) # Contents(mem[n])
    <3>1. CASE TableRows(o) # {}
      BY <2>2, <2>3, <3>1, ContentsSome
    <3>2. CASE TableRows(o) = {}
      <4> DEFINE T == dir[n].table
      <4>1. T # None /\ Matches(o, T, Named(dir[n], T), Suffix(log[n], T.wc)) /\ DirOK(dir[n])
        BY <2>1, <2>2, <2>5, IdleFacts DEF MatchesIn
      <4>2. \A f, g \in Named(dir[n], T) : f.pid = g.pid => f = g
        BY <4>1, NamedOnce
      <4> HIDE DEF T, o
      <4>3. Matches(t, T, Named(dir[n], T), Suffix(log[n], T.wc))
        BY <2>2, <2>3, <3>2, <4>1, <4>2, TruncateMatches
      <4> QED
        BY <4>1, <4>3 DEF MatchesIn, T
    <3> QED
      BY <3>1, <3>2
  <2> HIDE DEF w
  <2> QED
    BY <1>2, <2>1, <2>3, <2>4, <2>5, SaveSafe DEF w
<1>8. CASE Alter(n)
  <2> DEFINE o == mem[n]
             R == TableRows(o)
             t == [Table(o.def + 1, {}, 1) EXCEPT !.delta = R]
             w == [mem EXCEPT ![n] = t]
  <2>1. Idle /\ IsTable(o) /\ Begin(FlushAll(w), SaveCatalog)
    BY <1>8 DEF Alter
  <2>2. TableOK(o) /\ o.def \in Nat /\ o # None /\ RowsOK(o, rows)
    BY <2>1 DEF IInv, MemInv, TableOK, IsTable, JInv, RowsInv
  <2>3. R \subseteq 1..rows
    BY <2>2, TableRowsAre
  <2> HIDE DEF R
  <2>4. /\ t # None /\ t.bad = FALSE /\ RowsOK(t, rows) /\ Decodes(Claims(t), dir[n])
        /\ TableOK(t) /\ Exact(t, dir[n]) /\ t.def = o.def + 1
    <3>1. o.def + 1 \in Nat /\ 1 \in Nat
      BY <2>2
    <3>2. IsNew(t, o.def + 1, R)
      BY <3>1, NewTable
    <3> HIDE DEF t
    <3> QED
      BY <1>1, <1>4, <2>3, <3>2
  <2> HIDE DEF t
  <2>5. MemOK(w)
    BY <1>1, <2>4, PutOK
  <2>6. Contents(t) # Contents(mem[n])
    <3>1. t.def # o.def
      BY <2>2, <2>4
    <3> QED
      BY <2>2, <2>4, <3>1, ContentsSome
  <2> HIDE DEF w
  <2> QED
    BY <1>2, <2>1, <2>4, <2>5, <2>6, SaveSafe DEF w
<1> QED
  BY <1>5, <1>6, <1>7, <1>8

\* DELETE of a row that no record can name, and a fold: one table is written.
LEMMA WriteOneSafe ==
  ASSUME NoneIsNothing, NoneIsNoRecord, IInv, JInv, NEW n \in Names, Fold(n) \/ \E S : DarkSweep(n, S)
  PROVE  JInv'
<1> DEFINE o == mem[n]
           t == Flush(o)
           q == <<[do |-> "table", n |-> n]>>
<1>1. PICK u : /\ Idle /\ IsTable(o) /\ Begin([mem EXCEPT ![n] = u], q)
               /\ u = t \/ \E S : u = Hide(t, S) /\ S # {} /\ S \subseteq TableRows(t)
  BY DEF Fold, DarkSweep
<1>2. TableOK(o) /\ Exact(o, dir[n]) /\ o # None /\ ~o.bad /\ rows \in Nat /\ RowsOK(o, rows) /\ o.bad \in BOOLEAN
  BY <1>1 DEF IInv, MemInv, IsTable, JInv, RowsInv
<1>3. /\ TableOK(t) /\ Exact(t, dir[n]) /\ t # None /\ t.bad = o.bad /\ t.delta = {} /\ RowsOK(t, rows)
      /\ Claims(t) = Claims(o) /\ TableRows(t) = TableRows(o)
      /\ \A T, F, R : Matches(o, T, F, R) /\ (\A f, g \in F : f.pid = g.pid => f = g) => Matches(t, T, F, R)
  BY <1>2, FlushOK, FlushKeeps
<1> HIDE DEF t
<1>4. /\ u # None /\ u.bad = o.bad /\ u.delta = {} /\ RowsOK(u, rows) /\ Claims(u) \subseteq Claims(o)
      /\ u = t \/ TableRows(u) # TableRows(o)
  <2>1. CASE u = t
    BY <1>3, <2>1
  <2>2. CASE \E S : u = Hide(t, S) /\ S # {} /\ S \subseteq TableRows(t)
    <3>1. PICK S : u = Hide(t, S) /\ S # {} /\ S \subseteq TableRows(t)
      BY <2>2
    <3>2. Hide(t, S) # None
      BY <1>3, HideOK
    <3>3. /\ Hide(t, S).bad = t.bad /\ Hide(t, S).delta = t.delta /\ Claims(Hide(t, S)) \subseteq Claims(t)
          /\ RowsOK(Hide(t, S), rows) /\ TableRows(Hide(t, S)) # TableRows(t)
      BY <1>3, <3>1, HideHides
    <3> QED
      BY <1>3, <3>1, <3>2, <3>3
  <2> QED
    BY <1>1, <2>1, <2>2
<1>5. n \notin lost => Decodes(Claims(o), dir[n]) /\ MatchesIn(o, dir[n].table, dir[n], log[n]) /\ DirOK(dir[n])
  BY <1>1, <1>2, IdleFacts
<1>6. n \notin lost => MatchesIn(u, dir[n].table, dir[n], log[n]) \/ Contents(u) # Contents(o)
  <2>1. CASE u # t
    BY <1>2, <1>4, <2>1, ContentsSome
  <2>2. CASE u = t /\ n \notin lost
    <3> DEFINE T == dir[n].table
    <3>1. T # None /\ Matches(o, T, Named(dir[n], T), Suffix(log[n], T.wc)) /\ DirOK(dir[n])
      BY <1>5, <2>2 DEF MatchesIn
    <3>2. \A f, g \in Named(dir[n], T) : f.pid = g.pid => f = g
      BY <3>1, NamedOnce
    <3> HIDE DEF T, o
    <3>3. Matches(u, T, Named(dir[n], T), Suffix(log[n], T.wc))
      BY <1>3, <2>2, <3>1, <3>2
    <3> QED
      BY <3>1, <3>3 DEF MatchesIn, T
  <2> QED
    BY <2>1, <2>2
<1> DEFINE m == [mem EXCEPT ![n] = u]
<1>7. \A k \in Names : m[k] = IF k = n THEN u ELSE mem[k]
  BY DEF IInv, Shapes
<1>8. /\ q # <<>> /\ DOMAIN q = {1} /\ q[1] = [do |-> "table", n |-> n] /\ q[1].do = "table" /\ q[1].n = n
      /\ q[1].do \in Plain
  BY DEF Plain
<1>9. Begin(m, q)
  BY <1>1
<1> HIDE DEF m, q
<1>10. Due(q, n)
  <2>1. 1..(1 - 1) = {}
    OBVIOUS
  <2> QED
    BY <1>8, <2>1 DEF Due
<1>11. Flushed(q, m) /\ ~Moves(q)
  BY <1>4, <1>7, <1>8, PlainFlushed
<1>12. \A k \in Names : m[k] # None => RowsOK(m[k], rows) /\ m[k].bad \in BOOLEAN
  BY <1>2, <1>4, <1>7 DEF JInv, RowsInv
<1>13. \A k \in Names \ {n} : (m[k] = None <=> mem[k] = None) /\ Contents(m[k]) = Contents(mem[k])
  BY <1>7
<1>14. m[n] = None <=> mem[n] = None
  BY <1>2, <1>4, <1>7
<1>15. \A k \in Names \ lost : m[k] # None => ~m[k].bad /\ Decodes(Claims(m[k]), dir[k])
  <2> SUFFICES ASSUME NEW k \in Names \ lost, m[k] # None PROVE ~m[k].bad /\ Decodes(Claims(m[k]), dir[k])
    OBVIOUS
  <2>1. CASE k = n
    BY <1>2, <1>4, <1>5, <1>7, <2>1 DEF Decodes
  <2>2. CASE k # n
    BY <1>1, <1>7, <2>2, IdleFacts
  <2> QED
    BY <2>1, <2>2
<1>16. \A k \in Names \ lost : m[k] # None =>
         \/ MatchesIn(m[k], dir[k].table, dir[k], log[k])
         \/ k = n /\ Contents(m[k]) # Contents(mem[k]) /\ Due(q, k)
  <2> SUFFICES ASSUME NEW k \in Names \ lost, m[k] # None
               PROVE  \/ MatchesIn(m[k], dir[k].table, dir[k], log[k])
                      \/ k = n /\ Contents(m[k]) # Contents(mem[k]) /\ Due(q, k)
    OBVIOUS
  <2>1. CASE k = n
    BY <1>6, <1>7, <1>10, <2>1
  <2>2. CASE k # n
    BY <1>1, <1>7, <2>2, IdleFacts
  <2> QED
    BY <2>1, <2>2
<1>17. q[1].do # "move"
  BY <1>8
<1> QED
  BY <1>1, <1>8, <1>9, <1>11, <1>12, <1>13, <1>14, <1>15, <1>16, <1>17, BeginSafe

\* The list of a RENAME: a checkpoint, the move, and a checkpoint after it.
LEMMA RenameOrder ==
  ASSUME NEW a \in Names, NEW b \in Names, NEW m, \A n \in Names : IsTable(m[n]) => m[n].delta = {}, m[a].delta = {},
         NEW q, q = (SaveCatalog \o <<[do |-> "link", from |-> a, to |-> b], [do |-> "move", from |-> a, to |-> b]>>)
                      \o SaveCatalog
  PROVE  q # <<>> /\ q[1].do # "move" /\ Flushed(q, m)
<1> DEFINE link == [do |-> "link", from |-> a, to |-> b]
           move == [do |-> "move", from |-> a, to |-> b]
           s == SaveCatalog
           k == Len(s)
           p == <<link, move>>
           u == s \o p
<1>1. /\ link \in Steps /\ link.do = "link" /\ link.from = a
      /\ move \in Steps /\ move.do = "move" /\ move.from = a
  BY DEF Steps
<1>2. s \in Seq(Steps) /\ k \in Nat /\ k > 0 /\ \A i \in 1..k : s[i].do \in Plain
  BY SaveCatalogSteps
<1>3. CatalogFrom(s, 1)
  BY SaveOrder
<1> HIDE DEF link, move, s
<1>4. p \in Seq(Steps) /\ Len(p) = 2 /\ p[1] = link /\ p[2] = move
  BY <1>1
<1>5. q = u \o s
  BY DEF link, move, s
<1> HIDE DEF p
<1>6. u \in Seq(Steps) /\ Len(u) = k + 2 /\ \A i \in 1..(k + 2) : u[i] = IF i <= k THEN s[i] ELSE p[i - k]
  <2>1. /\ s \o p \in Seq(Steps) /\ Len(s \o p) = Len(s) + Len(p)
        /\ \A i \in 1..(Len(s) + Len(p)) : (s \o p)[i] = IF i <= Len(s) THEN s[i] ELSE p[i - Len(s)]
    BY ONLY <1>2, <1>4, ConcatProperties
  <2> QED
    BY ONLY <1>4, <2>1
<1> HIDE DEF u
<1>7. q \in Seq(Steps) /\ Len(q) = (k + 2) + k /\ \A i \in 1..((k + 2) + k) : q[i] = IF i <= k + 2 THEN u[i] ELSE s[i - (k + 2)]
  <2>1. /\ u \o s \in Seq(Steps) /\ Len(u \o s) = Len(u) + Len(s)
        /\ \A i \in 1..(Len(u) + Len(s)) : (u \o s)[i] = IF i <= Len(u) THEN u[i] ELSE s[i - Len(u)]
    BY ONLY <1>2, <1>6, ConcatProperties
  <2> QED
    BY ONLY <1>5, <1>6, <2>1
<1> HIDE DEF k
<1>8. DOMAIN q = 1..((k + 2) + k) /\ q # <<>>
  BY <1>2, <1>7
<1>9. ASSUME NEW i \in 1..k PROVE q[i] = s[i] /\ i + (k + 2) \in 1..((k + 2) + k) /\ q[i + (k + 2)] = s[i]
  <2>1. /\ i \in 1..((k + 2) + k) /\ i <= k + 2 /\ i \in 1..(k + 2) /\ i <= k
        /\ i + (k + 2) \in 1..((k + 2) + k) /\ ~(i + (k + 2) <= k + 2) /\ (i + (k + 2)) - (k + 2) = i
    BY <1>2
  <2>2. q[i] = u[i] /\ u[i] = s[i]
    BY <1>6, <1>7, <2>1
  <2>3. q[i + (k + 2)] = s[(i + (k + 2)) - (k + 2)]
    BY <1>7, <2>1
  <2> QED
    BY <2>1, <2>2, <2>3
<1>10. q[k + 1] = link /\ q[k + 2] = move
  <2>1. /\ k + 1 \in 1..((k + 2) + k) /\ k + 1 <= k + 2 /\ k + 1 \in 1..(k + 2) /\ ~(k + 1 <= k) /\ (k + 1) - k = 1
        /\ k + 2 \in 1..((k + 2) + k) /\ k + 2 <= k + 2 /\ k + 2 \in 1..(k + 2) /\ ~(k + 2 <= k) /\ (k + 2) - k = 2
    BY <1>2
  <2> QED
    BY <1>4, <1>6, <1>7, <2>1
<1>11. ASSUME NEW i \in DOMAIN q PROVE q[i].do \in Plain \/ i = k + 1 \/ i = k + 2
  <2>1. i \in 1..k \/ i = k + 1 \/ i = k + 2 \/ (i - (k + 2) \in 1..k /\ (i - (k + 2)) + (k + 2) = i)
    BY <1>2, <1>8
  <2> QED
    BY <1>2, <1>9, <2>1
<1>12. q[1].do # "move"
  <2>1. 1 \in 1..k
    BY <1>2
  <2>2. q[1].do \in Plain
    BY <1>2, <1>9, <2>1
  <2> QED
    BY <2>2 DEF Plain
<1>13. CatalogFrom(q, (k + 2) + 1)
  <2>1. PICK i \in DOMAIN s : s[i].do = "catalog" /\ \A j \in 1..(i - 1) : s[j].do = "table"
    BY <1>3 DEF CatalogFrom
  <2>2. i \in 1..k
    BY <1>2, <2>1 DEF k
  <2>3. i + (k + 2) \in DOMAIN q /\ i + (k + 2) >= (k + 2) + 1 /\ q[i + (k + 2)].do = "catalog"
    BY <1>2, <1>8, <1>9, <2>1, <2>2
  <2>4. ASSUME NEW j \in ((k + 2) + 1)..((i + (k + 2)) - 1) PROVE q[j].do = "table"
    <3>1. j - (k + 2) \in 1..(i - 1) /\ j - (k + 2) \in 1..k /\ (j - (k + 2)) + (k + 2) = j
      BY <1>2, <2>2
    <3>2. q[j] = s[j - (k + 2)]
      BY <1>9, <3>1
    <3> QED
      BY <2>1, <3>1, <3>2
  <2> QED
    BY <2>3, <2>4 DEF CatalogFrom
<1>14. ASSUME NEW i \in DOMAIN q
       PROVE  /\ q[i].do = "table" /\ IsTable(m[q[i].n]) => m[q[i].n].delta = {}
              /\ q[i].do \in {"link", "move"} => m[q[i].from].delta = {}
              /\ q[i].do = "move" => CatalogFrom(q, i + 1)
  <2>1. CASE q[i].do \in Plain
    <3>1. q[i] \in Steps
      BY <1>7
    <3>2. q[i].do = "table" => q[i].n \in Names
      BY <3>1 DEF Steps
    <3>3. q[i].do \notin {"link", "move"} /\ q[i].do # "move"
      BY <2>1 DEF Plain
    <3> QED
      BY <3>2, <3>3
  <2>2. CASE i = k + 1
    BY <1>1, <1>10, <2>2
  <2>3. CASE i = k + 2
    BY <1>1, <1>10, <1>13, <2>3
  <2> QED
    BY <1>11, <2>1, <2>2, <2>3
<1> QED
  BY <1>8, <1>12, <1>14 DEF Flushed

\* RENAME, up to its checkpoint.
LEMMA RenameSafe ==
  ASSUME NoneIsNothing, NoneIsNoRecord, IInv, JInv, NEW a \in Names, NEW b \in Names, Rename(a, b)
  PROVE  JInv'
<1> DEFINE q == (SaveCatalog \o <<[do |-> "link", from |-> a, to |-> b], [do |-> "move", from |-> a, to |-> b]>>)
                  \o SaveCatalog
           m == FlushAll(mem)
<1>1. Idle /\ IsTable(mem[a]) /\ Begin(m, q)
  BY DEF Rename
<1>2. MemOK(mem) /\ rows \in Nat
  BY MemIsOK DEF JInv, RowsInv
<1>3. \A n \in Names : mem[n] # None => RowsOK(mem[n], rows) /\ mem[n].bad \in BOOLEAN
  BY DEF JInv, RowsInv
<1>4. ASSUME NEW n \in Names
      PROVE  /\ m[n] = None <=> mem[n] = None
             /\ Contents(m[n]) = Contents(mem[n])
             /\ mem[n] # None => m[n].bad = mem[n].bad /\ RowsOK(m[n], rows) /\ Claims(m[n]) = Claims(mem[n])
             /\ IsTable(m[n]) => m[n].delta = {}
             /\ \A d, l : mem[n] # None /\ DirOK(d) /\ MatchesIn(mem[n], d.table, d, l) => MatchesIn(m[n], d.table, d, l)
  BY <1>2, <1>3, FlushAllKeeps
<1>5. IsTable(m[a])
  BY <1>1, <1>2, FlushAllOK
<1> HIDE DEF m
<1>6. q # <<>> /\ q[1].do # "move" /\ Flushed(q, m)
  BY <1>4, <1>5, RenameOrder
<1> HIDE DEF q
<1>7. View(m) = acked
  <2>1. acked = View(mem)
    BY <1>1, IdleFacts
  <2> QED
    BY <1>4, <2>1 DEF View
<1>8. \A n \in Names : m[n] # None => RowsOK(m[n], rows) /\ m[n].bad \in BOOLEAN
  BY <1>3, <1>4
<1>9. \A n \in Names : (m[n] = None <=> mem[n] = None) /\ Contents(m[n]) = Contents(mem[n])
  BY <1>4
<1>10. ASSUME NEW n \in Names \ lost, m[n] # None
       PROVE  ~m[n].bad /\ Decodes(Claims(m[n]), dir[n]) /\ MatchesIn(m[n], dir[n].table, dir[n], log[n])
  <2>1. mem[n] # None
    BY <1>4, <1>10
  <2>2. /\ ~mem[n].bad /\ Decodes(Claims(mem[n]), dir[n]) /\ MatchesIn(mem[n], dir[n].table, dir[n], log[n])
        /\ DirOK(dir[n])
    BY <1>1, <2>1, IdleFacts
  <2> QED
    BY <1>4, <2>1, <2>2
<1> QED
  BY <1>1, <1>6, <1>7, <1>8, <1>9, <1>10, BeginSafe

-----------------------------------------------------------------------------
(* Writing a table.                                                         *)

\* A step of the table n being written: what n's directory may become.
LEMMA WriteSafe ==
  ASSUME IInv, JInv, UNCHANGED <<mem, log, cat, catOld, todo, acked, want, lost, rows>>,
         NEW n \in Names, NEW d, dir' = [dir EXCEPT ![n] = d], at'.n = n,
         at'.pc \in {"parts", "commit", "sync", "claim"}, todo # <<>>, todo[1] = [do |-> "table", n |-> n],
         FileRowsOK(d, rows), \A T \in {d.table} \cup d.old : T # None => T.wc <= Len(log[n]),
         at'.wc = Len(log[n]), at'.pc \in {"sync", "claim"} => d.table = TableDoc(mem[n].def, at'.names, at'.wc),
         n \notin lost => Decodes(Claims(mem[n]), d) /\ Decodes(at'.names, d),
         n \notin lost => \/ MatchesIn(mem[n], d.table, d, log[n])
                          \/ Stale(n) /\ at'.pc \notin {"sync", "claim"},
         n \notin lost => \A T \in {d.table} \cup d.old :
                            \/ T \in Records(n) /\ (T # None => FoundIn(T, d, log[n]) = FoundIn(T, dir[n], log[n]))
                            \/ T # None /\ FoundIn(T, d, log[n]) = want[n]
  PROVE  JInv'
<1>1. \A k \in Names : dir'[k] = IF k = n THEN d ELSE dir[k]
  BY DEF IInv, Shapes
<1>2. Rosters' = Rosters /\ \A k \in Names : Records(k)' = IF k = n THEN {d.table} \cup d.old ELSE Records(k)
  BY <1>1 DEF Rosters, Records
<1>3. RowsInv'
  BY <1>1 DEF JInv, RowsInv
<1>4. CoverInv'
  <2>1. \A k \in Names : \A T \in Records(k)' : T # None => T.wc <= Len(log[k])
    BY <1>2 DEF JInv, CoverInv
  <2>2. at'.pc \in {"sync", "claim"} => dir'[at'.n].table = TableDoc(mem[at'.n].def, at'.names, at'.wc)
    BY <1>1
  <2> QED
    BY <2>1, <2>2 DEF CoverInv
<1>5. StmtInv'
  BY DEF JInv, StmtInv, Idle
<1>6. KeptInv'
  <2>1. SUFFICES ASSUME NEW k \in Names \ lost, mem[k] # None
                 PROVE  /\ ~mem[k].bad /\ Decodes(Claims(mem[k]), dir'[k])
                        /\ MatchesIn(mem[k], dir'[k].table, dir'[k], log[k]) \/ Stale(k)'
    BY DEF KeptInv
  <2>2. /\ ~mem[k].bad /\ Decodes(Claims(mem[k]), dir[k])
        /\ MatchesIn(mem[k], dir[k].table, dir[k], log[k]) \/ Stale(k)
    BY <2>1 DEF JInv, KeptInv
  <2>3. CASE k = n
    <3>1. dir'[k] = d /\ Decodes(Claims(mem[k]), d)
      BY <1>1, <2>3
    <3>2. Stale(n) /\ at'.pc \notin {"sync", "claim"} => Stale(n)'
      BY DEF Stale
    <3> QED
      BY <2>2, <2>3, <3>1, <3>2
  <2>4. CASE k # n
    <3>1. dir'[k] = dir[k]
      BY <1>1, <2>4
    <3>2. Stale(k) => Stale(k)'
      BY <2>4 DEF Stale
    <3> QED
      BY <2>2, <3>1, <3>2
  <2> QED
    BY <2>3, <2>4
<1>7. NamesInv'
  BY <1>1 DEF NamesInv
<1>8. GivesInv'
  <2>1. SUFFICES ASSUME NEW r \in Rosters, NEW k \in Names \ lost PROVE Gives(r, k)'
    BY <1>2 DEF GivesInv
  <2>2. Gives(r, k)
    BY DEF JInv, GivesInv
  <2>3. CASE r[k] = None
    BY <2>2, <2>3 DEF Gives
  <2>4. CASE r[k] # None /\ k # n
    <3>1. dir'[k] = dir[k] /\ Records(k)' = Records(k)
      BY <1>1, <1>2, <2>4
    <3>2. \A T \in Records(k) : T # None /\ FoundIn(T, dir[k], log[k]) \in {acked[k], want[k]}
      BY <2>2, <2>4 DEF Gives
    <3> QED
      BY <2>4, <3>1, <3>2 DEF Gives
  <2>5. CASE r[k] # None /\ k = n
    <3>1. dir'[n] = d /\ Records(n)' = {d.table} \cup d.old
      BY <1>1, <1>2
    <3>2. \A T \in Records(n) : T # None /\ FoundIn(T, dir[n], log[n]) \in {acked[n], want[n]}
      BY <2>2, <2>5 DEF Gives
    <3>3. \A T \in {d.table} \cup d.old : T # None /\ FoundIn(T, d, log[n]) \in {acked[n], want[n]}
      BY <2>5, <3>2
    <3> QED
      BY <2>5, <3>1, <3>3 DEF Gives
  <2> QED
    BY <2>3, <2>4, <2>5
<1>9. MovedInv'
  BY <1>2 DEF JInv, MovedInv
<1>10. ListedInv'
  BY <1>2 DEF JInv, ListedInv, Listed
<1>11. LinkedInv'
  BY DEF LinkedInv
<1>12. SoundInv'
  BY DEF JInv, SoundInv
<1> QED
  BY <1>3, <1>4, <1>5, <1>6, <1>7, <1>8, <1>9, <1>10, <1>11, <1>12 DEF JInv

\* What a directory gives for a record depends on the files it names.
LEMMA SameNamed ==
  ASSUME NEW d, NEW e, NEW T, Named(e, T) = Named(d, T)
  PROVE  \A l : FoundIn(T, e, l) = FoundIn(T, d, l) /\ \A t : MatchesIn(t, T, e, l) <=> MatchesIn(t, T, d, l)
  BY DEF FoundIn, MatchesIn

\* The facts about the table being written that its steps use.
LEMMA AtWrite ==
  ASSUME IInv, JInv, Writing
  PROVE  LET n == at.n
         IN /\ n \in Names /\ IsTable(mem[n]) /\ TableOK(mem[n]) /\ Exact(mem[n], dir[n]) /\ DirOK(dir[n])
            /\ WriteOK(at, dir[n], mem[n]) /\ todo # <<>> /\ todo[1] = [do |-> "table", n |-> n]
            /\ at.wc = Len(log[n]) /\ mem[n].delta = {} /\ want[n] = Contents(mem[n]) /\ mem[n] # None
            /\ RowsOK(mem[n], rows) /\ FileRowsOK(dir[n], rows) /\ IsSeq(log[n]) /\ mem[n].bad \in BOOLEAN
            /\ \A T \in Records(n) : T # None => T.wc <= Len(log[n])
            /\ n \notin lost => /\ Decodes(Claims(mem[n]), dir[n]) /\ Decodes(at.names, dir[n])
                                /\ MatchesIn(mem[n], dir[n].table, dir[n], log[n]) \/ Stale(n)
<1> DEFINE n == at.n
<1>1. /\ n \in Names /\ IsTable(mem[n]) /\ TableOK(mem[n]) /\ Exact(mem[n], dir[n]) /\ DirOK(dir[n])
      /\ WriteOK(at, dir[n], mem[n]) /\ todo # <<>> /\ todo[1] = [do |-> "table", n |-> n]
  BY WritingFacts
<1>2. at.wc = Len(log[n])
  BY DEF JInv, CoverInv
<1>3. mem[n].delta = {}
  <2>1. 1 \in DOMAIN todo
    BY <1>1 DEF IInv, TodoInv
  <2>2. todo[1].do = "table" /\ todo[1].n = n
    BY <1>1
  <2> QED
    BY <1>1, <2>1, <2>2 DEF JInv, StmtInv, Flushed
<1>4. want[n] = Contents(mem[n])
  BY <1>1 DEF JInv, StmtInv, View
<1>5. mem[n] # None /\ RowsOK(mem[n], rows) /\ FileRowsOK(dir[n], rows) /\ mem[n].bad \in BOOLEAN
  BY <1>1 DEF JInv, RowsInv, IsTable
<1>6. IsSeq(log[n])
  BY <1>1 DEF IInv, Shapes
<1>7. \A T \in Records(n) : T # None => T.wc <= Len(log[n])
  BY <1>1 DEF JInv, CoverInv
<1>8. n \notin lost => /\ Decodes(Claims(mem[n]), dir[n]) /\ Decodes(at.names, dir[n])
                       /\ MatchesIn(mem[n], dir[n].table, dir[n], log[n]) \/ Stale(n)
  BY <1>1, <1>5 DEF JInv, KeptInv, NamesInv
<1> QED
  BY <1>1, <1>2, <1>3, <1>4, <1>5, <1>6, <1>7, <1>8

\* write_table begins.
LEMMA StartWriteSafe ==
  ASSUME IInv, JInv, StartTable, IsTable(mem[todo[1].n])
  PROVE  JInv'
<1> DEFINE n == todo[1].n
           reused == {p \in mem[n].parts : p.seq \in Seqs(dir[n])}
<1>1. /\ todo # <<>> /\ todo[1].do = "table" /\ at.pc = "none"
      /\ UNCHANGED <<mem, log, dir, cat, catOld, todo, acked, want, lost, rows>>
      /\ at'.pc = "parts" /\ at'.n = n /\ at'.wc = Len(log[n]) /\ at'.names = {p.seq : p \in reused}
  <2>1. todo # <<>> /\ todo[1].do = "table" /\ at.pc = "none" /\ UNCHANGED <<mem, log, dir, cat, catOld, want, lost, rows>>
    BY DEF StartTable, Idle, Step, counters
  <2>2. /\ at' = [pc |-> "parts", n |-> n, wc |-> Len(log[n]), next |-> NextSeq(n), onDisk |-> Seqs(dir[n]),
                  names |-> {p.seq : p \in reused}, left |-> mem[n].parts \ reused, claims |-> {}]
        /\ UNCHANGED <<todo, acked>>
    BY Zenon DEF StartTable, Step
  <2> HIDE DEF reused, n
  <2> QED
    BY <2>1, <2>2
<1>2. n \in Names /\ todo[1] = [do |-> "table", n |-> n]
  <2>1. todo[1] \in Steps
    BY <1>1 DEF IInv, TodoInv
  <2> QED
    BY <1>1, <2>1 DEF Steps
<1>3. DirOK(dir[n]) /\ mem[n] # None
  <2>1. DirOK(dir[n])
    BY <1>2 DEF IInv, DirInv
  <2>2. IsTable(mem[n])
    OBVIOUS
  <2> HIDE DEF n
  <2> QED
    BY <2>1, <2>2 DEF IsTable
<1>4. at'.names \subseteq Claims(mem[n])
  <2>1. \A s \in Seqs(dir[n]) : s # NoFile
    BY <1>3 DEF Seqs, DirOK, FilesOK, IsFile, NoFile
  <2> QED
    BY <1>1, <2>1 DEF Claims
<1>5. n \notin lost => /\ Decodes(Claims(mem[n]), dir[n])
                       /\ MatchesIn(mem[n], dir[n].table, dir[n], log[n]) \/ Stale(n)
  BY <1>2, <1>3 DEF JInv, KeptInv
<1>6. n \notin lost => Decodes(at'.names, dir[n])
  BY <1>4, <1>5 DEF Decodes
<1>7. FileRowsOK(dir[n], rows) /\ \A T \in {dir[n].table} \cup dir[n].old : T # None => T.wc <= Len(log[n])
  BY <1>2 DEF JInv, RowsInv, CoverInv, Records
<1>8. dir' = [dir EXCEPT ![n] = dir[n]]
  BY <1>1 DEF IInv, Shapes
<1>9. \A T \in {dir[n].table} \cup dir[n].old : T \in Records(n)
  BY DEF Records
<1> HIDE DEF n
<1> QED
  BY <1>1, <1>2, <1>5, <1>6, <1>7, <1>8, <1>9, WriteSafe

\* A part file appears under a number nothing names.
LEMMA PublishPartSafe ==
  ASSUME IInv, JInv, PublishPart
  PROVE  JInv'
<1> DEFINE n == at.n
           t == mem[n]
           e == dir[n]
<1>1. at.pc = "parts" /\ at.left # {} /\ Writing /\ UNCHANGED <<mem, log, cat, catOld, todo, acked, want, lost, rows>>
  BY DEF PublishPart, Writing, counters
<1>2. /\ n \in Names /\ TableOK(t) /\ DirOK(e) /\ WriteOK(at, e, t) /\ todo # <<>> /\ todo[1] = [do |-> "table", n |-> n]
      /\ at.wc = Len(log[n]) /\ RowsOK(t, rows) /\ FileRowsOK(e, rows)
      /\ \A T \in Records(n) : T # None => T.wc <= Len(log[n])
      /\ n \notin lost => /\ Decodes(Claims(t), e) /\ Decodes(at.names, e)
                          /\ MatchesIn(t, e.table, e, log[n]) \/ Stale(n)
  BY <1>1, AtWrite
<1> DEFINE p == CHOOSE q \in at.left : \A r \in at.left : q.pid <= r.pid
           f == PartFile(p, at.next)
           d == [e EXCEPT !.files = e.files \cup {f}, !.fresh = e.fresh \cup {f.seq}]
<1>3. /\ dir' = [dir EXCEPT ![n] = d]
      /\ at'.pc = at.pc /\ at'.n = at.n /\ at'.wc = at.wc /\ at'.names = at.names \cup {f.seq}
  <2>1. dir = [k \in Names |-> dir[k]]
    BY DEF IInv, Shapes
  <2>2. DOMAIN at = {"pc", "n", "wc", "next", "onDisk", "names", "left", "claims"}
    BY <1>2 DEF WriteOK
  <2>3. DOMAIN e = {"files", "table", "fresh", "old"}
    BY <1>2 DEF DirOK
  <2>4. /\ dir' = [dir EXCEPT ![n].files = @ \cup {f}, ![n].fresh = @ \cup {f.seq}]
        /\ at' = [at EXCEPT !.next = @ + 1, !.left = @ \ {p}, !.names = @ \cup {f.seq},
                            !.claims = @ \cup {[pid |-> p.pid, seq |-> f.seq]}]
    BY DEF PublishPart
  <2> HIDE DEF f, p
  <2> QED
    BY <2>1, <2>2, <2>3, <2>4
<1>4. d.files = e.files \cup {f} /\ d.table = e.table /\ d.old = e.old
  <2>1. DOMAIN e = {"files", "table", "fresh", "old"}
    BY <1>2 DEF DirOK
  <2> HIDE DEF f, e
  <2> QED
    BY <2>1
<1>5. p \in t.parts
  <2>1. at.left \subseteq t.parts /\ \A q \in at.left : q.pid \in Nat
    BY <1>2 DEF WriteOK, TableOK, IsPart
  <2>2. \E q \in at.left : \A r \in at.left : q.pid <= r.pid
    BY <1>1, <2>1, LeastPart
  <2> QED
    BY <2>1, <2>2
<1>6. f.seq = at.next /\ f.ok = TRUE /\ f.rows = p.rows
  BY DEF PartFile
<1> HIDE DEF p, f, d
<1>7. FileRowsOK(d, rows)
  BY <1>2, <1>4, <1>5, <1>6 DEF FileRowsOK, RowsOK
<1>8. ASSUME NEW T \in Records(n), T # None PROVE Named(d, T) = Named(e, T)
  <2>1. \A s \in T.files : \E g \in e.files : g.seq = s
    BY <1>2, <1>8 DEF DirOK, RecordOK, Seqs, Records
  <2>2. \A g \in e.files : g.seq < at.next /\ g.seq \in Nat
    BY <1>2 DEF WriteOK, DirOK, FilesOK, IsFile
  <2>3. f.seq \notin T.files
    <3>1. at.next \in Nat
      BY <1>2 DEF WriteOK
    <3> QED
      BY <1>6, <2>1, <2>2, <3>1
  <2> QED
    BY <1>4, <2>3 DEF Named
<1>9. n \notin lost => Decodes(Claims(t), d) /\ Decodes(at'.names, d)
  <2>1. \A S : Decodes(S, e) => Decodes(S, d)
    BY <1>4 DEF Decodes
  <2>2. n \notin lost => Decodes(at.names, d)
    BY <1>2, <2>1
  <2>3. n \notin lost => Decodes(at.names \cup {f.seq}, d)
    BY <1>4, <1>6, <2>2 DEF Decodes
  <2> QED
    BY <1>2, <1>3, <2>1, <2>3
<1>10. n \notin lost => MatchesIn(t, d.table, d, log[n]) \/ Stale(n)
  <2>1. MatchesIn(t, e.table, e, log[n]) => MatchesIn(t, d.table, d, log[n])
    <3>1. SUFFICES ASSUME MatchesIn(t, e.table, e, log[n]) PROVE MatchesIn(t, e.table, d, log[n])
      BY <1>4
    <3>2. e.table # None /\ e.table \in Records(n)
      BY <3>1 DEF MatchesIn, Records
    <3> HIDE DEF e, t
    <3> QED
      BY <1>8, <3>1, <3>2, SameNamed
  <2> QED
    BY <1>2, <2>1
<1>11. \A T \in {d.table} \cup d.old : T \in Records(n) /\ (T # None => FoundIn(T, d, log[n]) = FoundIn(T, dir[n], log[n]))
  <2>1. \A T \in {d.table} \cup d.old : T \in Records(n)
    BY <1>4 DEF Records
  <2> QED
    BY <1>8, <2>1, SameNamed
<1>12. \A T \in {d.table} \cup d.old : T # None => T.wc <= Len(log[n])
  BY <1>2, <1>11
<1> HIDE DEF n, t, e
<1> QED
  BY <1>1, <1>2, <1>3, <1>7, <1>9, <1>10, <1>11, <1>12, WriteSafe DEF n, t, e

\* A directory fsync, before the record is written or after.
LEMMA SyncSafe ==
  ASSUME IInv, JInv, SyncParts \/ SyncTable
  PROVE  JInv'
<1> DEFINE n == at.n
           t == mem[n]
           e == dir[n]
<1>1. PICK d : /\ UNCHANGED <<mem, log, cat, catOld, todo, acked, want, lost, rows>> /\ Writing
               /\ dir' = [dir EXCEPT ![n] = d] /\ (d = e \/ d = Synced(e))
  <2>1. CASE SyncParts
    BY <2>1 DEF SyncParts, Writing, counters
  <2>2. CASE SyncTable
    BY <2>2 DEF SyncTable, Writing, counters
  <2> QED
    BY <2>1, <2>2
<1>2. PICK pc : /\ at' = [at EXCEPT !.pc = pc]
                /\ (pc = "commit" /\ at.pc = "parts") \/ (pc = "claim" /\ at.pc = "sync")
  BY DEF SyncParts, SyncTable
<1>3. /\ n \in Names /\ DirOK(e) /\ WriteOK(at, e, t) /\ todo # <<>> /\ todo[1] = [do |-> "table", n |-> n]
      /\ at.wc = Len(log[n]) /\ FileRowsOK(e, rows)
      /\ \A T \in Records(n) : T # None => T.wc <= Len(log[n])
      /\ n \notin lost => /\ Decodes(Claims(t), e) /\ Decodes(at.names, e)
                          /\ MatchesIn(t, e.table, e, log[n]) \/ Stale(n)
  BY <1>1, AtWrite
<1>4. at'.pc = pc /\ at'.n = n /\ at'.wc = at.wc /\ at'.names = at.names
  <2>1. DOMAIN at = {"pc", "n", "wc", "next", "onDisk", "names", "left", "claims"}
    BY <1>3 DEF WriteOK
  <2> QED
    BY <1>2, <2>1
<1>5. d.files = e.files /\ d.table = e.table /\ d.old \subseteq e.old
  <2>1. DOMAIN e = {"files", "table", "fresh", "old"}
    BY <1>3 DEF DirOK
  <2> HIDE DEF e
  <2> QED
    BY <1>1, <2>1 DEF Synced
<1>6. \A T : Named(d, T) = Named(e, T)
  BY <1>5 DEF Named
<1>7. FileRowsOK(d, rows) /\ \A S : Decodes(S, e) => Decodes(S, d)
  BY <1>3, <1>5 DEF FileRowsOK, Decodes
<1>8. n \notin lost => \/ MatchesIn(t, d.table, d, log[n])
                       \/ Stale(n) /\ at'.pc \notin {"sync", "claim"}
  <2>1. MatchesIn(t, e.table, e, log[n]) => MatchesIn(t, d.table, d, log[n])
    BY <1>5, <1>6, SameNamed
  <2>2. at.pc = "sync" => ~Stale(n)
    BY DEF Stale
  <2> QED
    BY <1>2, <1>3, <1>4, <2>1, <2>2
<1>9. at'.pc \in {"sync", "claim"} => d.table = TableDoc(t.def, at'.names, at'.wc)
  <2>1. at.pc = "sync" => e.table = TableDoc(t.def, at.names, at.wc)
    BY DEF JInv, CoverInv
  <2> QED
    BY <1>2, <1>4, <1>5, <2>1
<1>10. \A T \in {d.table} \cup d.old : T \in Records(n) /\ FoundIn(T, d, log[n]) = FoundIn(T, dir[n], log[n])
  <2>1. \A T \in {d.table} \cup d.old : T \in Records(n)
    BY <1>5 DEF Records
  <2> QED
    BY <1>6, <2>1, SameNamed
<1>11. at'.pc \in {"parts", "commit", "sync", "claim"}
  BY <1>2, <1>4
<1>12. \A T \in {d.table} \cup d.old : T # None => T.wc <= Len(log[n])
  BY <1>3, <1>10
<1>13. n \notin lost => Decodes(Claims(t), d) /\ Decodes(at'.names, d)
  BY <1>3, <1>4, <1>7
<1> HIDE DEF n, t, e
<1> QED
  BY <1>1, <1>3, <1>4, <1>7, <1>8, <1>9, <1>10, <1>11, <1>12, <1>13, WriteSafe DEF n, t, e

\* The files named by the record that is written are the table's parts.
LEMMA WrittenHolds ==
  ASSUME NEW a, NEW d, NEW t, DirOK(d), Exact(t, d), WriteOK(a, d, t), a.left = {}
  PROVE  /\ \A p \in t.parts : \E f \in d.files : f.seq \in a.names /\ Holds(f, p)
         /\ \A f \in d.files : f.seq \in a.names => \E p \in t.parts : Holds(f, p)
<1>1. t.parts \ a.left = t.parts
  OBVIOUS
<1>2. /\ \A p \in t.parts : Placed(a, d, p)
      /\ \A s \in a.names : \E p \in t.parts : IF p.seq # NoFile THEN s = p.seq ELSE [pid |-> p.pid, seq |-> s] \in a.claims
      /\ \A c \in a.claims : c.seq \in a.names
      /\ \A b, c \in a.claims : b.pid = c.pid => b = c
  BY <1>1 DEF WriteOK
<1>3. \A f, g \in d.files : f.seq = g.seq => f = g
  BY DEF DirOK, FilesOK
<1>4. ASSUME NEW p \in t.parts PROVE \E f \in d.files : f.seq \in a.names /\ Holds(f, p)
  <2>1. CASE p.seq # NoFile
    BY <1>2, <2>1 DEF Placed, Exact
  <2>2. CASE p.seq = NoFile
    BY <1>2, <2>2 DEF Placed
  <2> QED
    BY <2>1, <2>2
<1>5. ASSUME NEW f \in d.files, f.seq \in a.names PROVE \E p \in t.parts : Holds(f, p)
  <2>1. PICK p \in t.parts : IF p.seq # NoFile THEN f.seq = p.seq ELSE [pid |-> p.pid, seq |-> f.seq] \in a.claims
    BY <1>2, <1>5
  <2>2. CASE p.seq # NoFile
    <3>1. PICK g \in d.files : g.seq = p.seq /\ Holds(g, p)
      BY <2>2 DEF Exact
    <3>2. g = f
      BY <1>3, <2>1, <2>2, <3>1
    <3> QED
      BY <3>1, <3>2
  <2>3. CASE p.seq = NoFile
    <3> DEFINE b == [pid |-> p.pid, seq |-> f.seq]
    <3>1. b \in a.claims /\ b.pid = p.pid /\ b.seq = f.seq
      BY <2>1, <2>3
    <3> HIDE DEF b
    <3>2. PICK c \in a.claims : c.pid = p.pid /\ \E g \in d.files : g.seq = c.seq /\ Holds(g, p)
      BY <1>2, <2>3 DEF Placed
    <3>3. c = b
      BY <1>2, <3>1, <3>2
    <3>4. PICK g \in d.files : g.seq = f.seq /\ Holds(g, p)
      BY <3>1, <3>2, <3>3
    <3>5. g = f
      BY <1>3, <3>4
    <3> QED
      BY <3>4, <3>5
  <2> QED
    BY <2>2, <2>3
<1> QED
  BY <1>4, <1>5

\* The rename of TABLE: the record is the table as it is.
LEMMA CommitTableSafe ==
  ASSUME NoneIsNoRecord, IInv, IInv', JInv, CommitTable
  PROVE  JInv'
<1> DEFINE n == at.n
           t == mem[n]
           e == dir[n]
           rec == TableDoc(t.def, at.names, at.wc)
           same == e.table = rec
           d == [e EXCEPT !.table = rec, !.old = IF same THEN e.old ELSE e.old \cup {e.table}]
<1>1. at.pc = "commit" /\ Writing /\ UNCHANGED <<mem, log, cat, catOld, todo, acked, want, lost, rows>>
  BY DEF CommitTable, Writing, counters
<1>2. /\ n \in Names /\ TableOK(t) /\ DirOK(e) /\ Exact(t, e) /\ WriteOK(at, e, t) /\ todo # <<>>
      /\ todo[1] = [do |-> "table", n |-> n] /\ IsTable(t) /\ t # None /\ t.bad \in BOOLEAN
      /\ at.wc = Len(log[n]) /\ FileRowsOK(e, rows) /\ t.delta = {} /\ want[n] = Contents(t) /\ IsSeq(log[n])
      /\ \A T \in Records(n) : T # None => T.wc <= Len(log[n])
      /\ n \notin lost => Decodes(Claims(t), e) /\ Decodes(at.names, e)
  BY <1>1, AtWrite
<1>3. /\ dir' = [dir EXCEPT ![n] = d] /\ at'.pc \in {"claim", "sync"} /\ at'.n = n /\ at'.wc = at.wc /\ at'.names = at.names
  <2>1. dir = [k \in Names |-> dir[k]]
    BY DEF IInv, Shapes
  <2>2. DOMAIN at = {"pc", "n", "wc", "next", "onDisk", "names", "left", "claims"}
    BY <1>2 DEF WriteOK
  <2>3. DOMAIN e = {"files", "table", "fresh", "old"}
    BY <1>2 DEF DirOK
  <2>4. /\ dir' = [dir EXCEPT ![n].table = rec, ![n].old = IF same THEN @ ELSE @ \cup {e.table}]
        /\ at' = [at EXCEPT !.pc = IF same THEN "claim" ELSE "sync"]
    BY DEF CommitTable
  <2> HIDE DEF rec
  <2> QED
    BY <2>1, <2>2, <2>3, <2>4
<1>4. d.files = e.files /\ d.table = rec /\ d.old \subseteq e.old \cup {e.table}
  <2>1. DOMAIN e = {"files", "table", "fresh", "old"}
    BY <1>2 DEF DirOK
  <2> HIDE DEF e, rec
  <2> QED
    BY <2>1
<1>5. rec.def = t.def /\ rec.files = at.names /\ rec.wc = at.wc
  BY DEF TableDoc
<1>6. DirOK(d)
  <2>1. DirOK(dir'[n])
    BY <1>2 DEF IInv, DirInv
  <2>2. dir'[n] = d
    BY <1>2, <1>3 DEF IInv, Shapes
  <2> QED
    BY <2>1, <2>2
<1> HIDE DEF rec, d
<1>7. rec # None
  <2>1. rec = [def |-> t.def, files |-> at.names, wc |-> at.wc]
    BY DEF rec, TableDoc
  <2> QED
    BY <2>1 DEF NoneIsNoRecord
<1>8. ASSUME n \notin lost PROVE MatchesIn(t, d.table, d, log[n])
  <2> DEFINE F == Named(d, rec)
  <2>1. \A s \in rec.files : \E f \in F : f.seq = s /\ f.ok
    BY <1>2, <1>4, <1>5, <1>8 DEF Decodes, Named
  <2>2. at.left = {}
    BY <1>1, <1>2 DEF WriteOK
  <2>3. (\A p \in t.parts : \E f \in F : Holds(f, p)) /\ (\A f \in F : \E p \in t.parts : Holds(f, p))
    <3>1. /\ \A p \in t.parts : \E f \in e.files : f.seq \in at.names /\ Holds(f, p)
          /\ \A f \in e.files : f.seq \in at.names => \E p \in t.parts : Holds(f, p)
      BY <1>2, <2>2, WrittenHolds
    <3> QED
      BY <1>4, <1>5, <3>1 DEF Named
  <2>4. \A p, q \in t.parts : p.pid = q.pid => p = q
    BY <1>2 DEF TableOK
  <2> HIDE DEF F
  <2>5. Matches(t, rec, F, {})
    <3> HIDE DEF t
    <3> QED
      BY <1>2, <1>5, <2>1, <2>3, <2>4, WrittenMatches
  <2>6. Suffix(log[n], rec.wc) = {}
    BY <1>2, <1>5, SuffixAtEnd
  <2> QED
    BY <1>4, <1>7, <2>5, <2>6 DEF MatchesIn, F
<1>9. ASSUME n \notin lost PROVE FoundIn(rec, d, log[n]) = want[n]
  <2>1. t.bad = FALSE
    BY <1>2 DEF IsTable
  <2>2. FoundIn(d.table, d, log[n]) = Contents(t)
    <3>1. DirOK(d) /\ t # None /\ MatchesIn(t, d.table, d, log[n])
      BY <1>2, <1>6, <1>8, <1>9
    <3> HIDE DEF t
    <3> QED
      BY ONLY <2>1, <3>1, MatchGives
  <2> QED
    BY <1>2, <1>4, <2>2
<1>10. n \notin lost => \A T \in {d.table} \cup d.old :
         \/ T \in Records(n) /\ (T # None => FoundIn(T, d, log[n]) = FoundIn(T, dir[n], log[n]))
         \/ T # None /\ FoundIn(T, d, log[n]) = want[n]
  <2>1. \A T \in {d.table} \cup d.old : T = rec \/ T \in Records(n)
    BY <1>4 DEF Records
  <2>2. \A T : Named(d, T) = Named(e, T)
    BY <1>4 DEF Named
  <2>3. \A T : FoundIn(T, d, log[n]) = FoundIn(T, dir[n], log[n])
    BY <2>2, SameNamed
  <2> QED
    BY <1>7, <1>9, <2>1, <2>3
<1>11. FileRowsOK(d, rows) /\ \A S : Decodes(S, e) => Decodes(S, d)
  BY <1>2, <1>4 DEF FileRowsOK, Decodes
<1>12. \A T \in {d.table} \cup d.old : T # None => T.wc <= Len(log[n])
  <2>1. \A T \in {d.table} \cup d.old : T = rec \/ T \in Records(n)
    BY <1>4 DEF Records
  <2>2. rec.wc <= Len(log[n])
    <3>1. Len(log[n]) \in Nat
      BY <1>2 DEF IsSeq
    <3> QED
      BY <1>2, <1>5, <3>1
  <2> QED
    BY <1>2, <2>1, <2>2
<1>13. n \notin lost => Decodes(Claims(t), d) /\ Decodes(at'.names, d)
  BY <1>2, <1>3, <1>11
<1>14. d.table = TableDoc(t.def, at'.names, at'.wc)
  BY <1>3, <1>4 DEF rec
<1> HIDE DEF n, t, e
<1> QED
  BY <1>1, <1>2, <1>3, <1>8, <1>10, <1>11, <1>12, <1>13, <1>14, WriteSafe DEF n, t, e

-----------------------------------------------------------------------------
(* Steps that end an entry of the list.                                     *)

\* A list that has been flushed stays so when only files are claimed.
LEMMA FlushedSame ==
  ASSUME NEW q \in Seq(Steps), NEW m, NEW w, Flushed(q, m), \A n \in Names : IsTable(w[n]) => IsTable(m[n]),
         \A n \in Names : w[n].delta = m[n].delta
  PROVE  Flushed(q, w)
<1>1. ASSUME NEW i \in DOMAIN q
      PROVE  /\ q[i].do = "table" => q[i].n \in Names
             /\ q[i].do \in {"link", "move"} => q[i].from \in Names
  <2>1. q[i] \in Steps
    OBVIOUS
  <2> QED
    BY <2>1 DEF Steps
<1> QED
  BY <1>1 DEF Flushed

\* The list loses its head: what was due is still, or has been done.
LEMMA ProceedSafe ==
  ASSUME NoneIsNoRecord, IInv, IInv', JInv, todo # <<>>, Proceed, UNCHANGED <<log, want, lost, rows, cat>>,
         catOld' \subseteq catOld, at'.pc = "none", RowsInv', LinkedInv',
         \A n \in Names : /\ Contents(mem'[n]) = Contents(mem[n]) /\ (mem'[n] = None <=> mem[n] = None)
                          /\ (IsTable(mem'[n]) <=> IsTable(mem[n])) /\ mem'[n].delta = mem[n].delta,
         \A n \in Names : \A T \in Records(n)' : T # None => T.wc <= Len(log[n]),
         \A n \in Names \ lost : mem'[n] # None => ~mem'[n].bad /\ Decodes(Claims(mem'[n]), dir'[n]),
         \A n \in Names \ lost : mem'[n] # None =>
           \/ MatchesIn(mem'[n], dir'[n].table, dir'[n], log[n])
           \/ acked[n] # want[n] /\ Due(todo, n) /\ todo[1] # [do |-> "table", n |-> n],
         \A r \in Rosters' : \A n \in Names \ lost :
           IF r[n] = None THEN acked[n] = None \/ want[n] = None
           ELSE \A T \in Records(n)' : T # None /\ FoundIn(T, dir'[n], log[n]) \in {acked[n], want[n]},
         \/ \A r \in Rosters' : \A n \in Names \ lost : r[n] = None <=> mem'[n] = None
         \/ CatalogFrom(todo, 1) /\ todo[1].do = "table"
  PROVE  JInv'
<1>1. /\ todo \in Seq(Steps) /\ Len(todo) \in Nat /\ Len(todo) > 0
      /\ Tail(todo) \in Seq(Steps) /\ Len(Tail(todo)) = Len(todo) - 1
  <2>1. todo \in Seq(Steps)
    BY DEF IInv, TodoInv
  <2> QED
    BY <2>1, TailIndex
<1>2. /\ todo' = Tail(todo) /\ acked' = IF Len(todo) = 1 THEN want ELSE acked
      /\ want = View(mem) /\ Flushed(todo, mem) /\ (Moves(todo) => acked = want)
  BY DEF Proceed, JInv, StmtInv
<1>3. Rosters' \subseteq Rosters
  BY DEF Rosters
<1>4. \A n \in Names : want[n] = Contents(mem'[n])
  BY <1>2 DEF View
<1>5. Len(todo) = 1 => todo' = <<>>
  BY <1>1, <1>2
<1>6. todo' = <<>> => Len(todo) = 1
  <2>1. PICK c \in Nat : c = Len(todo) /\ c - 1 = Len(todo')
    BY ONLY <1>1, <1>2
  <2>2. todo' = <<>> => Len(todo') = 0
    OBVIOUS
  <2>3. c - 1 = 0 => c = 1
    OBVIOUS
  <2> QED
    BY ONLY <2>1, <2>2, <2>3
<1>7. ASSUME NEW n, Due(todo, n), todo[1] # [do |-> "table", n |-> n]
      PROVE  Due(todo', n) /\ Len(todo) # 1
  <2>1. Due(todo', n)
    BY <1>1, <1>2, <1>7, DueTail
  <2>2. todo' # <<>>
    BY <2>1 DEF Due
  <2> QED
    BY <1>5, <2>1, <2>2
<1>8. CoverInv'
  BY DEF CoverInv, Writing
<1>9. StmtInv'
  <2>1. Flushed(todo', mem) /\ (Moves(todo') => Moves(todo))
    BY <1>1, <1>2, FlushedTail
  <2>2. Flushed(todo', mem')
    <3>1. todo' \in Seq(Steps)
      BY <1>1, <1>2
    <3> QED
      BY <2>1, <3>1, FlushedSame
  <2>3. want' = View(mem')
    BY <1>2 DEF View
  <2>4. todo' = <<>> \/ Moves(todo') => acked' = want
    BY <1>2, <1>6, <2>1
  <2> QED
    BY <2>2, <2>3, <2>4 DEF StmtInv, Idle
<1>10. KeptInv'
  <2>1. SUFFICES ASSUME NEW n \in Names \ lost, mem'[n] # None,
                        acked[n] # want[n], Due(todo, n), todo[1] # [do |-> "table", n |-> n]
                 PROVE  Stale(n)'
    BY DEF KeptInv
  <2>2. Due(todo', n) /\ acked' = acked
    BY <1>2, <1>7, <2>1
  <2> QED
    BY <2>1, <2>2 DEF Stale
<1>11. NamesInv'
  BY DEF NamesInv, Writing
<1>12. CASE Len(todo) # 1
  <2>1. acked' = acked
    BY <1>2, <1>12
  <2>2. GivesInv'
    BY <2>1 DEF GivesInv, Gives
  <2>3. MovedInv'
    BY <1>3, <2>1 DEF JInv, MovedInv
  <2>4. ListedInv'
    <3>1. CatalogFrom(todo, 1) /\ todo[1].do = "table" => CatalogFrom(todo', 1)
      BY <1>1, <1>2, CatalogTail
    <3> QED
      BY <3>1 DEF ListedInv, Listed
  <2>5. SoundInv'
    BY <2>1 DEF JInv, SoundInv
  <2> QED
    BY <1>8, <1>9, <1>10, <1>11, <2>2, <2>3, <2>4, <2>5 DEF JInv
<1>13. CASE Len(todo) = 1
  <2>1. acked' = want
    BY <1>2, <1>13
  <2>2. \A r \in Rosters' : \A n \in Names \ lost : r[n] = None <=> mem'[n] = None
    <3>1. CatalogFrom(todo, 1) => Len(todo) > 1 \/ todo[1].do = "catalog"
      BY <1>1, CatalogTail
    <3>2. ~(CatalogFrom(todo, 1) /\ todo[1].do = "table")
      BY <1>13, <3>1
    <3> QED
      BY <3>2
  <2>3. \A n \in Names \ lost : mem'[n] # None => MatchesIn(mem'[n], dir'[n].table, dir'[n], log[n])
    BY <1>7, <1>13
  <2>4. \A n \in Names : DirOK(dir'[n]) /\ Records(n)' = {dir'[n].table}
    BY DEF IInv, DirInv, Records
  <2>5. GivesInv'
    <3>1. SUFFICES ASSUME NEW r \in Rosters', NEW n \in Names \ lost PROVE Gives(r, n)'
      BY DEF GivesInv
    <3>2. CASE r[n] = None
      BY <1>4, <2>2, <3>2, ContentsSome DEF Gives
    <3>3. CASE r[n] # None
      <4>1. mem'[n] # None
        BY <2>2, <3>3
      <4>2. mem'[n].bad = FALSE
        BY <4>1 DEF RowsInv
      <4>3. DirOK(dir'[n]) /\ MatchesIn(mem'[n], dir'[n].table, dir'[n], log[n])
        BY <2>3, <2>4, <4>1
      <4>4. dir'[n].table # None /\ FoundIn(dir'[n].table, dir'[n], log[n]) = Contents(mem'[n])
        <5> DEFINE d == dir'[n]
                   t == mem'[n]
                   l == log[n]
        <5>1. DirOK(d) /\ t # None /\ t.bad = FALSE /\ MatchesIn(t, d.table, d, l)
          BY <4>1, <4>2, <4>3
        <5> HIDE DEF d, t, l
        <5>2. d.table # None /\ FoundIn(d.table, d, l) = Contents(t)
          BY ONLY <5>1, MatchGives
        <5> QED
          BY <5>2 DEF d, t, l
      <4> QED
        BY <1>4, <2>4, <3>3, <4>4 DEF Gives
    <3> QED
      BY <3>2, <3>3
  <2>6. MovedInv'
    BY <2>1 DEF MovedInv
  <2>7. ListedInv'
    BY <2>2 DEF ListedInv, Listed
  <2>8. SoundInv'
    <3>1. SUFFICES ASSUME NEW n \in Names \ lost, want[n] # None PROVE ~want[n].bad
      BY <2>1 DEF SoundInv
    <3> QED
      BY <1>4, <3>1, ContentsSome
  <2> QED
    BY <1>8, <1>9, <1>10, <1>11, <2>5, <2>6, <2>7, <2>8 DEF JInv
<1> QED
  BY <1>12, <1>13

\* A move comes only after its link.
LEMMA HeadNotMove ==
  ASSUME IInv, todo # <<>>, todo[1].do # "link"
  PROVE  Tail(todo) = <<>> \/ Tail(todo)[1].do # "move"
<1>1. todo \in Seq(Steps)
  BY DEF IInv, TodoInv
<1>2. /\ Len(todo) \in Nat /\ DOMAIN todo = 1..Len(todo) /\ Tail(todo) \in Seq(Steps)
      /\ Len(Tail(todo)) = Len(todo) - 1 /\ \A i \in 1..(Len(todo) - 1) : Tail(todo)[i] = todo[i + 1]
  BY <1>1, TailIndex
<1>3. SUFFICES ASSUME Tail(todo) # <<>>, Tail(todo)[1].do = "move" PROVE FALSE
  OBVIOUS
<1>4. Len(todo) - 1 >= 1
  <2>1. PICK q \in Seq(Steps) : q = Tail(todo)
    BY <1>2
  <2>2. Len(q) \in Nat /\ Len(q) # 0
    BY <1>3, <2>1, EmptySeq
  <2>3. Len(q) >= 1
    BY <2>2
  <2> QED
    BY <1>2, <2>1, <2>3
<1>5. 2 \in DOMAIN todo /\ todo[2].do = "move"
  BY <1>2, <1>3, <1>4
<1>6. todo[2 - 1].do = "link"
  BY <1>5 DEF IInv, TodoInv
<1> QED
  BY <1>6

\* An entry of the list that has nothing to write.
LEMMA PassSafe ==
  ASSUME NoneIsNoRecord, IInv, IInv', JInv, todo # <<>>, Proceed, UNCHANGED <<mem, log, dir, cat, want, lost, rows>>,
         catOld' \subseteq catOld, at.pc \in {"none", "root"}, at'.pc = "none", todo[1].do # "link",
         todo[1].do = "table" => ~IsTable(mem[todo[1].n]),
         todo[1].do = "table" \/ \A r \in Rosters' : \A n \in Names \ lost : r[n] = None <=> mem[n] = None
  PROVE  JInv'
<1>1. RowsInv'
  BY DEF JInv, RowsInv, FileRowsOK, LogRowsOK, RowsOK
<1>2. LinkedInv'
  <2>1. todo' = <<>> \/ todo'[1].do # "move"
    BY HeadNotMove DEF Proceed
  <2> QED
    BY <2>1 DEF LinkedInv
<1>3. Rosters' \subseteq Rosters /\ \A n \in Names : Records(n)' = Records(n)
  BY DEF Rosters, Records
<1>4. \A n \in Names : \A T \in Records(n)' : T # None => T.wc <= Len(log[n])
  BY <1>3 DEF JInv, CoverInv
<1>5. \A n \in Names \ lost : mem'[n] # None => ~mem'[n].bad /\ Decodes(Claims(mem'[n]), dir'[n])
  BY DEF JInv, KeptInv
<1>6. ASSUME NEW n \in Names \ lost, mem[n] # None
      PROVE  \/ MatchesIn(mem[n], dir[n].table, dir[n], log[n])
             \/ acked[n] # want[n] /\ Due(todo, n) /\ todo[1] # [do |-> "table", n |-> n]
  <2>1. MatchesIn(mem[n], dir[n].table, dir[n], log[n]) \/ Stale(n)
    BY <1>6 DEF JInv, KeptInv
  <2>2. todo[1] # [do |-> "table", n |-> n]
    <3>1. IsTable(mem[n])
      BY <1>6 DEF JInv, KeptInv, IsTable
    <3>2. SUFFICES ASSUME todo[1] = [do |-> "table", n |-> n] PROVE FALSE
      OBVIOUS
    <3>3. todo[1].do = "table" /\ todo[1].n = n
      BY <3>2
    <3> QED
      BY <3>1, <3>3
  <2> QED
    BY <2>1, <2>2 DEF Stale
<1>7. \A r \in Rosters' : \A n \in Names \ lost :
        IF r[n] = None THEN acked[n] = None \/ want[n] = None
        ELSE \A T \in Records(n)' : T # None /\ FoundIn(T, dir'[n], log[n]) \in {acked[n], want[n]}
  BY <1>3 DEF JInv, GivesInv, Gives
<1>8. \/ \A r \in Rosters' : \A n \in Names \ lost : r[n] = None <=> mem'[n] = None
      \/ CatalogFrom(todo, 1) /\ todo[1].do = "table"
  BY <1>3 DEF JInv, ListedInv, Listed
<1> QED
  BY <1>1, <1>2, <1>4, <1>5, <1>6, <1>7, <1>8, ProceedSafe

\* The steps that pass: a table that is gone, and a catalog that says so already.
LEMMA PassStepsSafe ==
  ASSUME NoneIsNothing, NoneIsNoRecord, IInv, IInv', JInv,
         \/ StartTable /\ ~IsTable(mem[todo[1].n])
         \/ CommitCatalog /\ cat = Roster(mem)
         \/ SyncCatalog
  PROVE  JInv'
<1>1. CASE StartTable /\ ~IsTable(mem[todo[1].n])
  <2>1. /\ todo # <<>> /\ todo[1].do = "table" /\ at.pc = "none" /\ at' = at /\ Proceed
        /\ UNCHANGED <<mem, log, dir, cat, catOld, want, lost, rows>>
    BY <1>1 DEF StartTable, Idle, Step, counters
  <2> QED
    BY <1>1, <2>1, PassSafe
<1>2. CASE CommitCatalog /\ cat = Roster(mem)
  <2>1. /\ todo # <<>> /\ todo[1].do = "catalog" /\ at.pc = "none" /\ at' = at /\ Proceed
        /\ UNCHANGED <<mem, log, dir, cat, catOld, want, lost, rows>>
    BY <1>2 DEF CommitCatalog, Idle, Step, counters
  <2>2. catOld = {}
    BY <2>1 DEF IInv, CatInv
  <2>3. \A n \in Names : mem[n] # None => mem[n].def # None
    BY DEF IInv, MemInv, TableOK, NoneIsNothing
  <2>4. \A n \in Names : cat[n] = None <=> mem[n] = None
    BY <1>2, <2>3 DEF Roster
  <2>5. \A r \in Rosters' : r = cat
    BY <2>1, <2>2 DEF Rosters
  <2>6. \A r \in Rosters' : \A n \in Names \ lost : r[n] = None <=> mem[n] = None
    BY <2>4, <2>5
  <2> QED
    BY <2>1, <2>6, PassSafe
<1>3. CASE SyncCatalog
  <2>1. /\ at.pc = "root" /\ at' = NotWriting /\ Proceed /\ catOld' = {}
        /\ UNCHANGED <<mem, log, dir, cat, want, lost, rows>>
    BY <1>3 DEF SyncCatalog, counters
  <2>2. todo # <<>> /\ todo[1].do = "catalog"
    BY <2>1 DEF IInv, Shapes
  <2>3. \A n \in Names \ lost : cat[n] = None <=> mem[n] = None
    BY <2>1 DEF JInv, ListedInv
  <2>4. \A r \in Rosters' : r = cat
    BY <2>1 DEF Rosters
  <2>5. \A r \in Rosters' : \A n \in Names \ lost : r[n] = None <=> mem[n] = None
    BY <2>3, <2>4
  <2>6. at'.pc = "none"
    BY <2>1 DEF NotWriting
  <2> QED
    BY <2>1, <2>2, <2>5, <2>6, PassSafe
<1> QED
  BY <1>1, <1>2, <1>3

\* The rename of CATALOG: memory has what it lists, and the old one is still
\* what it was.
LEMMA CommitCatalogSafe ==
  ASSUME NoneIsNothing, NoneIsNoRecord, IInv, IInv', JInv, CommitCatalog, cat # Roster(mem)
  PROVE  JInv'
<1>1. /\ todo # <<>> /\ todo[1].do = "catalog" /\ at.pc = "none" /\ at' = [pc |-> "root"] /\ cat' = Roster(mem)
      /\ catOld' = catOld \cup {cat} /\ UNCHANGED <<mem, log, dir, todo, acked, want, lost, rows>>
  BY DEF CommitCatalog, Idle, Step, counters
<1>2. at'.pc = "root"
  BY <1>1
<1>3. \A n \in Names : mem[n] # None => mem[n].def # None
  BY DEF IInv, MemInv, TableOK, NoneIsNothing
<1>4. \A n \in Names : cat'[n] = None <=> mem[n] = None
  BY <1>1, <1>3 DEF Roster
<1>5. Rosters' = Rosters \cup {cat'}
  BY <1>1 DEF Rosters
<1>6. \A n \in Names : ~Due(todo, n)
  <2>1. SUFFICES ASSUME NEW n \in Names, Due(todo, n), todo[1] = [do |-> "table", n |-> n] PROVE FALSE
    <3>1. todo \in Seq(Steps)
      BY DEF IInv, TodoInv
    <3> QED
      BY <1>1, <3>1, DueTail
  <2>2. todo[1].do = "table"
    BY <2>1
  <2> QED
    BY <1>1, <2>2
<1>7. \A n \in Names \ lost : mem[n] # None => ~mem[n].bad /\ MatchesIn(mem[n], dir[n].table, dir[n], log[n])
  BY <1>6 DEF JInv, KeptInv, Stale
<1>8. RowsInv'
  BY <1>1 DEF JInv, RowsInv, FileRowsOK, LogRowsOK, RowsOK
<1>9. CoverInv'
  BY <1>1, <1>2 DEF JInv, CoverInv, Writing, Records
<1>10. StmtInv'
  BY <1>1 DEF JInv, StmtInv, Idle
<1>11. KeptInv'
  BY <1>1, <1>7 DEF JInv, KeptInv
<1>12. NamesInv'
  BY <1>2 DEF NamesInv, Writing
<1>13. \A n \in Names : want[n] = Contents(mem[n])
  BY DEF JInv, StmtInv, View
<1>14. GivesInv'
  <2>1. SUFFICES ASSUME NEW r \in Rosters', NEW n \in Names \ lost PROVE Gives(r, n)'
    BY <1>1 DEF GivesInv
  <2>2. CASE r \in Rosters
    BY <1>1, <2>2 DEF JInv, GivesInv, Gives, Records
  <2>3. CASE r = cat'
    <3>1. CASE mem[n] = None
      BY <1>1, <1>4, <1>13, <2>3, <3>1, ContentsSome DEF Gives
    <3>2. CASE mem[n] # None
      <4>1. mem[n].bad = FALSE /\ DirOK(dir[n]) /\ MatchesIn(mem[n], dir[n].table, dir[n], log[n])
        BY <1>7, <3>2 DEF JInv, RowsInv, IInv, DirInv
      <4>2. dir[n].table # None /\ FoundIn(dir[n].table, dir[n], log[n]) = want[n]
        <5>1. dir[n].table # None /\ FoundIn(dir[n].table, dir[n], log[n]) = Contents(mem[n])
          BY ONLY <3>2, <4>1, MatchGives
        <5> QED
          BY <1>13, <5>1
      <4>3. Records(n) = {dir[n].table}
        BY <1>1 DEF IInv, DirInv, Records
      <4>4. r[n] # None
        BY <1>4, <2>3, <3>2
      <4> QED
        BY <1>1, <4>2, <4>3, <4>4 DEF Gives, Records
    <3> QED
      BY <3>1, <3>2
  <2> QED
    BY <1>5, <2>2, <2>3
<1>15. MovedInv'
  <2>1. SUFFICES ASSUME NEW a \in Names \ lost, NEW b \in Names \ lost, a # b, acked[a] # want[a], acked[b] # want[b]
                 PROVE  /\ (want[a] = None /\ acked[b] = None) \/ (want[b] = None /\ acked[a] = None)
                        /\ \A r \in Rosters' : r[a] = None <=> r[b] # None
    BY <1>1 DEF MovedInv
  <2>2. /\ (want[a] = None /\ acked[b] = None) \/ (want[b] = None /\ acked[a] = None)
        /\ \A r \in Rosters : r[a] = None <=> r[b] # None
    BY <2>1 DEF JInv, MovedInv
  <2>3. cat'[a] = None <=> cat'[b] # None
    <3>1. \A n \in Names : cat'[n] = None <=> want[n] = None
      BY <1>4, <1>13, ContentsSome
    <3> QED
      BY <2>1, <2>2, <3>1
  <2> QED
    BY <1>5, <2>2, <2>3
<1>16. ListedInv'
  <2>1. CatalogFrom(todo, 1)
    <3>1. todo \in Seq(Steps)
      BY DEF IInv, TodoInv
    <3>2. 1 \in DOMAIN todo
      BY <1>1, <3>1, TailIndex
    <3> QED
      BY <1>1, <3>2 DEF CatalogFrom
  <2> QED
    BY <1>1, <1>4, <2>1 DEF ListedInv
<1>17. LinkedInv'
  BY <1>1 DEF LinkedInv
<1>18. SoundInv'
  BY <1>1 DEF JInv, SoundInv
<1> QED
  BY <1>8, <1>9, <1>10, <1>11, <1>12, <1>14, <1>15, <1>16, <1>17, <1>18 DEF JInv

\* set_origin changes nothing of a part but where it came from.
LEMMA ClaimedSame ==
  ASSUME NEW p, IsPart(p), p.homed \in BOOLEAN
  PROVE  /\ Claimed(p).pid = p.pid /\ Claimed(p).rows = p.rows /\ Claimed(p).dead = p.dead
         /\ Claimed(p).homed \in BOOLEAN /\ Live(Claimed(p)) = Live(p)
<1>1. PICK c : c = (CHOOSE b \in at.claims : b.pid = p.pid).seq
  OBVIOUS
<1>2. Claimed(p) = p \/ Claimed(p) = [p EXCEPT !.homed = TRUE, !.seq = c]
  BY <1>1 DEF Claimed
<1>3. /\ Claimed(p).pid = p.pid /\ Claimed(p).rows = p.rows /\ Claimed(p).dead = p.dead
      /\ Claimed(p).homed \in BOOLEAN
  BY <1>2 DEF IsPart
<1> QED
  BY <1>3 DEF Live, Positions

\* The table claims its files, and the unlinked ones are nobody's.
LEMMA FinishTableSafe ==
  ASSUME NoneIsNothing, NoneIsNoRecord, IInv, IInv', JInv, FinishTable
  PROVE  JInv'
<1>0. at.pc = "claim" /\ at' = NotWriting /\ Proceed /\ UNCHANGED <<log, cat, catOld, want, lost, rows>>
  BY DEF FinishTable, counters
<1>1. PICK n : n = at.n
  OBVIOUS
<1>2. PICK t : t = mem[n]
  OBVIOUS
<1>3. PICK d : d = dir[n]
  OBVIOUS
<1>4. Writing /\ at'.pc = "none"
  BY <1>0 DEF Writing, NotWriting
<1>5. /\ n \in Names /\ IsTable(t) /\ TableOK(t) /\ Exact(t, d) /\ DirOK(d) /\ WriteOK(at, d, t)
      /\ todo # <<>> /\ todo[1] = [do |-> "table", n |-> n] /\ at.wc = Len(log[n]) /\ t.delta = {}
      /\ want[n] = Contents(t) /\ t # None /\ RowsOK(t, rows) /\ FileRowsOK(d, rows) /\ IsSeq(log[n])
      /\ t.bad \in BOOLEAN /\ (n \notin lost => Decodes(at.names, d))
  BY <1>1, <1>2, <1>3, <1>4, AtWrite
<1>6. at.left = {} /\ d.table = TableDoc(t.def, at.names, at.wc) /\ d.old = {}
  BY <1>0, <1>1, <1>2, <1>3, <1>5 DEF WriteOK, JInv, CoverInv, IInv, DirInv
<1>7. PICK gone \in {{}, at.onDisk \ at.names} :
        dir' = [dir EXCEPT ![n] = [d EXCEPT !.files = {f \in d.files : f.seq \notin gone}]]
  BY <1>1, <1>3 DEF FinishTable
<1>8. PICK e : e = [d EXCEPT !.files = {f \in d.files : f.seq \notin gone}]
  OBVIOUS
<1>9. PICK u : u = [t EXCEPT !.parts = {Claimed(p) : p \in t.parts}]
  OBVIOUS
<1>10. mem' = [mem EXCEPT ![n] = u]
  BY <1>1, <1>2, <1>9 DEF FinishTable
<1>11. e.files = {f \in d.files : f.seq \notin gone} /\ e.table = d.table /\ e.old = {}
  BY <1>5, <1>6, <1>8 DEF DirOK
<1>12. \A s \in at.names : s \notin gone
  BY <1>7
<1>13. /\ u.def = t.def /\ u.bad = t.bad /\ u.delta = {} /\ u.parts = {Claimed(p) : p \in t.parts}
       /\ u = [x \in {"def", "bad", "delta", "parts", "next"} |-> u[x]]
  BY <1>5, <1>9 DEF TableOK
<1>14. u # None
  BY <1>13, ShapeIsTable
<1>15. ASSUME NEW p \in t.parts
       PROVE  /\ Claimed(p).pid = p.pid /\ Claimed(p).rows = p.rows /\ Claimed(p).dead = p.dead
              /\ Claimed(p).homed \in BOOLEAN /\ Live(Claimed(p)) = Live(p) /\ Claimed(p).seq \in at.names
  <2>1. IsPart(p) /\ p.homed \in BOOLEAN
    BY <1>5 DEF TableOK, RowsOK
  <2>2. Claimed(p).seq \in at.names
    BY <1>1, <1>5, <1>6, ClaimedOK
  <2> QED
    BY <2>1, <2>2, ClaimedSame
<1>16. mem'[n] = u /\ dir'[n] = e /\ \A k \in Names \ {n} : mem'[k] = mem[k] /\ dir'[k] = dir[k]
  BY <1>5, <1>7, <1>8, <1>10 DEF IInv, Shapes
<1>17. Contents(u) = Contents(t)
  <2>1. {Live(p) : p \in u.parts} = {Live(p) : p \in t.parts}
    BY <1>13, <1>15
  <2>2. TableRows(u) = TableRows(t)
    BY <1>5, <1>13, <2>1 DEF TableRows
  <2> QED
    BY <1>5, <1>13, <1>14, <2>2 DEF Contents
<1>18. \A T : T.files = at.names => Named(e, T) = Named(d, T)
  BY <1>11, <1>12 DEF Named
<1>19. RowsInv'
  <2>1. RowsOK(u, rows)
    BY <1>5, <1>13, <1>15 DEF RowsOK
  <2>2. FileRowsOK(e, rows)
    BY <1>5, <1>11 DEF FileRowsOK
  <2>3. ASSUME NEW k \in Names PROVE /\ mem'[k] # None => RowsOK(mem'[k], rows) /\ mem'[k].bad \in BOOLEAN
                                     /\ FileRowsOK(dir'[k], rows) /\ LogRowsOK(log[k], rows)
    <3>1. CASE k = n
      BY <1>5, <1>13, <1>16, <2>1, <2>2, <3>1 DEF JInv, RowsInv
    <3>2. CASE k # n
      BY <1>16, <3>2 DEF JInv, RowsInv
    <3> QED
      BY <3>1, <3>2
  <2>4. rows \in Nat
    BY DEF JInv, RowsInv
  <2> QED
    BY <1>0, <2>3, <2>4 DEF RowsInv
<1>20. LinkedInv'
  <2>1. todo[1].do # "link"
    BY <1>5
  <2>2. todo' = <<>> \/ todo'[1].do # "move"
    BY <1>0, <1>5, <2>1, HeadNotMove DEF Proceed
  <2> QED
    BY <2>2 DEF LinkedInv
<1>21. \A k \in Names : /\ Contents(mem'[k]) = Contents(mem[k]) /\ (mem'[k] = None <=> mem[k] = None)
                        /\ (IsTable(mem'[k]) <=> IsTable(mem[k])) /\ mem'[k].delta = mem[k].delta
  BY <1>2, <1>5, <1>13, <1>14, <1>16, <1>17 DEF IsTable
<1>22. \A k \in Names : Records(k)' \subseteq Records(k)
  BY <1>3, <1>11, <1>16 DEF Records
<1>23. \A k \in Names : \A T \in Records(k)' : T # None => T.wc <= Len(log[k])
  BY <1>22 DEF JInv, CoverInv
<1>24. \A k \in Names \ lost : mem'[k] # None => ~mem'[k].bad /\ Decodes(Claims(mem'[k]), dir'[k])
  <2>1. Claims(u) \subseteq at.names
    BY <1>13, <1>15 DEF Claims
  <2>2. n \notin lost => Decodes(Claims(u), e)
    BY <1>5, <1>11, <1>12, <2>1 DEF Decodes
  <2>3. ~u.bad
    BY <1>5, <1>13 DEF IsTable
  <2> QED
    BY <1>16, <2>2, <2>3 DEF JInv, KeptInv
<1>25. ASSUME n \notin lost PROVE MatchesIn(u, e.table, e, log[n])
  <2> DEFINE F == Named(e, e.table)
  <2>1. e.table.def = u.def /\ e.table.files = at.names /\ e.table.wc = Len(log[n])
    BY <1>5, <1>6, <1>11, <1>13 DEF TableDoc
  <2>2. \A s \in e.table.files : \E f \in F : f.seq = s /\ f.ok
    BY <1>5, <1>11, <1>12, <1>25, <2>1 DEF Decodes, Named
  <2>3. /\ \A p \in t.parts : \E f \in d.files : f.seq \in at.names /\ Holds(f, p)
        /\ \A f \in d.files : f.seq \in at.names => \E p \in t.parts : Holds(f, p)
    BY <1>5, <1>6, WrittenHolds
  <2>4. \A f : f \in F <=> f \in d.files /\ f.seq \in at.names
    BY <1>11, <1>12, <2>1 DEF Named
  <2> HIDE DEF F
  <2>5. \A p \in u.parts : \E f \in F : Holds(f, p)
    <3>1. SUFFICES ASSUME NEW p \in t.parts PROVE \E f \in F : Holds(f, Claimed(p))
      BY <1>13
    <3>2. PICK f \in F : Holds(f, p)
      BY <2>3, <2>4
    <3> QED
      BY <1>15, <3>2 DEF Holds
  <2>6. \A f \in F : \E p \in u.parts : Holds(f, p)
    <3>1. SUFFICES ASSUME NEW f \in F PROVE \E p \in t.parts : Holds(f, Claimed(p))
      BY <1>13
    <3>2. PICK p \in t.parts : Holds(f, p)
      BY <2>3, <2>4
    <3> QED
      BY <1>15, <3>2 DEF Holds
  <2>7. \A p, q \in u.parts : p.pid = q.pid => p = q
    BY <1>5, <1>14, <1>16 DEF IInv, MemInv, TableOK
  <2>8. Matches(u, e.table, F, {})
    BY <1>13, <2>1, <2>2, <2>5, <2>6, <2>7, WrittenMatches
  <2>9. Suffix(log[n], e.table.wc) = {}
    BY <1>5, <2>1, SuffixAtEnd
  <2>10. e.table # None
    <3>1. e.table = [def |-> t.def, files |-> at.names, wc |-> at.wc]
      BY <1>6, <1>11 DEF TableDoc
    <3> QED
      BY <3>1 DEF NoneIsNoRecord
  <2> QED
    BY <2>8, <2>9, <2>10 DEF MatchesIn, F
<1>26. ASSUME NEW k \in Names \ lost, mem'[k] # None
       PROVE  \/ MatchesIn(mem'[k], dir'[k].table, dir'[k], log[k])
              \/ acked[k] # want[k] /\ Due(todo, k) /\ todo[1] # [do |-> "table", n |-> k]
  <2>1. CASE k = n
    BY <1>16, <1>25, <2>1
  <2>2. CASE k # n
    <3>1. MatchesIn(mem[k], dir[k].table, dir[k], log[k]) \/ Stale(k)
      BY <1>16, <1>26, <2>2 DEF JInv, KeptInv
    <3>2. [do |-> "table", n |-> n].n = n /\ [do |-> "table", n |-> k].n = k
      OBVIOUS
    <3>3. todo[1] # [do |-> "table", n |-> k]
      BY <1>5, <2>2, <3>2
    <3> QED
      BY <1>16, <2>2, <3>1, <3>3 DEF Stale
  <2> QED
    BY <2>1, <2>2
<1>27. \A r \in Rosters' : \A k \in Names \ lost :
         IF r[k] = None THEN acked[k] = None \/ want[k] = None
         ELSE \A T \in Records(k)' : T # None /\ FoundIn(T, dir'[k], log[k]) \in {acked[k], want[k]}
  <2>1. SUFFICES ASSUME NEW r \in Rosters', NEW k \in Names \ lost
                 PROVE  IF r[k] = None THEN acked[k] = None \/ want[k] = None
                        ELSE \A T \in Records(k)' : T # None /\ FoundIn(T, dir'[k], log[k]) \in {acked[k], want[k]}
    OBVIOUS
  <2>2. r \in Rosters
    BY <1>0 DEF Rosters
  <2>3. Gives(r, k)
    BY <2>2 DEF JInv, GivesInv
  <2>4. \A T \in Records(k)' : FoundIn(T, dir'[k], log[k]) = FoundIn(T, dir[k], log[k])
    <3>1. CASE k = n
      <4>1. Records(k)' = {e.table} /\ e.table.files = at.names
        BY <1>6, <1>11, <1>16, <3>1 DEF Records, TableDoc
      <4>2. Named(e, e.table) = Named(d, e.table)
        BY <1>18, <4>1
      <4> QED
        BY <1>3, <1>16, <3>1, <4>1, <4>2, SameNamed
    <3>2. CASE k # n
      BY <1>16, <3>2
    <3> QED
      BY <3>1, <3>2
  <2> QED
    BY <1>22, <2>3, <2>4 DEF Gives
<1>28. \/ \A r \in Rosters' : \A k \in Names \ lost : r[k] = None <=> mem'[k] = None
       \/ CatalogFrom(todo, 1) /\ todo[1].do = "table"
  <2>1. Rosters' = Rosters
    BY <1>0 DEF Rosters
  <2>2. todo[1].do = "table"
    BY <1>5
  <2> QED
    BY <1>21, <2>1, <2>2 DEF JInv, ListedInv, Listed
<1> QED
  BY <1>0, <1>4, <1>5, <1>19, <1>20, <1>21, <1>23, <1>24, <1>26, <1>27, <1>28, ProceedSafe

\* At an entry that is neither a table nor the catalog, nothing is due and the
\* catalog lists what is in memory.
LEMMA LateEntry ==
  ASSUME IInv, JInv, todo # <<>>, todo[1].do \in {"collect", "link", "move"}
  PROVE  /\ at.pc = "none" /\ Rosters = {cat} /\ catOld = {} /\ \A n \in Names : Records(n) = {dir[n].table}
         /\ \A n \in Names : ~Due(todo, n)
         /\ \A n \in Names \ lost : cat[n] = None <=> mem[n] = None
         /\ \A n \in Names \ lost : mem[n] # None =>
              /\ ~mem[n].bad /\ Decodes(Claims(mem[n]), dir[n])
              /\ MatchesIn(mem[n], dir[n].table, dir[n], log[n])
<1>1. todo \in Seq(Steps)
  BY DEF IInv, TodoInv
<1>2. at.pc = "none"
  BY HeadSaysQuiet
<1>3. catOld = {} /\ \A n \in Names : dir[n].old = {}
  BY <1>2, Quiet
<1>4. Rosters = {cat} /\ \A n \in Names : Records(n) = {dir[n].table}
  BY <1>3 DEF Rosters, Records
<1>5. ASSUME NEW n \in Names PROVE ~Due(todo, n)
  <2>1. [do |-> "table", n |-> n].do = "table"
    OBVIOUS
  <2> QED
    BY <1>1, <2>1, DueTail
<1>6. \A n \in Names \ lost : cat[n] = None <=> mem[n] = None
  <2>1. ~CatalogFrom(todo, 1)
    BY <1>1, CatalogTail
  <2> QED
    BY <1>4, <2>1 DEF JInv, ListedInv, Listed
<1>7. \A n \in Names \ lost : mem[n] # None =>
        ~mem[n].bad /\ Decodes(Claims(mem[n]), dir[n]) /\ MatchesIn(mem[n], dir[n].table, dir[n], log[n])
  BY <1>5 DEF JInv, KeptInv, Stale
<1> QED
  BY <1>2, <1>3, <1>4, <1>5, <1>6, <1>7

\* A directory is replaced under a name that neither memory nor the catalog
\* has, and the entry is done.
LEMMA ElsewhereSafe ==
  ASSUME NoneIsNoRecord, IInv, IInv', JInv, todo # <<>>, todo[1].do \in {"collect", "link"}, Proceed,
         UNCHANGED <<mem, log, cat, catOld, at, want, lost, rows>>, LinkedInv',
         \A n \in Names : \/ dir'[n] = dir[n]
                          \/ /\ n \notin lost => mem[n] = None
                             /\ FileRowsOK(dir'[n], rows)
                             /\ dir'[n].table # None => dir'[n].table.wc <= Len(log[n])
  PROVE  JInv'
<1>1. /\ at.pc = "none" /\ Rosters = {cat} /\ catOld = {} /\ \A n \in Names : Records(n) = {dir[n].table}
      /\ \A n \in Names \ lost : cat[n] = None <=> mem[n] = None
      /\ \A n \in Names \ lost : mem[n] # None =>
           /\ ~mem[n].bad /\ Decodes(Claims(mem[n]), dir[n])
           /\ MatchesIn(mem[n], dir[n].table, dir[n], log[n])
  BY LateEntry
<1>2. RowsInv'
  BY DEF JInv, RowsInv
<1>3. \A n \in Names : Records(n)' = {dir'[n].table}
  BY <1>1 DEF IInv, DirInv, Records
<1>4. \A n \in Names : \A T \in Records(n)' : T # None => T.wc <= Len(log[n])
  BY <1>1, <1>3 DEF JInv, CoverInv
<1>5. \A n \in Names \ lost : mem'[n] # None =>
        /\ ~mem'[n].bad /\ Decodes(Claims(mem'[n]), dir'[n])
        /\ MatchesIn(mem'[n], dir'[n].table, dir'[n], log[n])
  BY <1>1
<1>6. Rosters' = {cat}
  BY <1>1 DEF Rosters
<1>7. \A r \in Rosters' : \A n \in Names \ lost :
        IF r[n] = None THEN acked[n] = None \/ want[n] = None
        ELSE \A T \in Records(n)' : T # None /\ FoundIn(T, dir'[n], log[n]) \in {acked[n], want[n]}
  <2>1. ASSUME NEW n \in Names \ lost, cat[n] # None
        PROVE  \A T \in Records(n)' : T # None /\ FoundIn(T, dir'[n], log[n]) \in {acked[n], want[n]}
    <3>1. dir'[n] = dir[n]
      BY <1>1, <2>1
    <3>2. Gives(cat, n)
      BY <1>1 DEF JInv, GivesInv
    <3> QED
      BY <1>1, <1>3, <2>1, <3>1, <3>2 DEF Gives
  <2>2. ASSUME NEW n \in Names \ lost, cat[n] = None
        PROVE  acked[n] = None \/ want[n] = None
    <3>1. Gives(cat, n)
      BY <1>1 DEF JInv, GivesInv
    <3> QED
      BY <2>2, <3>1 DEF Gives
  <2> QED
    BY <1>6, <2>1, <2>2
<1>8. \A r \in Rosters' : \A n \in Names \ lost : r[n] = None <=> mem'[n] = None
  BY <1>1, <1>6
<1> QED
  BY <1>1, <1>2, <1>4, <1>5, <1>7, <1>8, ProceedSafe

\* What is collected is neither in memory nor in the catalog.
LEMMA CollectDroppedSafe ==
  ASSUME NoneIsNoRecord, IInv, IInv', JInv, CollectDropped
  PROVE  JInv'
<1>1. todo # <<>> /\ todo[1].do = "collect" /\ Proceed /\ UNCHANGED <<mem, log, cat, catOld, at, want, lost, rows>>
  BY DEF CollectDropped, Idle, Step, counters
<1>2. PICK gone \in {{}, {n \in Names : mem[n] = None /\ dir[n].table # None}} :
        dir' = [n \in Names |-> IF n \in gone THEN NoDir ELSE dir[n]]
  BY DEF CollectDropped
<1>3. ASSUME NEW n \in Names
      PROVE  dir'[n] = dir[n] \/ (mem[n] = None /\ dir'[n] = NoDir)
  BY <1>2
<1>4. NoDir.table = None /\ FileRowsOK(NoDir, rows)
  BY DEF NoDir, FileRowsOK
<1>5. LinkedInv'
  <2>1. todo' = <<>> \/ todo'[1].do # "move"
    BY <1>1, HeadNotMove DEF Proceed
  <2> QED
    BY <2>1 DEF LinkedInv
<1> QED
  BY <1>1, <1>3, <1>4, <1>5, ElsewhereSafe

\* The head of the list is a RENAME's link: its names, and the move after it.
LEMMA AtLink ==
  ASSUME IInv, todo # <<>>, todo[1].do = "link"
  PROVE  \E a, b \in Names :
           /\ todo[1].from = a /\ todo[1].to = b /\ Len(todo) >= 2 /\ Tail(todo)[1].from = a /\ Tail(todo)[1].to = b
           /\ IsTable(mem[a]) /\ ~IsTable(mem[b]) /\ Ready(a)
<1>1. /\ todo \in Seq(Steps) /\ Len(todo) \in Nat /\ Len(todo) > 0 /\ DOMAIN todo = 1..Len(todo) /\ 1 \in DOMAIN todo
  BY DEF IInv, TodoInv
<1>2. PICK a \in Names, b \in Names : todo[1].from = a /\ todo[1].to = b
  <2>1. todo[1] \in Steps
    BY <1>1
  <2>2. \A x \in [do : {"table"}, n : Names] \cup [do : {"catalog", "collect"}] : x.do # "link"
    OBVIOUS
  <2>3. todo[1] \in [do : {"link", "move"}, from : Names, to : Names]
    BY <2>1, <2>2 DEF Steps
  <2> QED
    BY <2>3
<1>3. /\ 2 \in DOMAIN todo /\ todo[2] = [do |-> "move", from |-> a, to |-> b]
      /\ IsTable(mem[a]) /\ ~IsTable(mem[b]) /\ Ready(a)
  <2>1. 1 + 1 = 2 /\ 1 - 1 = 0 /\ \A j \in 1..0 : FALSE
    OBVIOUS
  <2> QED
    BY <1>1, <1>2, <2>1 DEF IInv, TodoInv
<1>4. Len(todo) >= 2 /\ Tail(todo)[1] = todo[2]
  BY <1>1, <1>3
<1>5. todo[2].from = a /\ todo[2].to = b
  BY <1>3
<1> QED
  BY <1>2, <1>3, <1>4, <1>5

\* RENAME's new directory holds the table it is a copy of.
LEMMA LinkSafe ==
  ASSUME NoneIsNoRecord, IInv, IInv', JInv, Link
  PROVE  JInv'
<1>1. todo # <<>> /\ todo[1].do = "link" /\ Proceed /\ UNCHANGED <<mem, log, cat, catOld, at, want, lost, rows>>
  BY DEF Link, Idle, Step, counters
<1>2. todo \in Seq(Steps) /\ Len(todo) \in Nat /\ DOMAIN todo = 1..Len(todo) /\ 1 \in DOMAIN todo
  BY <1>1 DEF IInv, TodoInv
<1>3. PICK a \in Names, b \in Names :
        /\ todo[1].from = a /\ todo[1].to = b /\ Len(todo) >= 2 /\ Tail(todo)[1].from = a /\ Tail(todo)[1].to = b
        /\ IsTable(mem[a]) /\ ~IsTable(mem[b]) /\ Ready(a)
  BY <1>1, AtLink
<1>5. PICK t : t = mem[a]
  OBVIOUS
<1>6. PICK d : d = dir[a]
  OBVIOUS
<1>7. PICK e : e = Linked(a, b)
  OBVIOUS
<1>8. DirOK(e) /\ Exact(t, e) /\ \A p \in t.parts : p.seq \in Seqs(d)
  BY <1>3, <1>5, <1>6, <1>7, LinkedOK
<1>9. /\ e.files = {f \in d.files : f.seq \in {p.seq : p \in t.parts}}
      /\ e.table = TableDoc(t.def, {p.seq : p \in t.parts}, Len(log[b]))
  BY <1>5, <1>6, <1>7 DEF Linked, NoDir
<1>10. dir'[b] = e /\ \A n \in Names : n # b => dir'[n] = dir[n]
  BY <1>3, <1>5, <1>6, <1>7, <1>8 DEF Link, Step, IInv, Shapes
<1>11. \A p \in t.parts : p.seq # NoFile
  BY <1>3, <1>5 DEF Ready
<1>12. TableOK(t) /\ IsSeq(log[b]) /\ Len(log[b]) \in Nat
  BY <1>3, <1>5 DEF IInv, MemInv, IsTable, Shapes, IsSeq
<1>13. e.table.def = t.def /\ e.table.files = {p.seq : p \in t.parts} /\ e.table.wc = Len(log[b])
  BY <1>9 DEF TableDoc
<1>14. FileRowsOK(e, rows)
  BY <1>6, <1>9 DEF JInv, RowsInv, FileRowsOK
<1>15. b \notin lost => mem[b] = None
  BY <1>3 DEF JInv, KeptInv, IsTable
<1>16. ASSUME a \notin lost PROVE Decodes(Claims(t), e) /\ MatchesIn(t, e.table, e, log[b])
  <2>1. Decodes(Claims(t), d)
    BY <1>3, <1>5, <1>6, <1>16 DEF JInv, KeptInv, IsTable
  <2>2. Claims(t) = {p.seq : p \in t.parts}
    BY <1>11 DEF Claims
  <2>3. Decodes(Claims(t), e)
    BY <1>9, <2>1, <2>2 DEF Decodes
  <2> DEFINE F == Named(e, e.table)
  <2>4. \A f : f \in F <=> f \in e.files
    BY <1>9, <1>13 DEF Named
  <2> HIDE DEF F
  <2>5. \A s \in e.table.files : \E f \in F : f.seq = s /\ f.ok
    BY <1>13, <2>2, <2>3, <2>4 DEF Decodes
  <2>6. ASSUME NEW p \in t.parts PROVE \E f \in F : Holds(f, p)
    BY <1>8, <1>11, <2>4 DEF Exact
  <2>7. ASSUME NEW f \in F PROVE \E p \in t.parts : Holds(f, p)
    <3>1. f \in e.files
      BY <2>4
    <3>2. PICK p \in t.parts : f.seq = p.seq
      BY <1>9, <3>1
    <3>3. PICK g \in e.files : g.seq = p.seq /\ Holds(g, p)
      BY <1>8, <1>11 DEF Exact
    <3>4. g = f
      BY <1>8, <3>1, <3>2, <3>3 DEF DirOK, FilesOK
    <3> QED
      BY <3>3, <3>4
  <2>8. \A p, q \in t.parts : p.pid = q.pid => p = q
    BY <1>12 DEF TableOK
  <2>9. t.delta = {}
    <3>1. Flushed(todo, mem)
      BY DEF JInv, StmtInv
    <3>2. mem[todo[1].from].delta = {}
      BY <1>1, <1>2, <3>1 DEF Flushed
    <3> QED
      BY <1>3, <1>5, <3>2
  <2>10. Matches(t, e.table, F, {})
    BY <1>13, <2>5, <2>6, <2>7, <2>8, <2>9, WrittenMatches
  <2>11. Suffix(log[b], e.table.wc) = {}
    BY <1>12, <1>13, SuffixAtEnd
  <2>12. e.table # None
    <3>1. PICK S : S = {p.seq : p \in t.parts}
      OBVIOUS
    <3>2. e.table = [def |-> t.def, files |-> S, wc |-> Len(log[b])]
      BY <1>9, <3>1 DEF TableDoc
    <3> QED
      BY <3>2 DEF NoneIsNoRecord
  <2> QED
    BY <2>3, <2>10, <2>11, <2>12 DEF MatchesIn, F
<1>17. LinkedInv'
  <2>1. todo' = Tail(todo)
    BY <1>1 DEF Proceed
  <2>2. todo'[1].from = a /\ todo'[1].to = b
    BY <1>3, <2>1
  <2> QED
    BY <1>1, <1>5, <1>10, <1>16, <2>2 DEF LinkedInv
<1>18. \A n \in Names : \/ dir'[n] = dir[n]
                        \/ /\ n \notin lost => mem[n] = None
                           /\ FileRowsOK(dir'[n], rows)
                           /\ dir'[n].table # None => dir'[n].table.wc <= Len(log[n])
  BY <1>10, <1>12, <1>13, <1>14, <1>15
<1> QED
  BY <1>1, <1>17, <1>18, ElsewhereSafe

\* Memory takes the new name: the old one is still what was acknowledged, and
\* a checkpoint is left to do.
LEMMA MoveSafe ==
  ASSUME NoneIsNoRecord, IInv, JInv, Move
  PROVE  JInv'
<1>1. todo # <<>> /\ todo[1].do = "move" /\ Proceed /\ UNCHANGED <<log, dir, cat, catOld, at, rows>> /\ mem[todo[1].to] = None
  BY DEF Move, Idle, Step, counters, disk
<1>2. PICK a \in Names, b \in Names :
        /\ todo[1].from = a /\ todo[1].to = b /\ a # b /\ IsTable(mem[a])
        /\ Tail(todo) \in Seq(Steps) /\ \A i \in DOMAIN Tail(todo) : Tail(todo)[i].do \in Plain
  BY <1>1, AtMove
<1>3. /\ at.pc = "none" /\ Rosters = {cat} /\ \A n \in Names : Records(n) = {dir[n].table}
      /\ \A n \in Names \ lost : cat[n] = None <=> mem[n] = None
      /\ \A n \in Names \ lost : mem[n] # None =>
           /\ ~mem[n].bad /\ Decodes(Claims(mem[n]), dir[n])
           /\ MatchesIn(mem[n], dir[n].table, dir[n], log[n])
  BY <1>1, LateEntry
<1>4. \A n \in Names : mem'[n] = IF n = a THEN None ELSE IF n = b THEN mem[a] ELSE mem[n]
  <2>1. mem' = [mem EXCEPT ![b] = mem[a], ![a] = None]
    BY <1>2 DEF Move, Step
  <2> QED
    BY <1>2, <2>1 DEF IInv, Shapes
<1>5. mem[b] = None
  BY <1>1, <1>2
<1>6. want' = View(mem') /\ lost \subseteq lost' /\ (a \in lost => b \in lost') /\ todo' = Tail(todo)
  BY <1>1, <1>2 DEF Move, Step, Proceed
<1>7. todo \in Seq(Steps) /\ 1 \in DOMAIN todo
  <2>1. todo \in Seq(Steps)
    BY DEF IInv, TodoInv
  <2> QED
    BY <1>1, <2>1, TailIndex
<1>8. acked = want /\ want = View(mem) /\ Flushed(todo, mem)
  BY <1>1, <1>7 DEF JInv, StmtInv, Moves
<1>9. acked' = acked
  BY <1>1, <1>8 DEF Proceed
<1>10. \A n \in Names : acked[n] = Contents(mem[n]) /\ want'[n] = Contents(mem'[n])
  BY <1>6, <1>8 DEF View
<1>11. CatalogFrom(todo', 1) /\ mem[a].delta = {}
  <2>1. CatalogFrom(todo, 1 + 1) /\ mem[a].delta = {}
    BY <1>1, <1>2, <1>7, <1>8 DEF Flushed
  <2> QED
    BY <1>1, <1>6, <1>7, <2>1, CatalogTail
<1>12. todo' # <<>>
  BY <1>11 DEF CatalogFrom
<1>13. RowsInv'
  BY <1>1, <1>4 DEF JInv, RowsInv
<1>14. CoverInv'
  BY <1>1, <1>3 DEF JInv, CoverInv, Writing, Records
<1>15. StmtInv'
  <2>1. Flushed(todo', mem)
    BY <1>1, <1>6, <1>7, <1>8, FlushedTail
  <2>2. ASSUME NEW i \in DOMAIN todo', todo'[i].do = "table", IsTable(mem'[todo'[i].n])
        PROVE  mem'[todo'[i].n].delta = {}
    <3>1. todo'[i] \in Steps
      BY <1>2, <1>6
    <3>2. PICK k \in Names : k = todo'[i].n
      BY <2>2, <3>1 DEF Steps
    <3>3. k # a
      BY <1>4, <2>2, <3>2 DEF IsTable
    <3>4. CASE k = b
      BY <1>4, <1>11, <3>2, <3>3, <3>4
    <3>5. CASE k # b
      <4>1. mem'[k] = mem[k]
        BY <1>4, <3>3, <3>5
      <4> QED
        BY <2>1, <2>2, <3>2, <4>1 DEF Flushed
    <3> QED
      BY <3>4, <3>5
  <2>3. \A i \in DOMAIN todo' : todo'[i].do \in Plain
    BY <1>2, <1>6
  <2>4. Flushed(todo', mem') /\ ~Moves(todo')
    <3>1. PICK q : q = todo'
      OBVIOUS
    <3>2. PICK w : w = mem'
      OBVIOUS
    <3>3. \A i \in DOMAIN q : q[i].do \in Plain /\ (q[i].do = "table" /\ IsTable(w[q[i].n]) => w[q[i].n].delta = {})
      BY <2>2, <2>3, <3>1, <3>2
    <3>4. Flushed(q, w) /\ ~Moves(q)
      BY ONLY <3>3, PlainFlushed
    <3> QED
      BY <3>1, <3>2, <3>4
  <2> QED
    BY <1>6, <1>12, <2>4 DEF StmtInv, Idle
<1>16. KeptInv'
  <2>1. SUFFICES ASSUME NEW n \in Names \ lost', mem'[n] # None
                 PROVE  /\ ~mem'[n].bad /\ Decodes(Claims(mem'[n]), dir[n])
                        /\ MatchesIn(mem'[n], dir[n].table, dir[n], log[n])
    BY <1>1 DEF KeptInv
  <2>2. n # a
    BY <1>4, <2>1
  <2>3. CASE n = b
    <3>1. a \notin lost /\ mem'[n] = mem[a]
      BY <1>4, <1>6, <2>2, <2>3
    <3>2. Decodes(Claims(mem[a]), dir[b]) /\ MatchesIn(mem[a], dir[b].table, dir[b], log[b])
      BY <1>1, <1>2, <3>1 DEF JInv, LinkedInv
    <3> QED
      BY <1>2, <2>3, <3>1, <3>2 DEF IsTable
  <2>4. CASE n # b
    <3>1. mem'[n] = mem[n] /\ n \notin lost
      BY <1>4, <1>6, <2>2, <2>4
    <3> QED
      BY <1>3, <2>1, <3>1
  <2> QED
    BY <2>3, <2>4
<1>17. NamesInv'
  BY <1>1, <1>3 DEF NamesInv, Writing
<1>18. Rosters' = {cat}
  BY <1>1, <1>3 DEF Rosters
<1>19. GivesInv'
  <2>1. SUFFICES ASSUME NEW n \in Names \ lost' PROVE Gives(cat, n)'
    BY <1>1, <1>18 DEF GivesInv
  <2>2. Gives(cat, n)
    BY <1>3, <1>6 DEF JInv, GivesInv
  <2>3. CASE cat[n] = None
    <3>1. acked[n] = None
      BY <1>8, <2>2, <2>3 DEF Gives
    <3> QED
      BY <1>1, <1>9, <2>3, <3>1 DEF Gives
  <2>4. CASE cat[n] # None
    <3>1. \A T \in Records(n) : T # None /\ FoundIn(T, dir[n], log[n]) = acked[n]
      BY <1>8, <2>2, <2>4 DEF Gives
    <3> QED
      BY <1>1, <1>9, <2>4, <3>1 DEF Gives, Records
  <2> QED
    BY <2>3, <2>4
<1>20. MovedInv'
  <2>1. \A n \in Names : acked[n] # want'[n] => n = a \/ n = b
    BY <1>4, <1>10
  <2>2. want'[a] = None /\ acked[b] = None
    BY <1>2, <1>4, <1>5, <1>10 DEF Contents
  <2>3. ASSUME a \notin lost', b \notin lost' PROVE cat[a] # None /\ cat[b] = None
    <3>1. mem[a] # None
      BY <1>2 DEF IsTable
    <3> QED
      BY <1>3, <1>5, <1>6, <2>3, <3>1
  <2>4. SUFFICES ASSUME NEW x \in Names \ lost', NEW y \in Names \ lost', x # y,
                        acked[x] # want'[x], acked[y] # want'[y]
                 PROVE  /\ (want'[x] = None /\ acked[y] = None) \/ (want'[y] = None /\ acked[x] = None)
                        /\ cat[x] = None <=> cat[y] # None
    BY <1>9, <1>18 DEF MovedInv
  <2>5. (x = a /\ y = b) \/ (x = b /\ y = a)
    BY <2>1, <2>4
  <2> QED
    BY <2>2, <2>3, <2>4, <2>5
<1>21. ListedInv'
  BY <1>1, <1>3, <1>11 DEF ListedInv
<1>22. LinkedInv'
  <2>1. 1 \in DOMAIN Tail(todo)
    <3>1. PICK q \in Seq(Steps) : q = Tail(todo)
      BY <1>2
    <3>2. q # <<>>
      BY <1>6, <1>12, <3>1
    <3>3. 1 \in DOMAIN q
      BY ONLY <3>1, <3>2, TailIndex
    <3> QED
      BY <3>1, <3>3
  <2>2. todo'[1].do # "move"
    BY <1>2, <1>6, <2>1 DEF Plain
  <2> QED
    BY <2>2 DEF LinkedInv
<1>23. SoundInv'
  BY <1>6, <1>9 DEF JInv, SoundInv
<1> QED
  BY <1>13, <1>14, <1>15, <1>16, <1>17, <1>19, <1>20, <1>21, <1>22, <1>23 DEF JInv

-----------------------------------------------------------------------------
(* Faults, and what opening the directory gives.                            *)

\* Between statements, with everything written, the invariant holds.
LEMMA SettledSafe ==
  ASSUME NoneIsNoRecord, IInv', RowsInv', todo' = <<>>, at'.pc = "none", acked' = View(mem'), want' = acked',
         \A n \in Names : \A T \in Records(n)' : T # None => T.wc <= Len(log'[n]),
         \A n \in Names \ lost' : cat'[n] = None <=> mem'[n] = None,
         \A n \in Names \ lost' : mem'[n] # None =>
           /\ ~mem'[n].bad /\ Decodes(Claims(mem'[n]), dir'[n])
           /\ MatchesIn(mem'[n], dir'[n].table, dir'[n], log'[n])
  PROVE  JInv'
<1>1. Rosters' = {cat'}
  BY DEF IInv, CatInv, Rosters
<1>2. \A n \in Names : Records(n)' = {dir'[n].table} /\ DirOK(dir'[n])
  BY DEF IInv, DirInv, Records
<1>3. \A n \in Names : acked'[n] = Contents(mem'[n])
  BY DEF View
<1>4. CoverInv'
  BY DEF CoverInv, Writing
<1>5. StmtInv'
  BY DEF StmtInv, Flushed
<1>6. KeptInv'
  BY DEF KeptInv
<1>7. NamesInv'
  BY DEF NamesInv, Writing
<1>8. GivesInv'
  <2>1. SUFFICES ASSUME NEW n \in Names \ lost' PROVE Gives(cat, n)'
    BY <1>1 DEF GivesInv
  <2>2. CASE mem'[n] = None
    BY <1>3, <2>2 DEF Gives, Contents
  <2>3. CASE mem'[n] # None
    <3> DEFINE d == dir'[n]
               t == mem'[n]
               l == log'[n]
    <3>1. DirOK(d) /\ t # None /\ t.bad = FALSE /\ MatchesIn(t, d.table, d, l)
      BY <1>2, <2>3 DEF RowsInv
    <3> HIDE DEF d, t, l
    <3>2. d.table # None /\ FoundIn(d.table, d, l) = Contents(t)
      BY ONLY <3>1, MatchGives
    <3> QED
      BY <1>2, <1>3, <2>3, <3>2 DEF d, t, l, Gives
  <2> QED
    BY <2>2, <2>3
<1>9. MovedInv'
  BY DEF MovedInv
<1>10. ListedInv'
  BY <1>1 DEF ListedInv, Listed
<1>11. LinkedInv'
  BY DEF LinkedInv
<1>12. SoundInv'
  BY <1>3, ContentsSome DEF SoundInv
<1> QED
  BY <1>4, <1>5, <1>6, <1>7, <1>8, <1>9, <1>10, <1>11, <1>12 DEF JInv

\* A RENAME that is refused loses its two names and touches no other.
LEMMA MoveRefusedSafe ==
  ASSUME NoneIsNoRecord, IInv, IInv', JInv, MoveRefused
  PROVE  JInv'
<1>1. /\ todo # <<>> /\ todo[1].do = "move" /\ todo' = <<>> /\ UNCHANGED <<log, dir, cat, catOld, at, rows>>
      /\ acked' = View(mem') /\ want' = acked'
  BY DEF MoveRefused, Idle, Step, disk, counters
<1>2. PICK a \in Names, b \in Names : todo[1].from = a /\ todo[1].to = b
  BY <1>1, AtMove
<1>3. lost' = lost \cup {a, b} /\ \A n \in Names : mem'[n] = IF n = a THEN None ELSE mem[n]
  BY <1>2 DEF MoveRefused, Step, IInv, Shapes
<1>4. /\ at.pc = "none" /\ \A n \in Names : Records(n) = {dir[n].table}
      /\ \A n \in Names \ lost : cat[n] = None <=> mem[n] = None
      /\ \A n \in Names \ lost : mem[n] # None =>
           /\ ~mem[n].bad /\ Decodes(Claims(mem[n]), dir[n])
           /\ MatchesIn(mem[n], dir[n].table, dir[n], log[n])
  BY <1>1, LateEntry
<1>5. RowsInv'
  BY <1>1, <1>3 DEF JInv, RowsInv
<1>6. \A n \in Names : \A T \in Records(n)' : T # None => T.wc <= Len(log'[n])
  BY <1>1 DEF JInv, CoverInv, Records
<1>7. \A n \in Names \ lost' : n \notin lost /\ mem'[n] = mem[n]
  BY <1>3
<1> QED
  BY <1>1, <1>4, <1>5, <1>6, <1>7, SettledSafe

\* What a record accounts for is something.
LEMMA FoundSome ==
  ASSUME NoneIsNoRecord, NEW T, NEW d, NEW l
  PROVE  FoundIn(T, d, l) # None
  BY DEF FoundIn, Found, NoneIsNoRecord

\* A checkpoint that is given up had nothing to say, and has broken nothing.
LEMMA CheckpointFailsSafe ==
  ASSUME NoneIsNoRecord, WrittenBack, IInv, IInv', JInv, CheckpointFails
  PROVE  JInv'
<1>1. /\ todo' = <<>> /\ at'.pc = "none" /\ UNCHANGED <<mem, log, dir, cat, catOld, acked, want, lost, rows>>
      /\ want = acked /\ at.pc \notin {"sync", "root"}
  BY DEF CheckpointFails, NotWriting, WrittenBack
<1>2. Rosters = {cat} /\ \A n \in Names : Records(n) = {dir[n].table}
  BY <1>1 DEF IInv, CatInv, DirInv, Rosters, Records
<1>3. acked' = View(mem') /\ want' = acked' /\ \A n \in Names : acked[n] = Contents(mem[n])
  BY <1>1 DEF JInv, StmtInv, View
<1>4. RowsInv'
  BY <1>1 DEF JInv, RowsInv
<1>5. \A n \in Names : \A T \in Records(n)' : T # None => T.wc <= Len(log'[n])
  BY <1>1 DEF JInv, CoverInv, Records
<1>6. ASSUME NEW n \in Names \ lost PROVE cat[n] = None <=> mem[n] = None
  <2>1. Gives(cat, n)
    BY <1>2 DEF JInv, GivesInv
  <2>2. CASE cat[n] = None
    BY <1>1, <1>3, <2>1, <2>2, ContentsSome DEF Gives
  <2>3. CASE cat[n] # None
    <3>1. FoundIn(dir[n].table, dir[n], log[n]) = acked[n]
      BY <1>1, <1>2, <2>1, <2>3 DEF Gives
    <3>2. acked[n] # None
      BY <3>1, FoundSome
    <3> QED
      BY <1>3, <2>3, <3>2, ContentsSome
  <2> QED
    BY <2>2, <2>3
<1>7. \A n \in Names \ lost : mem[n] # None =>
        ~mem[n].bad /\ Decodes(Claims(mem[n]), dir[n]) /\ MatchesIn(mem[n], dir[n].table, dir[n], log[n])
  BY <1>1 DEF JInv, KeptInv, Stale
<1> QED
  BY <1>1, <1>3, <1>4, <1>5, <1>6, <1>7, SettledSafe

\* A file that goes bad takes its own name out, and no other.
LEMMA RotSafe ==
  ASSUME NoneIsNoRecord, IInv, IInv', JInv, NEW n \in Names, Rot(n)
  PROVE  JInv'
<1>1. Idle /\ lost' = lost \cup {n} /\ UNCHANGED <<mem, log, cat, catOld, todo, at, acked, want, rows>>
  BY DEF Rot
<1>2. PICK f \in dir[n].files :
        dir' = [dir EXCEPT ![n].files = (@ \ {f}) \cup {[f EXCEPT !.ok = FALSE]}]
  BY DEF Rot
<1>3. /\ todo = <<>> /\ at.pc = "none" /\ acked = View(mem) /\ want = acked
      /\ \A k \in Names : Records(k) = {dir[k].table} /\ DirOK(dir[k])
      /\ \A k \in Names \ lost : cat[k] = None <=> mem[k] = None
      /\ \A k \in Names \ lost : mem[k] # None =>
           /\ ~mem[k].bad /\ Decodes(Claims(mem[k]), dir[k])
           /\ MatchesIn(mem[k], dir[k].table, dir[k], log[k])
  BY <1>1, IdleFacts
<1>4. PICK g : g = [f EXCEPT !.ok = FALSE]
  OBVIOUS
<1>5. g.rows = f.rows
  BY <1>3, <1>4 DEF DirOK, FilesOK, IsFile
<1>6. /\ dir'[n].files = (dir[n].files \ {f}) \cup {g} /\ dir'[n].table = dir[n].table
      /\ \A k \in Names : k # n => dir'[k] = dir[k]
  <2>1. dir = [k \in Names |-> dir[k]] /\ DOMAIN dir[n] = {"files", "table", "fresh", "old"}
    BY <1>3 DEF IInv, Shapes, DirOK
  <2> QED
    BY <1>2, <1>4, <2>1
<1>7. RowsInv'
  <2>1. FileRowsOK(dir'[n], rows)
    BY <1>2, <1>5, <1>6 DEF JInv, RowsInv, FileRowsOK
  <2> QED
    BY <1>1, <1>6, <2>1 DEF JInv, RowsInv
<1>8. \A k \in Names : \A T \in Records(k)' : T # None => T.wc <= Len(log'[k])
  <2>1. \A k \in Names : Records(k)' = {dir'[k].table}
    BY <1>1, <1>3 DEF IInv, DirInv, Records
  <2>2. \A k \in Names : dir'[k].table = dir[k].table
    BY <1>6
  <2> QED
    BY <1>1, <1>3, <2>1, <2>2 DEF JInv, CoverInv
<1>9. \A k \in Names \ lost' : k \notin lost /\ dir'[k] = dir[k]
  BY <1>1, <1>6
<1> QED
  BY <1>1, <1>3, <1>7, <1>8, <1>9, SettledSafe

\* What a crash leaves of a directory still has the files of its record.
LEMMA ImageNamed ==
  ASSUME NEW d, DirOK(d), NEW e \in Images(d) \cup {Synced(d)}
  PROVE  /\ e.table \in {d.table} \cup d.old
         /\ e.table # None => Named(e, e.table) = Named(d, e.table)
<1>1. PICK gone \in SUBSET d.fresh, tbl \in {d.table} \cup d.old :
        e.files = {f \in d.files : f.seq \notin gone} /\ e.table = tbl
  <2>1. CASE e = Synced(d)
    <3>1. e.files = d.files /\ e.table = d.table
      BY <2>1 DEF Synced, DirOK
    <3>2. {} \in SUBSET d.fresh /\ e.files = {f \in d.files : f.seq \notin {}}
      BY <3>1
    <3> QED
      BY <3>1, <3>2
  <2>2. CASE e \in Images(d)
    <3>1. PICK gone \in SUBSET d.fresh, tbl \in {d.table} \cup d.old : e = Image(d, gone, tbl)
      BY <2>2 DEF Images
    <3>2. e.files = {f \in d.files : f.seq \notin gone} /\ e.table = tbl
      BY <3>1 DEF DirOK, Image
    <3> QED
      BY <3>2
  <2> QED
    BY <2>1, <2>2
<1>2. ASSUME tbl # None PROVE Named(e, tbl) = Named(d, tbl)
  <2>1. tbl.files \cap d.fresh = {}
    BY <1>2 DEF DirOK, RecordOK
  <2> QED
    BY <1>1, <2>1 DEF Named
<1> QED
  BY <1>1, <1>2

\* Opening a directory reads its record and its files.
LEMMA LoadReads ==
  ASSUME NEW d, NEW e, e.files = d.files, e.table = d.table, NEW def, NEW l
  PROVE  Load(def, e, l) = Load(def, d, l)
<1>1. Adopted(e) = Adopted(d) /\ (Readable(e) <=> Readable(d))
  BY DEF Adopted, Readable
<1> QED
  BY <1>1 DEF Load

\* load_catalog gives a table for every name in the roster.
LEMMA LoadSome ==
  ASSUME NoneIsNothing, NEW def, NEW d, NEW l
  PROVE  Load(def, d, l) # None
<1>1. ASSUME NEW x, NEW ps, NEW y
      PROVE  Table(x, ps, y) # None /\ Quarantined(x) # None /\ \A recs : Replay(Table(x, ps, y), recs) # None
  <2>1. Table(x, ps, y) # None
    BY DEF Table, NoneIsNothing
  <2>2. Quarantined(x) # None
    <3>1. PICK t : t = Quarantined(x)
      OBVIOUS
    <3>2. t = [k \in {"def", "bad", "delta", "parts", "next"} |-> t[k]]
      BY <3>1 DEF Quarantined, Table
    <3> QED
      BY <3>1, <3>2, ShapeIsTable
  <2>3. ASSUME NEW recs PROVE Replay(Table(x, ps, y), recs) # None
    <3>1. PICK t : t = Replay(Table(x, ps, y), recs)
      OBVIOUS
    <3>2. t = [k \in {"def", "bad", "delta", "parts", "next"} |-> t[k]]
      BY <3>1 DEF Replay, Table
    <3> QED
      BY <3>1, <3>2, ShapeIsTable
  <2> QED
    BY <2>1, <2>2, <2>3
<1> DEFINE ps == Adopted(d)
           t == Table(d.table.def, ps, IF ps = {} THEN Seeded(d.table.wc) ELSE 1 + Max({p.pid : p \in ps}))
<1>2. Load(def, d, l) \in {Table(def, {}, Seeded(Len(l))), Replay(t, Suffix(l, d.table.wc)), Quarantined(d.table.def)}
  BY DEF Load
<1>3. Replay(t, Suffix(l, d.table.wc)) # None /\ Table(def, {}, Seeded(Len(l))) # None /\ Quarantined(d.table.def) # None
  <2> HIDE DEF ps
  <2> QED
    BY <1>1
<1> HIDE DEF t
<1> QED
  BY <1>2, <1>3

\* One table, opened after a crash: it is what was acknowledged or what the
\* running statement was about to, and it matches its directory.
LEMMA OpenedTable ==
  ASSUME NoneIsNothing, NoneIsNoRecord, IInv, JInv, NEW n \in Names, NEW r \in Rosters, r[n] # None,
         NEW e \in Images(dir[n]) \cup {Synced(dir[n])}, NEW u, u = Load(r[n], e, log[n])
  PROVE  /\ u # None /\ RowsOK(u, rows) /\ u.bad \in BOOLEAN
         /\ n \notin lost => /\ Contents(u) \in {acked[n], want[n]} /\ u.bad = FALSE
                             /\ Decodes(Claims(u), e) /\ MatchesIn(u, e.table, e, log[n])
<1> DEFINE l == log[n]
           d == dir[n]
<1>1. DirOK(d) /\ IsSeq(l) /\ rows \in Nat /\ FileRowsOK(d, rows) /\ LogRowsOK(l, rows)
  BY DEF IInv, DirInv, Shapes, JInv, RowsInv
<1>2. DirOK(e) /\ e.files \subseteq d.files
  BY <1>1, ImagesOK
<1>3. /\ e.table \in Records(n)
      /\ e.table # None => Named(e, e.table) = Named(d, e.table)
  BY <1>1, ImageNamed DEF Records
<1>4. FileRowsOK(e, rows) /\ (e.table # None => e.table.wc <= Len(l))
  BY <1>1, <1>2, <1>3 DEF FileRowsOK, JInv, CoverInv
<1>5. u # None
  BY LoadSome
<1>6. CASE e.table = None
  <2>1. u = Table(r[n], {}, Seeded(Len(l)))
    BY <1>6 DEF Load
  <2>2. u.delta = {} /\ u.parts = {} /\ u.bad = FALSE
    BY <2>1 DEF Table
  <2>3. RowsOK(u, rows) /\ u.bad \in BOOLEAN
    BY <2>2 DEF RowsOK
  <2>4. n \in lost
    BY <1>3, <1>6 DEF JInv, GivesInv, Gives
  <2> QED
    BY <1>5, <2>3, <2>4
<1>7. CASE e.table # None
  <2>1. /\ FoundIn(e.table, e, l) = [def |-> u.def, bad |-> u.bad, rows |-> TableRows(u)]
        /\ RowsOK(u, rows) /\ u.bad \in BOOLEAN
        /\ ~u.bad => Matches(u, e.table, Named(e, e.table), Suffix(l, e.table.wc)) /\ Decodes(Claims(u), e)
    <3>1. PICK def : def = r[n]
      OBVIOUS
    <3>2. PICK k \in Nat : k = rows
      BY <1>1
    <3>3. u = Load(def, e, l) /\ DirOK(e) /\ e.table # None /\ IsSeq(l) /\ FileRowsOK(e, k) /\ LogRowsOK(l, k)
      BY <1>1, <1>2, <1>4, <1>7, <3>1, <3>2
    <3> HIDE DEF l, d
    <3>4. /\ Found(e.table, Named(e, e.table), Suffix(l, e.table.wc)) = [def |-> u.def, bad |-> u.bad, rows |-> TableRows(u)]
          /\ RowsOK(u, k) /\ u.bad \in BOOLEAN
          /\ ~u.bad => Matches(u, e.table, Named(e, e.table), Suffix(l, e.table.wc)) /\ Decodes(Claims(u), e)
      BY ONLY <3>3, LoadFinds
    <3> QED
      BY <3>2, <3>4 DEF FoundIn
  <2>2. ASSUME n \notin lost PROVE Contents(u) \in {acked[n], want[n]}
    <3>1. FoundIn(e.table, e, l) = FoundIn(e.table, d, l)
      BY <1>3, <1>7, SameNamed
    <3>2. FoundIn(e.table, d, l) \in {acked[n], want[n]}
      BY <1>3, <2>2 DEF JInv, GivesInv, Gives
    <3>3. Contents(u) = FoundIn(e.table, e, l)
      BY <1>5, <2>1 DEF Contents
    <3> QED
      BY <3>1, <3>2, <3>3
  <2>3. ASSUME n \notin lost PROVE u.bad = FALSE
    <3>1. Contents(u) # None /\ Contents(u).bad = u.bad
      BY <1>5, ContentsSome
    <3>2. acked[n] # None => ~acked[n].bad
      BY <2>3 DEF JInv, SoundInv
    <3>3. want[n] # None => ~want[n].bad
      <4>1. want[n] = Contents(mem[n])
        BY DEF JInv, StmtInv, View
      <4>2. mem[n] # None => ~mem[n].bad
        BY <2>3 DEF JInv, KeptInv
      <4> QED
        BY <4>1, <4>2, ContentsSome
    <3>4. ~Contents(u).bad
      BY <2>2, <2>3, <3>1, <3>2, <3>3
    <3> QED
      BY <2>1, <3>1, <3>4
  <2>4. ASSUME n \notin lost PROVE Decodes(Claims(u), e) /\ MatchesIn(u, e.table, e, l)
    BY <1>7, <2>1, <2>3, <2>4 DEF MatchesIn
  <2> QED
    BY <1>5, <2>1, <2>2, <2>3, <2>4 DEF l
<1> QED
  BY <1>6, <1>7

\* The directory is opened again, after a crash or a power loss.
LEMMA ReopenSafe ==
  ASSUME NoneIsNothing, NoneIsNoRecord, IInv, IInv', JInv, NEW r \in Rosters, cat' = r, NEW m, Reopen(m), NEW ds, dir' = ds,
         \A n \in Names : ds[n] \in Images(dir[n]) \cup {Synced(dir[n])},
         \A n \in Names : m[n] = IF r[n] = None THEN None ELSE Load(r[n], ds[n], log[n])
  PROVE  JInv'
<1>1. /\ mem' = m /\ acked' = View(mem') /\ want' = acked' /\ todo' = <<>> /\ at'.pc = "none"
      /\ UNCHANGED <<log, lost, rows>>
  BY DEF Reopen, NotWriting
<1>2. ASSUME NEW n \in Names, r[n] # None
      PROVE  /\ m[n] # None /\ RowsOK(m[n], rows) /\ m[n].bad \in BOOLEAN
             /\ n \notin lost => /\ m[n].bad = FALSE /\ Decodes(Claims(m[n]), ds[n])
                                 /\ MatchesIn(m[n], ds[n].table, ds[n], log[n])
  <2>1. PICK e \in Images(dir[n]) \cup {Synced(dir[n])} : e = ds[n]
    OBVIOUS
  <2>2. m[n] = Load(r[n], e, log[n])
    BY <1>2, <2>1
  <2> QED
    BY <1>2, <2>1, <2>2, OpenedTable
<1>3. ASSUME NEW n \in Names PROVE FileRowsOK(ds[n], rows) /\ \A T \in Records(n)' : T # None => T.wc <= Len(log[n])
  <2>1. PICK e \in Images(dir[n]) \cup {Synced(dir[n])} : e = ds[n]
    OBVIOUS
  <2>2. DirOK(dir[n]) /\ FileRowsOK(dir[n], rows)
    BY DEF IInv, DirInv, JInv, RowsInv
  <2>3. e.files \subseteq dir[n].files /\ e.old = {} /\ e.table \in Records(n)
    BY <2>2, ImagesOK, ImageNamed DEF Records
  <2>4. e.table # None => e.table.wc <= Len(log[n])
    BY <2>3 DEF JInv, CoverInv
  <2>5. Records(n)' = {e.table}
    BY <2>1, <2>3 DEF Records
  <2> QED
    BY <2>1, <2>2, <2>3, <2>4, <2>5 DEF FileRowsOK
<1>4. RowsInv'
  <2>1. \A n \in Names : mem'[n] # None => RowsOK(mem'[n], rows) /\ mem'[n].bad \in BOOLEAN
    BY <1>1, <1>2
  <2> QED
    BY <1>1, <1>3, <2>1 DEF JInv, RowsInv
<1>5. \A n \in Names : cat'[n] = None <=> mem'[n] = None
  BY <1>1, <1>2
<1>6. \A n \in Names \ lost' : mem'[n] # None =>
        ~mem'[n].bad /\ Decodes(Claims(mem'[n]), dir'[n]) /\ MatchesIn(mem'[n], dir'[n].table, dir'[n], log'[n])
  BY <1>1, <1>2
<1>7. \A n \in Names : \A T \in Records(n)' : T # None => T.wc <= Len(log'[n])
  BY <1>1, <1>3
<1> QED
  BY <1>1, <1>4, <1>5, <1>6, <1>7, SettledSafe

\* A crash, and a power loss.
LEMMA CrashStepsSafe ==
  ASSUME NoneIsNothing, NoneIsNoRecord, WrittenBack, IInv, IInv', JInv, Kill \/ PowerLoss
  PROVE  JInv'
<1>1. CASE Kill
  <2>1. /\ Reopen(LoadCatalog(cat, dir)) /\ dir' = [n \in Names |-> Synced(dir[n])] /\ cat' = cat
    BY <1>1 DEF Kill, WrittenBack
  <2>2. PICK ds : ds = [n \in Names |-> Synced(dir[n])]
    OBVIOUS
  <2>3. PICK m : m = LoadCatalog(cat, dir)
    OBVIOUS
  <2>4. ASSUME NEW n \in Names PROVE m[n] = IF cat[n] = None THEN None ELSE Load(cat[n], ds[n], log[n])
    <3>1. ds[n].files = dir[n].files /\ ds[n].table = dir[n].table
      <4>1. DOMAIN dir[n] = {"files", "table", "fresh", "old"} /\ ds[n] = Synced(dir[n])
        BY <2>2 DEF IInv, DirInv, DirOK
      <4> QED
        BY ONLY <4>1 DEF Synced
    <3>2. Load(cat[n], ds[n], log[n]) = Load(cat[n], dir[n], log[n])
      BY <3>1, LoadReads
    <3> QED
      BY <2>3, <3>2 DEF LoadCatalog
  <2>5. \A n \in Names : ds[n] \in Images(dir[n]) \cup {Synced(dir[n])}
    BY <2>2
  <2>6. cat \in Rosters
    BY DEF Rosters
  <2> QED
    BY <2>1, <2>2, <2>3, <2>4, <2>5, <2>6, ReopenSafe
<1>2. CASE PowerLoss
  <2>1. dir' \in AllImages /\ cat' \in Rosters /\ Reopen(LoadCatalog(cat', dir'))
    BY <1>2 DEF PowerLoss
  <2>2. PICK r, ds : r = cat' /\ ds = dir'
    OBVIOUS
  <2>3. PICK m : m = LoadCatalog(r, ds)
    OBVIOUS
  <2>4. \A n \in Names : ds[n] \in Images(dir[n]) \cup {Synced(dir[n])}
    BY <2>1, <2>2 DEF AllImages
  <2>5. \A n \in Names : m[n] = IF r[n] = None THEN None ELSE Load(r[n], ds[n], log[n])
    BY <2>3 DEF LoadCatalog
  <2> QED
    BY <2>1, <2>2, <2>3, <2>4, <2>5, ReopenSafe
<1> QED
  BY <1>1, <1>2

-----------------------------------------------------------------------------
(* The theorems.                                                            *)

\* A new data directory.
LEMMA InitSafe ==
  ASSUME Init
  PROVE  JInv
<1>1. /\ \A n \in Names : mem[n] = None /\ log[n] = <<>> /\ dir[n] = NoDir /\ cat[n] = None /\ acked[n] = None
      /\ want = acked /\ todo = <<>> /\ at.pc = "none" /\ catOld = {} /\ lost = {} /\ rows = 0
  BY DEF Init, NotWriting
<1>2. NoDir.files = {} /\ NoDir.table = None /\ NoDir.old = {}
  BY DEF NoDir
<1>3. RowsInv
  BY <1>1, <1>2 DEF RowsInv, FileRowsOK, LogRowsOK
<1>4. \A n \in Names : Records(n) = {None}
  BY <1>1, <1>2 DEF Records
<1>5. CoverInv
  BY <1>1, <1>4 DEF CoverInv, Writing
<1>6. StmtInv
  <2>1. want = View(mem)
    BY DEF Init, View, Contents
  <2> QED
    BY <1>1, <2>1 DEF StmtInv, Flushed
<1>7. KeptInv /\ NamesInv /\ LinkedInv /\ SoundInv
  BY <1>1 DEF KeptInv, NamesInv, LinkedInv, SoundInv, Writing
<1>8. Rosters = {cat}
  BY <1>1 DEF Rosters
<1>9. GivesInv /\ MovedInv /\ ListedInv
  BY <1>1, <1>8 DEF GivesInv, Gives, MovedInv, ListedInv, Listed
<1> QED
  BY <1>3, <1>5, <1>6, <1>7, <1>9 DEF JInv

\* Every statement keeps the invariant.
LEMMA StatementSafe ==
  ASSUME NoneIsNothing, NoneIsNoRecord, IInv, JInv, Statement
  PROVE  JInv'
<1>1. ASSUME NEW n \in Names, Insert(n) \/ MergeParts(n) \/ Fold(n) PROVE JInv'
  BY <1>1, InsertSafe, MergePartsSafe, WriteOneSafe
<1>2. ASSUME NEW n \in Names, Create(n) \/ Drop(n) \/ Truncate(n) \/ Alter(n) PROVE JInv'
  BY <1>2, DdlSafe
<1>3. ASSUME NEW n \in Names, NEW S \in SUBSET (1..rows), Sweep(n, S) \/ DarkSweep(n, S) PROVE JInv'
  BY <1>3, SweepSafe, WriteOneSafe
<1>4. ASSUME NEW n \in Names, NEW k \in Names, Rename(n, k) PROVE JInv'
  BY <1>4, RenameSafe
<1>5. ASSUME FlushBuffers \/ CheckpointStmt PROVE JInv'
  BY <1>5, FlushBuffersSafe, CheckpointStmtSafe
<1> QED
  BY <1>1, <1>2, <1>3, <1>4, <1>5, Zenon DEF Statement

\* Every step of a checkpoint keeps the invariant.
LEMMA CheckpointStepSafe ==
  ASSUME NoneIsNothing, NoneIsNoRecord, IInv, IInv', JInv, CheckpointStep
  PROVE  JInv'
<1>1. CASE StartTable
  BY <1>1, StartWriteSafe, PassStepsSafe
<1>2. CASE CommitCatalog
  BY <1>2, CommitCatalogSafe, PassStepsSafe
<1>3. CASE SyncCatalog
  BY <1>3, PassStepsSafe
<1>4. CASE PublishPart \/ SyncParts \/ CommitTable \/ SyncTable \/ FinishTable
  BY <1>4, PublishPartSafe, SyncSafe, CommitTableSafe, FinishTableSafe
<1>5. CASE CollectDropped \/ Link \/ Move \/ MoveRefused
  BY <1>5, CollectDroppedSafe, LinkSafe, MoveSafe, MoveRefusedSafe
<1> QED
  BY <1>1, <1>2, <1>3, <1>4, <1>5 DEF CheckpointStep

\* A step that changes nothing keeps the invariant.
LEMMA StutterSafe ==
  ASSUME JInv, UNCHANGED vars
  PROVE  JInv'
<1>1. UNCHANGED <<mem, log, dir, cat, catOld, todo, at, acked, want, lost, rows>>
  BY DEF vars
<1>2. RowsInv' /\ CoverInv' /\ StmtInv'
  BY <1>1 DEF JInv, RowsInv, CoverInv, Records, Writing, StmtInv, Idle
<1>3. KeptInv' /\ NamesInv'
  BY <1>1 DEF JInv, KeptInv, Stale, NamesInv, Writing
<1>4. GivesInv' /\ MovedInv'
  BY <1>1 DEF JInv, GivesInv, Gives, Records, Rosters, MovedInv
<1>5. ListedInv' /\ LinkedInv' /\ SoundInv'
  BY <1>1 DEF JInv, ListedInv, Listed, Rosters, LinkedInv, SoundInv
<1> QED
  BY <1>2, <1>3, <1>4, <1>5 DEF JInv

\* Every step keeps the invariant.
LEMMA StepSafe ==
  ASSUME NoneIsNothing, NoneIsNoRecord, WrittenBack, IInv, JInv, [Next]_vars
  PROVE  JInv'
<1>1. IInv'
  BY StepInv
<1>2. CASE Statement
  BY <1>2, StatementSafe
<1>3. CASE CheckpointStep
  BY <1>1, <1>3, CheckpointStepSafe
<1>4. CASE Kill \/ PowerLoss
  BY <1>1, <1>4, CrashStepsSafe
<1>5. CASE CheckpointFails
  BY <1>1, <1>5, CheckpointFailsSafe
<1>6. CASE \E n \in Names : Rot(n)
  BY <1>1, <1>6, RotSafe
<1>7. CASE UNCHANGED vars
  BY <1>7, StutterSafe
<1> QED
  BY <1>2, <1>3, <1>4, <1>5, <1>6, <1>7 DEF Next

\* What is on disk accounts for what is in memory, along every behaviour in
\* which renames are written back before the process is gone.
THEOREM RecoveryInvariant ==
  ASSUME NoneIsNothing, NoneIsNoRecord, WrittenBack
  PROVE  Spec => [](IInv /\ JInv)
<1>1. Init => IInv /\ JInv
  BY InitInv, InitSafe
<1>2. IInv /\ JInv /\ [Next]_vars => IInv' /\ JInv'
  BY StepInv, StepSafe
<1> QED
  BY <1>1, <1>2, PTL DEF Spec

\* The statement in flight happened under all names or under none.
LEMMA AllOrNothing ==
  ASSUME NoneIsNothing, NoneIsNoRecord, IInv, JInv, NEW r \in Rosters, NEW ds \in AllImages, NEW m, m = LoadCatalog(r, ds)
  PROVE  Agree(m, acked) \/ Agree(m, want)
<1>1. ASSUME NEW n \in Names PROVE m[n] = None <=> r[n] = None
  BY LoadSome DEF LoadCatalog
<1>2. ASSUME NEW n \in Names \ lost PROVE Contents(m[n]) \in {acked[n], want[n]}
  <2>1. CASE r[n] = None
    <3>1. Contents(m[n]) = None
      BY <1>1, <2>1 DEF Contents
    <3>2. acked[n] = None \/ want[n] = None
      BY <2>1 DEF JInv, GivesInv, Gives
    <3> QED
      BY <3>1, <3>2
  <2>2. CASE r[n] # None
    <3>1. PICK e \in Images(dir[n]) \cup {Synced(dir[n])} : e = ds[n]
      BY DEF AllImages
    <3>2. m[n] = Load(r[n], e, log[n])
      BY <2>2, <3>1 DEF LoadCatalog
    <3> QED
      BY <2>2, <3>1, <3>2, OpenedTable
  <2> QED
    BY <2>1, <2>2
<1>3. \A n \in Names : Contents(m[n]) = None <=> r[n] = None
  BY <1>1, ContentsSome
<1>4. SUFFICES ASSUME NEW x \in Names \ lost, Contents(m[x]) # acked[x], NEW y \in Names \ lost
               PROVE  Contents(m[y]) = want[y]
  BY DEF Agree
<1>5. Contents(m[x]) = want[x] /\ acked[x] # want[x]
  BY <1>2, <1>4
<1>6. CASE acked[y] = want[y] \/ y = x
  BY <1>2, <1>5, <1>6
<1>7. CASE acked[y] # want[y] /\ y # x
  <2>1. /\ (want[x] = None /\ acked[y] = None) \/ (want[y] = None /\ acked[x] = None)
        /\ r[x] = None <=> r[y] # None
    BY <1>5, <1>7 DEF JInv, MovedInv
  <2>2. CASE want[x] = None /\ acked[y] = None
    <3>1. Contents(m[y]) # None
      BY <1>3, <1>5, <2>1, <2>2
    <3> QED
      BY <1>2, <2>2, <3>1
  <2>3. CASE want[y] = None /\ acked[x] = None
    BY <1>3, <1>4, <2>1, <2>3
  <2> QED
    BY <2>1, <2>2, <2>3
<1> QED
  BY <1>6, <1>7

\* load_catalog against write_table, save_catalog and the DDL statements: at
\* every moment, whatever a kill or a power loss leaves, opening the directory
\* gives what was acknowledged or what the running statement would have been,
\* under every undamaged name, and quarantines none of them.
THEOREM CrashIsSafe ==
  ASSUME NoneIsNothing, NoneIsNoRecord, WrittenBack
  PROVE  Spec => []CrashSafe
<1>1. IInv /\ JInv => CrashSafe
  BY AllOrNothing DEF CrashSafe
<1> QED
  BY <1>1, RecoveryInvariant, PTL
=============================================================================
