---------------------------- MODULE BackupProofs ----------------------------
(***************************************************************************)
(* A restore, whatever the source went through before it, wherever it is    *)
(* torn and however often it is tried again, leaves CATALOG only in a       *)
(* directory that has everything CATALOG names (module Backup), for any     *)
(* tables, paths and bounds.                                                *)
(*                                                                          *)
(* The property speaks of the log that would be recovered now, while the    *)
(* logs were laid one by one earlier.  The invariant therefore says of      *)
(* every phase what is in the directory: nothing before the restore begins, *)
(* no CATALOG while it unpacks or after it was torn, and every log laid so  *)
(* far the one that belongs to the archive and the target in hand.  A       *)
(* second attempt could take another archive or another target; that it     *)
(* finds the directory made, and refuses, is what keeps those logs right.   *)
(*                                                                          *)
(* The second half is about what a plain restore holds: the rows each table *)
(* had when the archive was taken.  BACKUP stores only the bodies that its  *)
(* base does not have, so the rows are reached along a chain of archives,   *)
(* each of which may be replaced or damaged later.  The invariant says that *)
(* an archive records what its tables held, and that every body it cites is *)
(* found along its chain, unless the chain is broken.                       *)
(***************************************************************************)
EXTENDS Backup, FiniteSetTheorems, WellFoundedInduction, TLAPS

\* The fields of a directory, and a log slot for every table.
DirShape ==
    /\ DOMAIN into = {"phase", "path", "target", "made", "done", "logs", "laid", "catalog", "result"}
    /\ DOMAIN into.logs = Tables /\ into.laid \subseteq Tables
    /\ into.phase \in {"none", "unpack", "prove", "torn", "done"}

\* Before the first write there is no directory.
NothingYet == into.phase = "none" => into.done = {} /\ into.laid = {} /\ ~into.catalog /\ ~into.made

\* What a torn restore leaves is a directory, and it has no CATALOG.
MadeButNot == into.phase \in {"unpack", "torn"} => into.made /\ ~into.catalog

\* The logs laid so far are those of the archive and the target in hand.
LogsLaid ==
    into.phase \in {"unpack", "prove"} \/ into.catalog =>
        \A t \in into.laid : into.logs[t] = Recover(t, archives[into.path].boundary, into.target)

\* CATALOG comes after everything it names, and before the directory is proved.
CatalogLast ==
    /\ into.phase = "prove" => into.catalog
    /\ into.catalog => into.phase \in {"prove", "done"} /\ Published

IInv == DirShape /\ NothingYet /\ MadeButNot /\ LogsLaid /\ CatalogLast

\* What is recovered depends on the archived log and nothing else.
LEMMA RecoverFrame ==
    ASSUME UNCHANGED source
    PROVE  \A t, b, g : Recover(t, b, g)' = Recover(t, b, g)
  BY DEF source, Recover

\* No step of the source touches the directory, and none happens once a
\* restore has begun.
LEMMA SourceSteps ==
    ASSUME Statement \/ Fault
    PROVE  into.phase = "none" /\ into' = into
<1>1. ASSUME NEW t \in Tables, NEW r \in Rows, InsertRow(t, r) PROVE into.phase = "none" /\ into' = into
  BY <1>1 DEF InsertRow, Room
<1>2. ASSUME NEW t \in Tables, NEW u \in Tables, NEW r \in Rows, InsertBoth(t, u, r) PROVE into.phase = "none" /\ into' = into
  BY <1>2 DEF InsertBoth, Room
<1>3. ASSUME NEW t \in Tables, NEW keep \in {0, MaxOps}, FoldOne(t, keep) PROVE into.phase = "none" /\ into' = into
  BY <1>3 DEF FoldOne, Room
<1>4. ASSUME NEW keep \in {0, MaxOps}, Checkpoint(keep) PROVE into.phase = "none" /\ into' = into
  BY <1>4 DEF Checkpoint, Room
<1>5. ASSUME NEW t \in Tables, NEW i \in 1..(Len(mem[t].parts) + 1), NEW pos \in 1..MaxRows, DeleteRow(t, i, pos)
      PROVE  into.phase = "none" /\ into' = into
  BY <1>5 DEF DeleteRow, Room
<1>6. ASSUME NEW t \in Tables, Truncate(t) PROVE into.phase = "none" /\ into' = into
  BY <1>6 DEF Truncate, Room
<1>7. ASSUME NEW t \in Tables, Drop(t) PROVE into.phase = "none" /\ into' = into
  BY <1>7 DEF Drop, Room
<1>8. ASSUME NEW t \in Tables, Create(t) PROVE into.phase = "none" /\ into' = into
  BY <1>8 DEF Create, Room
<1>9. ASSUME NEW p \in Paths, NEW b \in Paths \cup {NoPath}, Backup(p, b) PROVE into.phase = "none" /\ into' = into
  BY <1>9 DEF Backup, Room
<1>10. ASSUME Crash PROVE into.phase = "none" /\ into' = into
  BY <1>10 DEF Crash, Reopen, Room
<1>11. ASSUME NEW t \in Tables, NEW r \in Rows, CrashBeforeTick(t, r) PROVE into.phase = "none" /\ into' = into
  BY <1>11 DEF CrashBeforeTick, Reopen, Room
<1>12. ASSUME NEW p \in Paths, DamageArchive(p) PROVE into.phase = "none" /\ into' = into
  BY <1>12 DEF DamageArchive, Room
<1>13. ASSUME NEW t \in Tables, DamageLog(t) PROVE into.phase = "none" /\ into' = into
  BY <1>13 DEF DamageLog, Room
<1> QED
  BY <1>1, <1>2, <1>3, <1>4, <1>5, <1>6, <1>7, <1>8, <1>9, <1>10, <1>11, <1>12, <1>13 DEF Statement, Fault

\* A data directory that has never been restored.
LEMMA InitInv ==
    ASSUME Init
    PROVE  IInv
  BY DEF Init, NoDir, IInv, DirShape, NothingYet, MadeButNot, LogsLaid, CatalogLast

\* The invariant looks at the directory, the archives and the logs only.
LEMMA Frame ==
    ASSUME IInv, into' = into, into.phase = "none" \/ (UNCHANGED <<source, archives>>)
    PROVE  IInv'
<1>1. DirShape' /\ NothingYet' /\ MadeButNot'
  BY DEF IInv, DirShape, NothingYet, MadeButNot
<1>2. CASE into.phase = "none"
  <2>1. ~into'.catalog /\ into'.phase = "none"
    BY <1>2 DEF IInv, NothingYet
  <2> QED
    BY <2>1, <1>1 DEF IInv, LogsLaid, CatalogLast
<1>3. CASE UNCHANGED <<source, archives>>
  <2>1. LogsLaid'
    BY <1>3, RecoverFrame DEF IInv, LogsLaid
  <2>2. CatalogLast'
    BY <1>3 DEF IInv, CatalogLast, Published
  <2> QED
    BY <1>1, <2>1, <2>2 DEF IInv
<1> QED
  BY <1>2, <1>3

\* Each step of a restore keeps the invariant.
LEMMA BeginStep ==
    ASSUME IInv, NEW p \in Paths, NEW target, RestoreBegin(p, target)
    PROVE  IInv'
<1> DEFINE fresh == [into EXCEPT !.phase = "unpack", !.path = p, !.target = target, !.made = TRUE, !.result = "none"]
           refused == [into EXCEPT !.path = p, !.target = target, !.phase = "done", !.result = "refused"]
<1>1. into.phase \in {"none", "torn"} /\ (into' = fresh \/ into' = refused)
  BY DEF RestoreBegin, Refuse, IInv, DirShape
<1>2. into' = fresh => ~into.made
  BY <1>1 DEF RestoreBegin, Refuse, IInv, DirShape
<1>3. ~into.catalog
  BY <1>1 DEF IInv, NothingYet, MadeButNot
<1>4. CASE into' = fresh
  <2>1. into.phase = "none"
    BY <1>1, <1>2, <1>4 DEF IInv, MadeButNot
  <2>2. into'.phase = "unpack" /\ into'.made /\ into'.laid = {} /\ ~into'.catalog
    BY <2>1, <1>4 DEF IInv, DirShape, NothingYet
  <2>3. DirShape'
    BY <1>4 DEF IInv, DirShape
  <2> QED
    BY <2>2, <2>3 DEF IInv, NothingYet, MadeButNot, LogsLaid, CatalogLast
<1>5. CASE into' = refused
  <2>1. into'.phase = "done" /\ ~into'.catalog
    BY <1>3, <1>5 DEF IInv, DirShape
  <2>2. DirShape'
    BY <1>5 DEF IInv, DirShape
  <2> QED
    BY <2>1, <2>2 DEF IInv, NothingYet, MadeButNot, LogsLaid, CatalogLast
<1> QED
  BY <1>1, <1>4, <1>5

\* Unpacking a table adds its files to a directory that is already made.
LEMMA UnpackStep ==
    ASSUME IInv, NEW t \in Tables, UnpackTable(t)
    PROVE  IInv'
<1>1. /\ into.phase = "unpack" /\ into' = [into EXCEPT !.done = into.done \cup {t}]
      /\ archives' = archives /\ UNCHANGED source
  BY DEF UnpackTable
<1>2. DirShape' /\ NothingYet' /\ MadeButNot'
  BY <1>1 DEF IInv, DirShape, NothingYet, MadeButNot
<1>3. LogsLaid'
  BY <1>1, RecoverFrame DEF IInv, DirShape, LogsLaid
<1>4. CatalogLast'
  BY <1>1 DEF IInv, DirShape, MadeButNot, CatalogLast
<1> QED
  BY <1>2, <1>3, <1>4 DEF IInv

\* A laid log is there whole, and CATALOG is still missing.
LEMMA LayStep ==
    ASSUME IInv, NEW t \in Tables, LayLog(t)
    PROVE  IInv'
<1> DEFINE body == Recover(t, archives[into.path].boundary, into.target)
           longer == [into EXCEPT !.laid = into.laid \cup {t}, !.logs = [into.logs EXCEPT ![t] = body]]
           refused == [into EXCEPT !.phase = "done", !.result = "refused"]
<1>1. /\ into.phase = "unpack" /\ archives' = archives /\ UNCHANGED source
      /\ into' = longer \/ into' = refused
  BY DEF LayLog, Refuse, IInv, DirShape
<1>2. into.made /\ ~into.catalog
  BY <1>1 DEF IInv, MadeButNot
<1>3. CASE into' = longer
  <2>1. DirShape' /\ NothingYet' /\ MadeButNot' /\ CatalogLast'
    BY <1>1, <1>2, <1>3 DEF IInv, DirShape, NothingYet, MadeButNot, CatalogLast
  <2>2. into'.path = into.path /\ into'.target = into.target /\ into'.laid = into.laid \cup {t}
    BY <1>3 DEF IInv, DirShape
  <2>3. into'.logs = [into.logs EXCEPT ![t] = body]
    BY <1>3 DEF IInv, DirShape
  <2>4. ASSUME NEW u \in into.laid \cup {t}
        PROVE  into'.logs[u] = Recover(u, archives[into.path].boundary, into.target)
    <3>1. CASE u = t
      BY <2>3, <3>1 DEF IInv, DirShape
    <3>2. CASE u # t
      <4>1. into.logs[u] = Recover(u, archives[into.path].boundary, into.target)
        BY <1>1, <3>2 DEF IInv, LogsLaid
      <4>2. into'.logs[u] = into.logs[u]
        BY <2>3, <3>2 DEF IInv, DirShape
      <4> QED
        BY <4>1, <4>2
    <3> QED
      BY <3>1, <3>2
  <2>5. LogsLaid'
    BY <1>1, <2>2, <2>4, RecoverFrame DEF LogsLaid
  <2> QED
    BY <2>1, <2>5 DEF IInv
<1>4. CASE into' = refused
  <2>1. into'.phase = "done" /\ ~into'.catalog
    BY <1>2, <1>4 DEF IInv, DirShape
  <2>2. DirShape'
    BY <1>4 DEF IInv, DirShape
  <2> QED
    BY <2>1, <2>2 DEF IInv, NothingYet, MadeButNot, LogsLaid, CatalogLast
<1> QED
  BY <1>1, <1>3, <1>4

\* CATALOG is written when everything it speaks of is in place.
LEMMA PublishStep ==
    ASSUME IInv, PublishCatalog
    PROVE  IInv'
<1>1. /\ into.phase = "unpack" /\ Published /\ archives' = archives /\ UNCHANGED source
      /\ into' = [into EXCEPT !.catalog = TRUE, !.phase = IF into.target = Plain THEN "done" ELSE "prove",
                              !.result = IF into.target = Plain THEN "ok" ELSE "none"]
  BY DEF PublishCatalog
<1>2. /\ into'.catalog /\ into'.phase \in {"done", "prove"} /\ into'.done = into.done /\ into'.laid = into.laid
      /\ into'.path = into.path /\ into'.target = into.target /\ into'.logs = into.logs
  BY <1>1 DEF IInv, DirShape
<1>3. DirShape'
  BY <1>1 DEF IInv, DirShape
<1>4. LogsLaid'
  BY <1>1, <1>2, RecoverFrame DEF IInv, LogsLaid
<1>5. CatalogLast'
  BY <1>1, <1>2 DEF CatalogLast, Published
<1> QED
  BY <1>2, <1>3, <1>4, <1>5 DEF IInv, NothingYet, MadeButNot

\* The proof reads, and changes nothing.
LEMMA ProveStep ==
    ASSUME IInv, Prove
    PROVE  IInv'
<1>1. PICK r : /\ into.phase = "prove" /\ archives' = archives /\ UNCHANGED source
               /\ into' = [into EXCEPT !.phase = "done", !.result = r]
  BY DEF Prove
<1>2. /\ into'.phase = "done" /\ into'.done = into.done /\ into'.laid = into.laid /\ into'.catalog = into.catalog
      /\ into'.path = into.path /\ into'.target = into.target /\ into'.logs = into.logs
  BY <1>1 DEF IInv, DirShape
<1>3. DirShape'
  BY <1>1 DEF IInv, DirShape
<1>4. LogsLaid'
  BY <1>1, <1>2, RecoverFrame DEF IInv, LogsLaid
<1>5. CatalogLast'
  BY <1>1, <1>2 DEF IInv, CatalogLast, Published
<1> QED
  BY <1>2, <1>3, <1>4, <1>5 DEF IInv, NothingYet, MadeButNot

\* A restore that stops leaves a directory the next one refuses.
LEMMA TearStep ==
    ASSUME IInv, TearRestore
    PROVE  IInv'
<1>1. /\ into.phase \in {"unpack", "prove"} /\ archives' = archives /\ UNCHANGED source
      /\ into' = [into EXCEPT !.phase = IF into.catalog THEN "done" ELSE "torn", !.result = "none"]
  BY DEF TearRestore
<1>2. /\ into'.phase = IF into.catalog THEN "done" ELSE "torn"
      /\ into'.done = into.done /\ into'.laid = into.laid /\ into'.catalog = into.catalog
      /\ into'.path = into.path /\ into'.target = into.target /\ into'.logs = into.logs /\ into'.made = into.made
  BY <1>1 DEF IInv, DirShape
<1>3. DirShape'
  BY <1>1 DEF IInv, DirShape
<1>4. LogsLaid'
  BY <1>1, <1>2, RecoverFrame DEF IInv, LogsLaid
<1>5. CatalogLast'
  BY <1>1, <1>2 DEF IInv, CatalogLast, Published
<1>6. NothingYet'
  BY <1>2 DEF NothingYet
<1>7. MadeButNot'
  <2>1. ~into.catalog => into.phase = "unpack"
    BY <1>1 DEF IInv, CatalogLast
  <2>2. ~into.catalog => into.made
    BY <2>1 DEF IInv, MadeButNot
  <2> QED
    BY <1>2, <2>2 DEF MadeButNot
<1> QED
  BY <1>3, <1>4, <1>5, <1>6, <1>7 DEF IInv

\* Every step keeps the invariant.
LEMMA StepInv ==
    ASSUME IInv, [Next]_vars
    PROVE  IInv'
<1>1. CASE Statement \/ Fault
  BY <1>1, SourceSteps, Frame
<1>2. ASSUME NEW p \in Paths, NEW target \in Targets \cup {Plain}, RestoreBegin(p, target) PROVE IInv'
  BY <1>2, BeginStep
<1>3. ASSUME NEW t \in Tables, UnpackTable(t) \/ LayLog(t) PROVE IInv'
  BY <1>3, UnpackStep, LayStep
<1>4. CASE PublishCatalog \/ Prove \/ TearRestore
  BY <1>4, PublishStep, ProveStep, TearStep
<1>5. CASE UNCHANGED vars
  BY <1>5, Frame DEF vars, source
<1> QED
  BY <1>1, <1>2, <1>3, <1>4, <1>5 DEF Next, RestoreStep

\* The invariant holds in every reachable state, with no assumption on the
\* constants.
THEOREM InductiveInvariant == Spec => []IInv
<1>1. Init => IInv
  BY InitInv
<1>2. IInv /\ [Next]_vars => IInv'
  BY StepInv
<1> QED
  BY <1>1, <1>2, PTL DEF Spec

\* A directory that a session would open has every table of the archive and,
\* beside each, the log that belongs to the archive and the target: no crash
\* in the middle of a restore, no damaged segment and no second attempt leaves
\* one that opens as less (unpack's publish, restore_until).
THEOREM HalfRestoresNeverOpen == Spec => []TornRestoreRefused
<1>1. IInv => TornRestoreRefused
  <2> SUFFICES ASSUME IInv, into.catalog PROVE TornRestoreRefused
    BY DEF TornRestoreRefused
  <2>1. Published /\ \A t \in into.laid : into.logs[t] = Recover(t, archives[into.path].boundary, into.target)
    BY DEF IInv, CatalogLast, LogsLaid
  <2> QED
    BY <2>1 DEF TornRestoreRefused, From, Published
<1> QED
  BY <1>1, InductiveInvariant, PTL

-----------------------------------------------------------------------------
(* Lists in order.                                                          *)

\* R orders S: strictly, and any two members.
Orders(R, S) ==
    /\ \A x \in S : <<x, x>> \notin R
    /\ \A x, y, z \in S : <<x, y>> \in R /\ <<y, z>> \in R => <<x, z>> \in R
    /\ \A x, y \in S : x = y \/ <<x, y>> \in R \/ <<y, x>> \in R

\* A finite set can be listed in any such order: a member's place is the
\* number of members before it.
LEMMA Listing ==
    ASSUME NEW S, NEW R, IsFiniteSet(S), Orders(R, S)
    PROVE  \E f \in [1..Cardinality(S) -> S] :
              /\ \A i, j \in 1..Cardinality(S) : i < j => <<f[i], f[j]>> \in R
              /\ \A x \in S : \E i \in 1..Cardinality(S) : f[i] = x
<1> DEFINE n == Cardinality(S)
           Before(x) == {y \in S : <<y, x>> \in R}
           place == [x \in S |-> Cardinality(Before(x)) + 1]
<1>1. n \in Nat
  BY FS_CardinalityType
<1>2. ASSUME NEW x \in S PROVE IsFiniteSet(Before(x)) /\ Cardinality(Before(x)) \in Nat /\ place[x] \in 1..n
  <2>1. Before(x) \in SUBSET (S \ {x})
    BY DEF Orders
  <2>2. IsFiniteSet(S \ {x}) /\ Cardinality(S \ {x}) = n - 1
    BY FS_RemoveElement
  <2>3. IsFiniteSet(Before(x)) /\ Cardinality(Before(x)) <= n - 1
    <3> HIDE DEF Before, n
    <3> QED
      BY <2>1, <2>2, FS_Subset
  <2>4. Cardinality(Before(x)) \in Nat
    BY <2>3, FS_CardinalityType
  <2>5. place[x] = Cardinality(Before(x)) + 1
    OBVIOUS
  <2> HIDE DEF place, Before, n
  <2> QED
    BY <1>1, <2>3, <2>4, <2>5
<1>3. ASSUME NEW x \in S, NEW y \in S, <<x, y>> \in R PROVE place[x] < place[y]
  <2>1. Before(x) \in SUBSET Before(y)
    BY <1>3 DEF Orders
  <2>2. x \in Before(y) /\ x \notin Before(x)
    BY <1>3 DEF Orders
  <2>3. Cardinality(Before(x)) <= Cardinality(Before(y)) /\ Cardinality(Before(y)) # Cardinality(Before(x))
    BY <1>2, <2>1, <2>2, FS_Subset
  <2>4. Cardinality(Before(x)) \in Nat /\ Cardinality(Before(y)) \in Nat
    BY <1>2
  <2>5. place[x] = Cardinality(Before(x)) + 1 /\ place[y] = Cardinality(Before(y)) + 1
    OBVIOUS
  <2> HIDE DEF place, Before
  <2> QED
    BY <2>3, <2>4, <2>5
<1>4. place \in [S -> 1..n]
  BY <1>2
<1> HIDE DEF place, Before, n
<1>5. place \in Injection(S, 1..n)
  <2>1. ASSUME NEW x \in S, NEW y \in S, place[x] = place[y] PROVE x = y
    <3>1. place[x] \in 1..n /\ place[y] \in 1..n
      BY <1>4
    <3>2. ~(place[x] < place[y]) /\ ~(place[y] < place[x])
      BY <1>1, <2>1, <3>1
    <3> QED
      BY <1>3, <3>2 DEF Orders
  <2> QED
    BY <1>4, <2>1 DEF Injection, IsInjective
<1>6. IsFiniteSet(1..n) /\ Cardinality(1..n) = n
  BY <1>1, FS_Interval
<1>7. place \in Surjection(S, 1..n)
  BY <1>5, <1>6, FS_Injection DEF n
<1>8. \A i \in 1..n : \E x \in S : place[x] = i
  BY <1>7 DEF Surjection
<1> DEFINE f == [i \in 1..n |-> CHOOSE x \in S : place[x] = i]
<1>9. ASSUME NEW i \in 1..n PROVE f[i] \in S /\ place[f[i]] = i
  BY <1>8
<1>10. f \in [1..n -> S]
  BY <1>9
<1> HIDE DEF f
<1>11. ASSUME NEW i \in 1..n, NEW j \in 1..n, i < j PROVE <<f[i], f[j]>> \in R
  <2>1. f[i] \in S /\ f[j] \in S /\ place[f[i]] = i /\ place[f[j]] = j
    BY <1>9
  <2>2. f[i] # f[j]
    BY <1>1, <1>11, <2>1
  <2>3. ~(j < i)
    BY <1>1, <1>11
  <2>4. <<f[j], f[i]>> \notin R
    BY <1>3, <2>1, <2>3
  <2> QED
    BY <2>1, <2>2, <2>4 DEF Orders
<1>12. ASSUME NEW x \in S PROVE \E i \in 1..n : f[i] = x
  <2>1. place[x] \in 1..n
    BY <1>4
  <2>2. f[place[x]] \in S /\ place[f[place[x]]] = place[x]
    BY <1>9, <2>1
  <2>3. f[place[x]] = x
    BY <1>5, <2>2 DEF Injection, IsInjective
  <2> QED
    BY <2>1, <2>3
<1> QED
  BY <1>10, <1>11, <1>12 DEF n

\* InOrder lists a set of numbers.
LEMMA InOrderLists ==
    ASSUME NEW S \in SUBSET Nat, IsFiniteSet(S)
    PROVE  Cardinality(S) \in Nat /\ InOrder(S) \in [1..Cardinality(S) -> S]
<1> DEFINE n == Cardinality(S)
           R == {z \in Nat \X Nat : z[1] < z[2]}
<1>1. Orders(R, S)
  BY DEF Orders
<1>2. \E f \in [1..n -> S] : \A i, j \in 1..n : i < j => <<f[i], f[j]>> \in R
  <2> HIDE DEF R
  <2> QED
    BY <1>1, Listing
<1>3. \E f \in [1..n -> S] : \A i, j \in 1..n : i < j => f[i] < f[j]
  <2>1. PICK f \in [1..n -> S] : \A i, j \in 1..n : i < j => <<f[i], f[j]>> \in R
    BY <1>2
  <2>2. \A i, j \in 1..n : i < j => f[i] < f[j]
    BY <2>1
  <2> QED
    BY <2>1, <2>2
<1>4. n \in Nat
  BY FS_CardinalityType
<1> QED
  BY <1>3, <1>4 DEF InOrder

\* A flush sorts the rows of the delta, and keeps every copy.
LEMMA SortedKeeps ==
    ASSUME NEW d \in Seq(Rows)
    PROVE  Sorted(d) \in Seq(Rows) /\ \A r : Occurs(Sorted(d), r) = Occurs(d, r)
<1> DEFINE D == DOMAIN d
           n == Len(d)
           R == {z \in D \X D : d[z[1]] > d[z[2]] \/ (d[z[1]] = d[z[2]] /\ z[1] < z[2])}
           Good(f) == \A i, j \in D : i < j => d[f[i]] >= d[f[j]] /\ f[i] # f[j]
<1>1. n \in Nat /\ D = 1..n /\ \A i \in D : d[i] \in Int
  BY BackupAssumption DEF Rows
<1>2. Orders(R, D)
  <2>1. \A i, j \in D : <<i, j>> \in R <=> (d[i] > d[j] \/ (d[i] = d[j] /\ i < j))
    OBVIOUS
  <2> HIDE DEF R, D, n
  <2>2. \A i \in D : i \in Int
    BY <1>1
  <2>3. ASSUME NEW i \in D PROVE <<i, i>> \notin R
    <3>1. d[i] \in Int /\ i \in Int
      BY <1>1, <2>2
    <3>2. ~(d[i] > d[i] \/ (d[i] = d[i] /\ i < i))
      BY <3>1
    <3> QED
      BY <2>1, <3>2
  <2>4. ASSUME NEW i \in D, NEW j \in D PROVE i = j \/ <<i, j>> \in R \/ <<j, i>> \in R
    <3>1. d[i] \in Int /\ d[j] \in Int /\ i \in Int /\ j \in Int
      BY <1>1, <2>2
    <3>2. i = j \/ (d[i] > d[j] \/ (d[i] = d[j] /\ i < j)) \/ (d[j] > d[i] \/ (d[j] = d[i] /\ j < i))
      BY <3>1
    <3> QED
      BY <2>1, <3>2
  <2>5. ASSUME NEW i \in D, NEW j \in D, NEW k \in D, <<i, j>> \in R, <<j, k>> \in R PROVE <<i, k>> \in R
    <3>1. d[i] \in Int /\ d[j] \in Int /\ d[k] \in Int /\ i \in Int /\ j \in Int /\ k \in Int
      BY <1>1, <2>2
    <3>2. d[i] > d[j] \/ (d[i] = d[j] /\ i < j)
      BY <2>1, <2>5
    <3>3. d[j] > d[k] \/ (d[j] = d[k] /\ j < k)
      BY <2>1, <2>5
    <3>4. d[i] > d[k] \/ (d[i] = d[k] /\ i < k)
      BY <3>1, <3>2, <3>3
    <3> QED
      BY <2>1, <3>4
  <2> QED
    BY <2>3, <2>4, <2>5 DEF Orders
<1>3. IsFiniteSet(D) /\ Cardinality(D) = n
  BY <1>1, FS_Interval
<1> HIDE DEF D, n
<1>4. PICK g \in [1..n -> D] : \A i, j \in 1..n : i < j => <<g[i], g[j]>> \in R
  <2> HIDE DEF R
  <2> QED
    BY <1>2, <1>3, Listing
<1>5. g \in [D -> D] /\ Good(g)
  <2>1. ASSUME NEW i \in D, NEW j \in D, i < j PROVE d[g[i]] >= d[g[j]] /\ g[i] # g[j]
    <3>1. <<g[i], g[j]>> \in R /\ g[i] \in D /\ g[j] \in D
      BY <1>1, <1>4, <2>1
    <3>2. d[g[i]] > d[g[j]] \/ (d[g[i]] = d[g[j]] /\ g[i] < g[j])
      BY <3>1
    <3>3. d[g[i]] \in Int /\ d[g[j]] \in Int /\ g[i] \in Int /\ g[j] \in Int
      BY <1>1, <3>1
    <3> HIDE DEF R
    <3> QED
      BY <3>2, <3>3
  <2> QED
    BY <1>1, <1>4, <2>1
<1> DEFINE f == CHOOSE h \in [D -> D] : Good(h)
<1>6. f \in [D -> D] /\ Good(f)
  BY <1>5
<1>7. Sorted(d) = [i \in D |-> d[f[i]]]
  BY DEF Sorted, D
<1> HIDE DEF f, R
<1>8. Sorted(d) \in Seq(Rows)
  <2>1. ASSUME NEW i \in 1..n PROVE d[f[i]] \in Rows
    BY <1>1, <1>6, <2>1 DEF D
  <2>2. Sorted(d) \in [1..n -> Rows]
    BY <1>1, <1>7, <2>1
  <2> QED
    BY <1>1, <2>2
<1>9. f \in Bijection(D, D)
  <2>1. \A i, j \in D : f[i] = f[j] => i = j
    <3> SUFFICES ASSUME NEW i \in D, NEW j \in D, f[i] = f[j] PROVE i = j
      OBVIOUS
    <3>1. ~(i < j) /\ ~(j < i)
      BY <1>6
    <3> QED
      BY <1>1, <3>1
  <2>2. f \in Injection(D, D)
    BY <1>6, <2>1 DEF Injection, IsInjective
  <2>3. f \in Surjection(D, D)
    BY <1>3, <2>2, FS_Injection
  <2> QED
    BY <2>2, <2>3 DEF Bijection
<1>10. ASSUME NEW r PROVE Occurs(Sorted(d), r) = Occurs(d, r)
  <2> DEFINE X == {i \in D : d[f[i]] = r}
             Y == {i \in D : d[i] = r}
             h == [i \in X |-> f[i]]
  <2>1. Occurs(Sorted(d), r) = Cardinality(X)
    <3>1. {i \in DOMAIN Sorted(d) : Sorted(d)[i] = r} = X
      BY <1>7
    <3> QED
      BY <3>1 DEF Occurs
  <2>2. Occurs(d, r) = Cardinality(Y)
    BY DEF Occurs, D
  <2>3. h \in Bijection(X, Y)
    <3>1. h \in [X -> Y]
      BY <1>6
    <3>2. \A i, j \in X : h[i] = h[j] => i = j
      BY <1>9 DEF Bijection, Injection, IsInjective
    <3>3. \A y \in Y : \E x \in X : h[x] = y
      BY <1>9 DEF Bijection, Surjection
    <3> HIDE DEF h, X, Y
    <3> QED
      BY <3>1, <3>2, <3>3 DEF Bijection, Injection, IsInjective, Surjection
  <2>4. IsFiniteSet(X)
    BY <1>3, FS_Subset
  <2>5. Cardinality(X) = Cardinality(Y)
    <3> HIDE DEF h, X, Y
    <3> QED
      BY <2>3, <2>4, FS_Bijection DEF ExistsBijection
  <2> QED
    BY <2>1, <2>2, <2>5
<1> QED
  BY <1>8, <1>10
-----------------------------------------------------------------------------
(* What a table holds.                                                      *)

IsSeq(s) == s \in Seq(Range(s))
IsPart(p) == DOMAIN p = {"pid", "rows", "dead", "homed"} /\ p.rows \in Seq(Rows)
IsParts(parts) == IsSeq(parts) /\ \A i \in DOMAIN parts : IsPart(parts[i])
IsMem(m) == DOMAIN m = {"parts", "delta", "pid"} /\ m.delta \in Seq(Rows) /\ IsParts(m.parts)

\* A sequence is one whatever is in it.
LEMMA SeqIs ==
    ASSUME NEW S, NEW s \in Seq(S)
    PROVE  IsSeq(s) /\ Len(s) \in Nat /\ DOMAIN s = 1..Len(s)
<1>1. Len(s) \in Nat /\ DOMAIN s = 1..Len(s) /\ s = [i \in 1..Len(s) |-> s[i]]
  OBVIOUS
<1>2. \A i \in 1..Len(s) : s[i] \in Range(s)
  BY <1>1 DEF Range
<1>3. s \in [1..Len(s) -> Range(s)]
  BY <1>1, <1>2
<1>4. IsSeq(s)
  BY <1>1, <1>3 DEF IsSeq
<1> QED
  BY <1>1, <1>4

\* A function on 1..n is a sequence.
LEMMA FunIsSeq ==
    ASSUME NEW n \in Nat, NEW f, f = [i \in 1..n |-> f[i]]
    PROVE  IsSeq(f) /\ Len(f) = n /\ DOMAIN f = 1..n
<1>1. DOMAIN f = 1..n
  OBVIOUS
<1>2. \A i \in 1..n : f[i] \in Range(f)
  BY <1>1 DEF Range
<1>3. f \in [1..n -> Range(f)]
  BY <1>2
<1>4. f \in Seq(Range(f)) /\ Len(f) = n
  BY <1>3
<1> QED
  BY <1>1, <1>4 DEF IsSeq

\* The live copies in the parts are finitely many.
LEMMA CopiesFinite ==
    ASSUME NEW parts, IsParts(parts), NEW r
    PROVE  IsFiniteSet(Copies(parts, r)) /\ Cardinality(Copies(parts, r)) \in Nat
<1> DEFINE F == {{k} \X LiveAt(parts[k], r) : k \in DOMAIN parts}
<1>1. DOMAIN parts = 1..Len(parts) /\ Len(parts) \in Nat
  BY SeqIs DEF IsParts, IsSeq
<1>2. IsFiniteSet(DOMAIN parts)
  BY <1>1, FS_Interval
<1>3. ASSUME NEW k \in DOMAIN parts PROVE IsFiniteSet({k} \X LiveAt(parts[k], r))
  <2>1. parts[k].rows \in Seq(Rows)
    BY DEF IsParts, IsPart
  <2>2. Len(parts[k].rows) \in Nat /\ DOMAIN parts[k].rows = 1..Len(parts[k].rows)
    BY <2>1
  <2>3. IsFiniteSet(DOMAIN parts[k].rows)
    BY <2>2, FS_Interval
  <2>4. LiveAt(parts[k], r) \in SUBSET DOMAIN parts[k].rows
    BY DEF LiveAt
  <2>5. IsFiniteSet(LiveAt(parts[k], r))
    BY <2>3, <2>4, FS_Subset
  <2> QED
    BY <2>5, FS_Singleton, FS_Product
<1>4. IsFiniteSet(F)
  <2> DEFINE g == [k \in DOMAIN parts |-> {k} \X LiveAt(parts[k], r)]
  <2>1. g \in Surjection(DOMAIN parts, F)
    BY DEF Surjection
  <2> HIDE DEF g, F
  <2> QED
    BY <1>2, <2>1, FS_Surjection
<1>5. IsFiniteSet(UNION F)
  <2>1. \A T \in F : IsFiniteSet(T)
    BY <1>3
  <2> HIDE DEF F
  <2> QED
    BY <1>4, <2>1, FS_UNION
<1>6. Copies(parts, r) = UNION F
  BY DEF Copies
<1> QED
  BY <1>5, <1>6, FS_CardinalityType

\* Copies looks at rows and masks only.
LEMMA SameCopies ==
    ASSUME NEW P, NEW Q, DOMAIN Q = DOMAIN P,
           \A k \in DOMAIN P : Q[k].rows = P[k].rows /\ Q[k].dead = P[k].dead,
           NEW r
    PROVE  Copies(Q, r) = Copies(P, r)
<1>1. \A k \in DOMAIN P : LiveAt(Q[k], r) = LiveAt(P[k], r)
  BY DEF LiveAt
<1> QED
  BY <1>1 DEF Copies

\* What a flush makes: the old parts, and one with the rows of the delta.
LEMMA FlushShape ==
    ASSUME NEW m, IsMem(m), m.delta # <<>>
    PROVE  LET u == Flush(m)
               n == Len(m.parts)
           IN  /\ DOMAIN u = {"parts", "delta", "pid"} /\ u.delta = <<>>
               /\ n \in Nat /\ DOMAIN m.parts = 1..n /\ DOMAIN u.parts = 1..(n + 1) /\ IsSeq(u.parts)
               /\ \A k \in 1..n : u.parts[k] = m.parts[k]
               /\ u.parts[n + 1] = Part(m.pid, Sorted(m.delta), FALSE)
<1> DEFINE new == Part(m.pid, Sorted(m.delta), FALSE)
           q == Append(m.parts, new)
           n == Len(m.parts)
           S == Range(m.parts) \cup {new}
<1>1. Flush(m) = [m EXCEPT !.parts = q, !.delta = <<>>, !.pid = m.pid + 1]
  BY DEF Flush
<1>2. n \in Nat /\ DOMAIN m.parts = 1..n
  BY SeqIs DEF IsMem, IsParts, IsSeq
<1>3. m.parts \in Seq(S)
  <2>1. m.parts \in Seq(Range(m.parts))
    BY DEF IsMem, IsParts, IsSeq
  <2> HIDE DEF new
  <2> QED
    BY <2>1
<1> HIDE DEF new, S
<1>4. new \in S
  BY DEF S
<1>5. q \in Seq(S) /\ Len(q) = n + 1 /\ q[n + 1] = new /\ \A k \in 1..n : q[k] = m.parts[k]
  BY <1>3, <1>4
<1>6. IsSeq(q) /\ DOMAIN q = 1..(n + 1)
  BY <1>5, SeqIs
<1> HIDE DEF q
<1>7. Flush(m).parts = q /\ Flush(m).delta = <<>> /\ DOMAIN Flush(m) = {"parts", "delta", "pid"}
  BY <1>1 DEF IsMem
<1> QED
  BY <1>2, <1>5, <1>6, <1>7 DEF new

\* Table::flush makes a part of the delta and changes nothing a scan returns.
LEMMA FlushHeld ==
    ASSUME NEW m, IsMem(m)
    PROVE  IsMem(Flush(m)) /\ Flush(m).delta = <<>> /\ Held(Flush(m)) = Held(m)
<1>1. CASE m.delta = <<>>
  BY <1>1 DEF Flush
<1>2. CASE m.delta # <<>>
  <2> DEFINE u == Flush(m)
             n == Len(m.parts)
             new == Part(m.pid, Sorted(m.delta), FALSE)
  <2>1. /\ DOMAIN u = {"parts", "delta", "pid"} /\ u.delta = <<>>
        /\ n \in Nat /\ DOMAIN m.parts = 1..n /\ DOMAIN u.parts = 1..(n + 1) /\ IsSeq(u.parts)
        /\ \A k \in 1..n : u.parts[k] = m.parts[k]
        /\ u.parts[n + 1] = new
    BY <1>2, FlushShape
  <2>2. new.rows = Sorted(m.delta) /\ new.dead = {} /\ DOMAIN new = {"pid", "rows", "dead", "homed"}
    BY DEF Part
  <2>3. m.delta \in Seq(Rows)
    BY DEF IsMem
  <2>4. Sorted(m.delta) \in Seq(Rows) /\ \A r : Occurs(Sorted(m.delta), r) = Occurs(m.delta, r)
    BY <2>3, SortedKeeps
  <2> HIDE DEF u, n, new
  <2>5. IsMem(u)
    <3>1. ASSUME NEW k \in 1..(n + 1) PROVE IsPart(u.parts[k])
      <4>1. CASE k = n + 1
        BY <2>1, <2>2, <2>4, <4>1 DEF IsPart
      <4>2. CASE k # n + 1
        <5>1. k \in 1..n
          BY <2>1, <4>2
        <5> QED
          BY <2>1, <5>1 DEF IsMem, IsParts
      <4> QED
        BY <4>1, <4>2
    <3>2. u.delta \in Seq(Rows)
      BY <2>1
    <3> QED
      BY <2>1, <3>1, <3>2 DEF IsMem, IsParts
  <2>6. ASSUME NEW r \in Rows
        PROVE  Occurs(u.delta, r) + Cardinality(Copies(u.parts, r)) = Occurs(m.delta, r) + Cardinality(Copies(m.parts, r))
    <3> DEFINE A == Copies(m.parts, r)
               X == {i \in DOMAIN new.rows : new.rows[i] = r}
               B == {n + 1} \X X
    <3>1. LiveAt(new, r) = X
      BY <2>2 DEF LiveAt
    <3>2. Copies(u.parts, r) = A \cup B
      <4>1. Copies(u.parts, r) = UNION {{k} \X LiveAt(u.parts[k], r) : k \in 1..(n + 1)}
        BY <2>1 DEF Copies
      <4>2. A = UNION {{k} \X LiveAt(u.parts[k], r) : k \in 1..n}
        BY <2>1 DEF Copies
      <4>3. 1..(n + 1) = 1..n \cup {n + 1}
        BY <2>1
      <4>4. B = {n + 1} \X LiveAt(u.parts[n + 1], r)
        BY <2>1, <3>1
      <4> HIDE DEF A, B
      <4> QED
        BY <4>1, <4>2, <4>3, <4>4
    <3>3. A \cap B = {}
      <4>1. \A z \in A : z[1] \in 1..n
        BY <2>1 DEF Copies
      <4>2. \A z \in B : z[1] = n + 1
        OBVIOUS
      <4>3. n + 1 \notin 1..n
        BY <2>1
      <4> HIDE DEF A, B
      <4> QED
        BY <4>1, <4>2, <4>3
    <3>4. IsFiniteSet(A) /\ Cardinality(A) \in Nat
      BY CopiesFinite DEF IsMem
    <3>5. IsFiniteSet(X) /\ Cardinality(X) = Occurs(m.delta, r) /\ Cardinality(X) \in Nat
      <4>1. new.rows \in Seq(Rows)
        BY <2>2, <2>4
      <4>2. Len(new.rows) \in Nat /\ DOMAIN new.rows = 1..Len(new.rows)
        BY <4>1
      <4>3. IsFiniteSet(DOMAIN new.rows)
        BY <4>2, FS_Interval
      <4>4. IsFiniteSet(X)
        BY <4>3, FS_Subset
      <4>5. Cardinality(X) = Occurs(Sorted(m.delta), r)
        BY <2>2 DEF Occurs
      <4> QED
        BY <2>4, <4>4, <4>5, FS_CardinalityType
    <3>6. IsFiniteSet(B) /\ Cardinality(B) = Cardinality(X)
      <4>1. IsFiniteSet({n + 1}) /\ Cardinality({n + 1}) = 1
        BY FS_Singleton
      <4>2. IsFiniteSet(B) /\ Cardinality(B) = 1 * Cardinality(X)
        BY <3>5, <4>1, FS_Product
      <4> HIDE DEF B, X
      <4> QED
        BY <3>5, <4>2
    <3>7. Cardinality(A \cup B) = Cardinality(A) + Cardinality(B)
      <4>1. Cardinality(A \cup B) = Cardinality(A) + Cardinality(B) - Cardinality(A \cap B)
        BY <3>4, <3>6, FS_Union
      <4>2. Cardinality(A \cap B) = 0
        BY <3>3, FS_EmptySet
      <4>3. Cardinality(B) \in Nat
        BY <3>5, <3>6
      <4> HIDE DEF A, B
      <4> QED
        BY <3>4, <4>1, <4>2, <4>3
    <3>8. Occurs(u.delta, r) = 0
      <4>1. {i \in DOMAIN u.delta : u.delta[i] = r} = {}
        BY <2>1
      <4> QED
        BY <4>1, FS_EmptySet DEF Occurs
    <3> HIDE DEF A, B, X
    <3>9. Cardinality(Copies(u.parts, r)) = Cardinality(A) + Occurs(m.delta, r)
      BY <3>2, <3>5, <3>6, <3>7
    <3> QED
      BY <3>4, <3>5, <3>8, <3>9 DEF A
  <2>7. Held(u) = Held(m)
    BY <2>6 DEF Held
  <2> QED
    BY <2>1, <2>5, <2>7 DEF u
<1> QED
  BY <1>1, <1>2

-----------------------------------------------------------------------------
(* The source's tables and logs have their shape in every state.            *)

IsLog(l) == IsSeq(l) /\ \A k \in DOMAIN l : l[k].kind = "insert" => l[k].row \in Rows
MemInv(m) == DOMAIN m = Tables /\ \A t \in Tables : IsMem(m[t])
DiskInv == DOMAIN disk = Tables /\ \A t \in Tables : IsParts(disk[t].parts) /\ disk[t].from \in Nat
LogInv == DOMAIN log = Tables /\ \A t \in Tables : IsLog(log[t])
SourceInv == MemInv(mem) /\ DiskInv /\ LogInv

\* A log grows by whatever is appended to it.
LEMMA LogGrows ==
    ASSUME NEW l, IsLog(l), NEW e, e.kind = "insert" => e.row \in Rows
    PROVE  IsLog(Append(l, e)) /\ Len(l) \in Nat
<1> DEFINE S == Range(l) \cup {e}
           q == Append(l, e)
           n == Len(l)
<1>1. n \in Nat /\ DOMAIN l = 1..n
  BY SeqIs DEF IsLog, IsSeq
<1>2. l \in Seq(S) /\ e \in S
  <2>1. l \in Seq(Range(l))
    BY DEF IsLog, IsSeq
  <2> QED
    BY <2>1
<1> HIDE DEF S
<1>3. q \in Seq(S) /\ Len(q) = n + 1 /\ q[n + 1] = e /\ \A k \in 1..n : q[k] = l[k]
  BY <1>2
<1>4. IsSeq(q) /\ DOMAIN q = 1..(n + 1)
  BY <1>3, SeqIs
<1> HIDE DEF q
<1>5. ASSUME NEW k \in 1..(n + 1) PROVE q[k].kind = "insert" => q[k].row \in Rows
  <2>1. CASE k = n + 1
    BY <1>3, <2>1
  <2>2. CASE k # n + 1
    <3>1. k \in 1..n
      BY <1>1, <2>2
    <3> QED
      BY <1>1, <1>3, <3>1 DEF IsLog
  <2> QED
    BY <2>1, <2>2
<1>6. IsLog(q)
  BY <1>4, <1>5 DEF IsLog
<1> QED
  BY <1>1, <1>6 DEF q, n

\* A record and its tick at once.
LEMMA LogGrowsTwo ==
    ASSUME NEW l, IsLog(l), NEW e, e.kind = "insert" => e.row \in Rows, NEW f, f.kind = "insert" => f.row \in Rows
    PROVE  IsLog(l \o <<e, f>>)
<1> DEFINE S == Range(l) \cup {e, f}
<1>1. l \in Seq(S) /\ e \in S /\ f \in S
  <2>1. l \in Seq(Range(l))
    BY DEF IsLog, IsSeq
  <2> QED
    BY <2>1
<1> HIDE DEF S
<1>2. l \o <<e, f>> = Append(Append(l, e), f)
  BY <1>1
<1> QED
  BY <1>2, LogGrows

\* Which records are inserts.
LEMMA Kinds ==
    /\ \A row, x, home : Insert(row, x, home).kind = "insert" /\ Insert(row, x, home).row = row
    /\ \A pid, pos : Mask(pid, pos).kind # "insert"
    /\ \A t, seq : TickOf(t, seq).kind # "insert"
  BY DEF Insert, Mask, TickOf, Tick

\* The suffix of a log is a log.
LEMMA LogSuffix ==
    ASSUME NEW l, IsLog(l), NEW k \in Nat
    PROVE  IsLog(SubSeq(l, k + 1, Len(l)))
<1> DEFINE s == SubSeq(l, k + 1, Len(l))
           n == Len(l)
<1>1. l \in Seq(Range(l)) /\ n \in Nat /\ DOMAIN l = 1..n
  BY SeqIs DEF IsLog, IsSeq
<1>2. s \in Seq(Range(l)) /\ \A i \in DOMAIN s : s[i] = l[i + k] /\ i + k \in 1..n
  <2>1. s = [i \in 1..(n - k) |-> l[i + k]]
    BY <1>1
  <2>2. ASSUME NEW i \in 1..(n - k) PROVE i + k \in 1..n
    BY <1>1
  <2>3. s \in Seq(Range(l))
    <3>1. ASSUME NEW i \in (k + 1)..n PROVE i \in 1..n
      BY <1>1
    <3> QED
      BY <1>1, <3>1
  <2> QED
    BY <2>1, <2>2, <2>3
<1>3. IsSeq(s)
  BY <1>2, SeqIs
<1> HIDE DEF s
<1> QED
  BY <1>1, <1>2, <1>3 DEF IsLog, s

\* What Load makes holds the rows of the parts it is given.
LEMMA LoadHeld ==
    ASSUME NEW parts, IsParts(parts), NEW from
    PROVE  /\ IsMem(Load(parts, from))
           /\ Held(Load(parts, from)) = [r \in Rows |-> Cardinality(Copies(parts, r))]
<1> DEFINE u == Load(parts, from)
           n == Len(parts)
           q == [i \in DOMAIN parts |-> [parts[i] EXCEPT !.homed = TRUE]]
<1>1. n \in Nat /\ DOMAIN parts = 1..n
  BY SeqIs DEF IsParts, IsSeq
<1>2. DOMAIN u = {"parts", "delta", "pid"} /\ u.delta = <<>> /\ u.parts = q
  BY DEF Load
<1>3. ASSUME NEW i \in DOMAIN parts
      PROVE  IsPart(q[i]) /\ q[i].rows = parts[i].rows /\ q[i].dead = parts[i].dead
  BY DEF IsParts, IsPart
<1>4. IsSeq(q) /\ DOMAIN q = DOMAIN parts
  BY <1>1, FunIsSeq
<1> HIDE DEF u, q
<1>5. IsMem(u)
  BY <1>2, <1>3, <1>4 DEF IsMem, IsParts
<1>6. ASSUME NEW r \in Rows PROVE Occurs(u.delta, r) + Cardinality(Copies(u.parts, r)) = Cardinality(Copies(parts, r))
  <2>1. Copies(u.parts, r) = Copies(parts, r)
    BY <1>2, <1>3, <1>4, SameCopies
  <2>2. Occurs(u.delta, r) = 0
    <3>1. {i \in DOMAIN u.delta : u.delta[i] = r} = {}
      BY <1>2
    <3> QED
      BY <3>1, FS_EmptySet DEF Occurs
  <2>3. Cardinality(Copies(parts, r)) \in Nat
    BY CopiesFinite
  <2> QED
    BY <2>1, <2>2, <2>3
<1>7. Held(u) = [r \in Rows |-> Cardinality(Copies(parts, r))]
  BY <1>6 DEF Held
<1> QED
  BY <1>5, <1>7 DEF u

\* An empty table.
LEMMA EmptyLoad ==
    ASSUME NEW from
    PROVE  IsMem(Load(<<>>, from))
<1>1. IsParts(<<>>)
  BY DEF IsParts, IsSeq
<1> QED
  BY <1>1, LoadHeld

\* Writing a table out changes where its parts live and nothing else.
LEMMA FoldedMem ==
    ASSUME NEW m, IsMem(m)
    PROVE  IsMem(Folded(m))
<1> DEFINE n == Len(m.parts)
           q == [i \in DOMAIN m.parts |-> [m.parts[i] EXCEPT !.homed = TRUE]]
<1>1. n \in Nat /\ DOMAIN m.parts = 1..n
  BY SeqIs DEF IsMem, IsParts, IsSeq
<1>2. ASSUME NEW i \in DOMAIN m.parts PROVE IsPart(q[i])
  BY DEF IsMem, IsParts, IsPart
<1>3. IsSeq(q) /\ DOMAIN q = DOMAIN m.parts
  BY <1>1, FunIsSeq
<1>4. Folded(m) = [m EXCEPT !.parts = q]
  BY DEF Folded
<1> HIDE DEF q
<1> QED
  BY <1>2, <1>3, <1>4 DEF IsMem, IsParts

\* Hiding a row keeps the part.
LEMMA WithDeadMem ==
    ASSUME NEW m, IsMem(m), NEW i \in DOMAIN m.parts, NEW pos
    PROVE  IsMem(WithDead(m, i, pos))
<1> DEFINE n == Len(m.parts)
           q == [m.parts EXCEPT ![i] = [m.parts[i] EXCEPT !.dead = m.parts[i].dead \cup {pos}]]
<1>1. n \in Nat /\ DOMAIN m.parts = 1..n
  BY SeqIs DEF IsMem, IsParts, IsSeq
<1>2. ASSUME NEW k \in DOMAIN m.parts PROVE IsPart(q[k])
  BY DEF IsMem, IsParts, IsPart
<1>3. DOMAIN q = 1..n /\ q = [k \in 1..n |-> q[k]]
  BY <1>1
<1>4. IsSeq(q) /\ DOMAIN q = DOMAIN m.parts
  <2> HIDE DEF q
  <2> QED
    BY <1>1, <1>3, FunIsSeq
<1>5. WithDead(m, i, pos) = [m EXCEPT !.parts = q]
  BY DEF WithDead
<1> HIDE DEF q
<1> QED
  BY <1>2, <1>4, <1>5 DEF IsMem, IsParts

\* A row enters the delta.
LEMMA DeltaMem ==
    ASSUME NEW m, IsMem(m), NEW r \in Rows
    PROVE  IsMem([m EXCEPT !.delta = Append(m.delta, r)])
<1>1. Append(m.delta, r) \in Seq(Rows)
  BY DEF IsMem
<1> QED
  BY <1>1 DEF IsMem

\* Replay makes a table of a table, and nothing of an empty log.
LEMMA ReplayMem ==
    ASSUME NEW m, IsMem(m), NEW entries, IsLog(entries), NEW streams
    PROVE  /\ IsMem(Replay(m, entries, streams).m)
           /\ entries = <<>> => Held(Replay(m, entries, streams).m) = Held(m)
<1> DEFINE u == Replay(m, entries, streams).m
           masks == {entries[k] : k \in {k \in DOMAIN entries : entries[k].kind = "mask"}}
           S == {k \in DOMAIN entries : entries[k].kind = "insert" /\ Counts(entries[k], streams)}
           order == InOrder(S)
           more == [k \in DOMAIN order |-> entries[order[k]].row]
           Hidden(i) == {en.pos : en \in {x \in masks : i \in HomeOf(m, x.pid)}}
           q == [i \in DOMAIN m.parts |-> [m.parts[i] EXCEPT !.dead = m.parts[i].dead \cup Hidden(i)]]
           n == Len(m.parts)
<1>1. u = [m EXCEPT !.delta = m.delta \o more, !.parts = q]
  BY DEF Replay
<1>2. n \in Nat /\ DOMAIN m.parts = 1..n
  BY SeqIs DEF IsMem, IsParts, IsSeq
<1>3. Len(entries) \in Nat /\ DOMAIN entries = 1..Len(entries)
  BY SeqIs DEF IsLog, IsSeq
<1>4. S \in SUBSET Nat /\ IsFiniteSet(S)
  <2>1. S \in SUBSET (1..Len(entries))
    BY <1>3
  <2>2. IsFiniteSet(1..Len(entries))
    BY <1>3, FS_Interval
  <2> HIDE DEF S
  <2>3. IsFiniteSet(S)
    BY <2>1, <2>2, FS_Subset
  <2>4. S \in SUBSET Nat
    BY <1>3, <2>1
  <2> QED
    BY <2>3, <2>4
<1>5. Cardinality(S) \in Nat /\ order \in [1..Cardinality(S) -> S]
  <2> HIDE DEF S
  <2> QED
    BY <1>4, InOrderLists
<1>6. ASSUME NEW k \in S PROVE entries[k].row \in Rows
  <2>1. k \in DOMAIN entries /\ entries[k].kind = "insert"
    OBVIOUS
  <2> HIDE DEF S
  <2> QED
    BY <2>1 DEF IsLog
<1> HIDE DEF S, order
<1>7. more \in Seq(Rows)
  <2>1. more \in [1..Cardinality(S) -> Rows]
    BY <1>5, <1>6
  <2> QED
    BY <1>5, <2>1
<1>8. m.delta \o more \in Seq(Rows)
  BY <1>7 DEF IsMem
<1>9. ASSUME NEW i \in DOMAIN m.parts
      PROVE  IsPart(q[i]) /\ q[i].rows = m.parts[i].rows /\ q[i].dead = m.parts[i].dead \cup Hidden(i)
  <2> DEFINE H == Hidden(i)
  <2>1. q[i] = [m.parts[i] EXCEPT !.dead = m.parts[i].dead \cup H]
    OBVIOUS
  <2>2. IsPart(m.parts[i])
    BY DEF IsMem, IsParts
  <2> HIDE DEF Hidden, q, H
  <2>3. IsPart(q[i]) /\ q[i].rows = m.parts[i].rows /\ q[i].dead = m.parts[i].dead \cup H
    BY <2>1, <2>2 DEF IsPart
  <2> QED
    BY <2>3 DEF H
<1>10. IsSeq(q) /\ DOMAIN q = DOMAIN m.parts
  BY <1>2, FunIsSeq
<1>11. u.delta = m.delta \o more /\ u.parts = q /\ DOMAIN u = {"parts", "delta", "pid"}
  <2> HIDE DEF more, q, u
  <2> QED
    BY <1>1 DEF IsMem
<1>12. IsMem(u)
  <2> HIDE DEF u, q, more
  <2> QED
    BY <1>8, <1>9, <1>10, <1>11 DEF IsMem, IsParts
<1>13. ASSUME entries = <<>> PROVE Held(u) = Held(m)
  <2>1. masks = {} /\ S = {}
    BY <1>13 DEF S
  <2>2. \A i \in DOMAIN m.parts : Hidden(i) = {}
    BY <2>1
  <2>3. Cardinality(S) = 0
    BY <2>1, FS_EmptySet
  <2>4. DOMAIN order = {}
    BY <1>5, <2>3
  <2>5. more = <<>>
    BY <2>4
  <2>6. m.delta \o more = m.delta
    <3>1. m.delta \in Seq(Rows)
      BY DEF IsMem
    <3> QED
      BY <2>5, <3>1
  <2>7. \A r : Copies(u.parts, r) = Copies(m.parts, r)
    <3>1. \A i \in DOMAIN m.parts : q[i].rows = m.parts[i].rows /\ q[i].dead = m.parts[i].dead
      BY <1>9, <2>2
    <3> HIDE DEF q, u
    <3> QED
      BY <1>10, <1>11, <3>1, SameCopies
  <2> HIDE DEF u, more
  <2> QED
    BY <1>11, <2>6, <2>7 DEF Held
<1> QED
  BY <1>12, <1>13

\* A fold, whichever statement asks for it.
LEMMA FoldSource ==
    ASSUME SourceInv, NEW m0, MemInv(m0), NEW ts, NEW keep, NEW silent, FoldTables(ts, m0, keep, silent)
    PROVE  SourceInv'
<1> DEFINE full == [t \in Tables |-> IF t \in ts THEN Folded(Flush(m0[t])) ELSE m0[t]]
<1>1. PICK dirty, seq :
        /\ log' = [t \in Tables |-> IF t \in dirty THEN Append(log[t], TickOf(t, seq[t])) ELSE log[t]]
        /\ mem' = full
        /\ disk' = [t \in Tables |-> IF t \in ts THEN [parts |-> full[t].parts, from |-> Len(log'[t])] ELSE disk[t]]
  <2> DEFINE D == {t \in ts : Rolls(t) /\ Dirty(t)}
             order == SetToSeq(D)
             turn(t) == next - 1 + CHOOSE i \in DOMAIN order : order[i] = t
             grown == [t \in Tables |-> IF t \in D THEN Append(log[t], TickOf(t, turn(t))) ELSE log[t]]
             turns == [t \in Tables |-> turn(t)]
  <2>1. log' = grown /\ mem' = full
    BY DEF FoldTables
  <2>2. disk' = [t \in Tables |-> IF t \in ts THEN [parts |-> full[t].parts, from |-> Len(grown[t])] ELSE disk[t]]
    BY DEF FoldTables
  <2>3. grown = [t \in Tables |-> IF t \in D THEN Append(log[t], TickOf(t, turns[t])) ELSE log[t]]
    <3> HIDE DEF D, turn
    <3> QED
      OBVIOUS
  <2> HIDE DEF D, grown, turns, full
  <2> QED
    BY <2>1, <2>2, <2>3
<1>2. ASSUME NEW t \in Tables PROVE IsLog(log'[t]) /\ Len(log'[t]) \in Nat
  <2>1. IsLog(log[t])
    BY DEF SourceInv, LogInv
  <2>2. TickOf(t, seq[t]).kind # "insert"
    BY Kinds
  <2>3. IsLog(Append(log[t], TickOf(t, seq[t])))
    BY <2>1, <2>2, LogGrows
  <2>4. log'[t] = Append(log[t], TickOf(t, seq[t])) \/ log'[t] = log[t]
    BY <1>1
  <2>5. IsLog(log'[t])
    BY <2>1, <2>3, <2>4
  <2>6. Len(log'[t]) \in Nat
    BY <2>5, SeqIs DEF IsLog, IsSeq
  <2> QED
    BY <2>5, <2>6
<1>3. ASSUME NEW t \in Tables PROVE IsMem(full[t]) /\ IsParts(full[t].parts)
  <2>1. IsMem(m0[t])
    BY DEF MemInv
  <2>2. IsMem(Folded(Flush(m0[t])))
    BY <2>1, FlushHeld, FoldedMem
  <2>3. IsMem(full[t])
    BY <2>1, <2>2
  <2> QED
    BY <2>3 DEF IsMem
<1> HIDE DEF full
<1>4. MemInv(mem')
  <2>1. DOMAIN mem' = Tables
    BY <1>1 DEF full
  <2> QED
    BY <1>1, <1>3, <2>1 DEF MemInv
<1>5. LogInv'
  <2>1. DOMAIN log' = Tables
    BY <1>1
  <2> QED
    BY <1>2, <2>1 DEF LogInv
<1>6. DiskInv'
  <2>1. DOMAIN disk' = Tables
    BY <1>1
  <2>2. ASSUME NEW t \in Tables PROVE IsParts(disk'[t].parts) /\ disk'[t].from \in Nat
    <3>1. CASE t \in ts
      <4>1. disk'[t] = [parts |-> full[t].parts, from |-> Len(log'[t])]
        BY <1>1, <3>1
      <4> QED
        BY <1>2, <1>3, <4>1
    <3>2. CASE t \notin ts
      <4>1. disk'[t] = disk[t]
        BY <1>1, <3>2
      <4> QED
        BY <4>1 DEF SourceInv, DiskInv
    <3> QED
      BY <3>1, <3>2
  <2> QED
    BY <2>1, <2>2 DEF DiskInv
<1> QED
  BY <1>4, <1>5, <1>6 DEF SourceInv

\* Changing one table of the source.
LEMMA OneMem ==
    ASSUME NEW m, MemInv(m), NEW t \in Tables, NEW v, IsMem(v)
    PROVE  MemInv([m EXCEPT ![t] = v])
  BY DEF MemInv

\* An insert.
LEMMA InsertRowSource ==
    ASSUME SourceInv, NEW t \in Tables, NEW r \in Rows, InsertRow(t, r)
    PROVE  SourceInv'
<1> DEFINE e == Insert(r, 0, t)
           k == TickOf(t, next)
           v == [mem[t] EXCEPT !.delta = Append(mem[t].delta, r)]
<1>1. log' = [log EXCEPT ![t] = log[t] \o <<e, k>>] /\ mem' = [mem EXCEPT ![t] = v] /\ disk' = disk
  BY DEF InsertRow
<1>2. IsLog(log[t]) /\ IsMem(mem[t]) /\ DOMAIN log = Tables
  BY DEF SourceInv, LogInv, MemInv
<1>3. IsLog(log[t] \o <<e, k>>)
  <2>1. (e.kind = "insert" => e.row \in Rows) /\ (k.kind = "insert" => k.row \in Rows)
    BY Kinds
  <2> HIDE DEF e, k
  <2> QED
    BY <1>2, <2>1, LogGrowsTwo
<1>4. IsMem(v)
  BY <1>2, DeltaMem
<1> HIDE DEF e, k, v
<1>5. MemInv(mem')
  BY <1>1, <1>4, OneMem DEF SourceInv
<1>6. LogInv'
  BY <1>1, <1>3 DEF SourceInv, LogInv
<1> QED
  BY <1>1, <1>5, <1>6 DEF SourceInv, DiskInv

\* A transaction over two tables.
LEMMA InsertBothSource ==
    ASSUME SourceInv, NEW t \in Tables, NEW u \in Tables, NEW r \in Rows, InsertBoth(t, u, r)
    PROVE  SourceInv'
<1> DEFINE e == Insert(r, r, u)
           k == TickOf(t, next)
           f == Insert(r + 1, r, u)
           l == TickOf(u, next + 1)
           v == [mem[t] EXCEPT !.delta = Append(mem[t].delta, r)]
           w == [mem[u] EXCEPT !.delta = Append(mem[u].delta, r + 1)]
<1>1. /\ t # u /\ r + 1 \in Rows /\ disk' = disk
      /\ log' = [log EXCEPT ![t] = log[t] \o <<e, k>>, ![u] = log[u] \o <<f, l>>]
      /\ mem' = [mem EXCEPT ![t] = v, ![u] = w]
  BY DEF InsertBoth
<1>2. /\ IsLog(log[t]) /\ IsMem(mem[t]) /\ IsLog(log[u]) /\ IsMem(mem[u])
      /\ DOMAIN log = Tables /\ DOMAIN mem = Tables
  BY DEF SourceInv, LogInv, MemInv
<1>3. IsLog(log[t] \o <<e, k>>)
  <2>1. (e.kind = "insert" => e.row \in Rows) /\ (k.kind = "insert" => k.row \in Rows)
    BY Kinds
  <2> HIDE DEF e, k
  <2> QED
    BY <1>2, <2>1, LogGrowsTwo
<1>4. IsLog(log[u] \o <<f, l>>)
  <2>1. (f.kind = "insert" => f.row \in Rows) /\ (l.kind = "insert" => l.row \in Rows)
    BY <1>1, Kinds
  <2> HIDE DEF f, l
  <2> QED
    BY <1>2, <2>1, LogGrowsTwo
<1>5. IsMem(v) /\ IsMem(w)
  BY <1>1, <1>2, DeltaMem
<1> HIDE DEF e, k, f, l, v, w
<1>6. MemInv(mem')
  BY <1>1, <1>2, <1>5 DEF SourceInv, MemInv
<1>7. LogInv'
  BY <1>1, <1>2, <1>3, <1>4 DEF SourceInv, LogInv
<1> QED
  BY <1>1, <1>6, <1>7 DEF SourceInv, DiskInv

\* A delete, logged or written out.
LEMMA DeleteSource ==
    ASSUME SourceInv, NEW t \in Tables, NEW i, NEW pos, DeleteRow(t, i, pos)
    PROVE  SourceInv'
<1> DEFINE m == Flush(mem[t])
           v == WithDead(m, i, pos)
<1>1. IsMem(mem[t]) /\ IsLog(log[t]) /\ DOMAIN log = Tables /\ MemInv(mem)
  BY DEF SourceInv, LogInv, MemInv
<1>2. IsMem(m)
  BY <1>1, FlushHeld
<1>3. i \in DOMAIN m.parts
  BY DEF DeleteRow
<1>4. IsMem(v)
  <2> HIDE DEF m
  <2> QED
    BY <1>2, <1>3, WithDeadMem
<1>5. CASE m.parts[i].homed
  <2> DEFINE e == Mask(m.parts[i].pid, pos)
             k == TickOf(t, next)
  <2>1. log' = [log EXCEPT ![t] = log[t] \o <<e, k>>] /\ mem' = [mem EXCEPT ![t] = v] /\ disk' = disk
    BY <1>5 DEF DeleteRow
  <2>2. IsLog(log[t] \o <<e, k>>)
    <3>1. e.kind # "insert" /\ k.kind # "insert"
      BY Kinds
    <3> HIDE DEF e, k
    <3> QED
      BY <1>1, <3>1, LogGrowsTwo
  <2> HIDE DEF e, k, v, m
  <2>3. MemInv(mem')
    BY <1>1, <1>4, <2>1, OneMem
  <2>4. LogInv'
    BY <1>1, <2>1, <2>2 DEF SourceInv, LogInv
  <2> QED
    BY <2>1, <2>3, <2>4 DEF SourceInv, DiskInv
<1>6. CASE ~m.parts[i].homed
  <2>1. FoldTables({t}, [mem EXCEPT ![t] = v], Len(segs[t]), TRUE)
    BY <1>6 DEF DeleteRow
  <2> HIDE DEF v, m
  <2>2. MemInv([mem EXCEPT ![t] = v])
    BY <1>1, <1>4, OneMem
  <2> QED
    BY <2>1, <2>2, FoldSource
<1> QED
  BY <1>5, <1>6

\* The statements that change nothing but by a fold.
LEMMA FoldsSource ==
    ASSUME SourceInv,
           \/ \E t \in Tables, keep \in {0, MaxOps} : FoldOne(t, keep)
           \/ \E keep \in {0, MaxOps} : Checkpoint(keep)
           \/ \E t \in Tables : Truncate(t) \/ Drop(t) \/ Create(t)
    PROVE  SourceInv'
<1>1. MemInv(mem)
  BY DEF SourceInv
<1>2. ASSUME NEW t \in Tables PROVE MemInv([mem EXCEPT ![t] = Load(<<>>, Len(log[t]))])
  BY <1>1, EmptyLoad, OneMem
<1>3. ASSUME NEW t \in Tables, NEW keep, FoldOne(t, keep) PROVE SourceInv'
  BY <1>1, <1>3, FoldSource DEF FoldOne
<1>4. ASSUME NEW keep, Checkpoint(keep) PROVE SourceInv'
  BY <1>1, <1>4, FoldSource DEF Checkpoint
<1>5. ASSUME NEW t \in Tables, Truncate(t) \/ Drop(t) \/ Create(t) PROVE SourceInv'
  <2>1. \E ts : FoldTables(ts, [mem EXCEPT ![t] = Load(<<>>, Len(log[t]))], Len(segs[t]), TRUE)
    BY <1>5 DEF Truncate, Drop, Create
  <2> QED
    BY <1>2, <2>1, FoldSource
<1> QED
  BY <1>3, <1>4, <1>5

\* A backup flushes.
LEMMA BackupSource ==
    ASSUME SourceInv, NEW p, NEW b, Backup(p, b)
    PROVE  SourceInv'
<1>1. mem' = [t \in Tables |-> IF t \in tables THEN Flush(mem[t]) ELSE mem[t]] /\ log' = log /\ disk' = disk
  BY DEF Backup
<1>2. ASSUME NEW t \in Tables PROVE IsMem(mem'[t])
  <2>1. IsMem(mem[t])
    BY DEF SourceInv, MemInv
  <2>2. IsMem(Flush(mem[t]))
    BY <2>1, FlushHeld
  <2> QED
    BY <1>1, <2>1, <2>2
<1>3. DOMAIN mem' = Tables
  BY <1>1
<1> QED
  BY <1>1, <1>2, <1>3 DEF SourceInv, MemInv, DiskInv, LogInv

\* A crash and the recovery behind it.
LEMMA ReopenSource ==
    ASSUME SourceInv, NEW streams, DOMAIN streams = Tables, \A t \in Tables : IsLog(streams[t]), Reopen(streams)
    PROVE  SourceInv'
<1> DEFINE Back(t) == Replay(Load(disk[t].parts, disk[t].from), SubSeq(streams[t], disk[t].from + 1, Len(streams[t])), streams)
<1>1. log' = streams /\ mem' = [t \in Tables |-> IF t \in tables THEN Back(t).m ELSE mem[t]] /\ disk' = disk
  BY DEF Reopen
<1>2. ASSUME NEW t \in Tables PROVE IsMem(mem'[t])
  <2>1. IsMem(mem[t]) /\ IsParts(disk[t].parts) /\ disk[t].from \in Nat
    BY DEF SourceInv, MemInv, DiskInv
  <2>2. IsMem(Load(disk[t].parts, disk[t].from))
    BY <2>1, LoadHeld
  <2>3. IsLog(SubSeq(streams[t], disk[t].from + 1, Len(streams[t])))
    BY <2>1, LogSuffix
  <2>4. IsMem(Back(t).m)
    BY <2>2, <2>3, ReplayMem
  <2> HIDE DEF Back
  <2> QED
    BY <1>1, <2>1, <2>4
<1>3. DOMAIN mem' = Tables
  BY <1>1
<1> QED
  BY <1>1, <1>2, <1>3 DEF SourceInv, MemInv, DiskInv, LogInv

\* Every step of the source keeps the shapes.
LEMMA SourceStep ==
    ASSUME SourceInv, [Next]_vars
    PROVE  SourceInv'
<1>1. CASE UNCHANGED <<mem, disk, log>>
  BY <1>1 DEF SourceInv, MemInv, DiskInv, LogInv
<1>2. CASE Statement
  BY <1>2, InsertRowSource, InsertBothSource, DeleteSource, FoldsSource, BackupSource DEF Statement
<1>3. CASE Fault
  <2>1. ASSUME NEW p \in Paths, DamageArchive(p) PROVE UNCHANGED <<mem, disk, log>>
    BY <2>1 DEF DamageArchive, source
  <2>2. ASSUME NEW t \in Tables, DamageLog(t) PROVE UNCHANGED <<mem, disk, log>>
    BY <2>2 DEF DamageLog, source
  <2>3. ASSUME Crash PROVE SourceInv'
    BY <2>3, ReopenSource DEF Crash, SourceInv, LogInv
  <2>4. ASSUME NEW t \in Tables, NEW r \in Rows, CrashBeforeTick(t, r) PROVE SourceInv'
    <3> DEFINE e == Insert(r, 0, t)
               streams == [log EXCEPT ![t] = Append(log[t], e)]
    <3>1. Reopen(streams)
      BY <2>4 DEF CrashBeforeTick
    <3>2. DOMAIN log = Tables /\ \A u \in Tables : IsLog(log[u])
      BY DEF SourceInv, LogInv
    <3>3. e.kind = "insert" => e.row \in Rows
      BY Kinds
    <3>4. IsLog(Append(log[t], e))
      <4> HIDE DEF e
      <4> QED
        BY <3>2, <3>3, LogGrows
    <3>5. DOMAIN streams = Tables /\ \A u \in Tables : IsLog(streams[u])
      BY <3>2, <3>4
    <3> HIDE DEF streams
    <3> QED
      BY <3>1, <3>5, ReopenSource
  <2> QED
    BY <1>1, <1>3, <2>1, <2>2, <2>3, <2>4 DEF Fault
<1>4. ASSUME NEW p \in Paths, NEW target, RestoreBegin(p, target) PROVE UNCHANGED <<mem, disk, log>>
  BY <1>4 DEF RestoreBegin, source
<1>5. ASSUME RestoreStep PROVE UNCHANGED <<mem, disk, log>>
  BY <1>5 DEF RestoreStep, UnpackTable, LayLog, PublishCatalog, Prove, TearRestore, source
<1>6. ASSUME UNCHANGED vars PROVE UNCHANGED <<mem, disk, log>>
  BY <1>6 DEF vars
<1> QED
  BY <1>1, <1>2, <1>3, <1>4, <1>5, <1>6 DEF Next

\* A new data directory.
LEMMA SourceInit ==
    ASSUME Init
    PROVE  SourceInv
<1>1. IsMem(Load(<<>>, 0)) /\ IsParts(<<>>) /\ IsLog(<<>>)
  BY EmptyLoad DEF IsParts, IsSeq, IsLog
<1>2. /\ mem = [t \in Tables |-> Load(<<>>, 0)] /\ disk = [t \in Tables |-> [parts |-> <<>>, from |-> 0]]
      /\ log = [t \in Tables |-> <<>>]
  BY DEF Init, Fresh
<1> QED
  BY <1>1, <1>2 DEF SourceInv, MemInv, DiskInv, LogInv

-----------------------------------------------------------------------------
(* Chains of archives.  A chain is complete when its last archive has no    *)
(* base.                                                                    *)

Complete(c, at) == at[c[Len(c)]].base = NoPath

\* What a chain is.
LEMMA ChainFacts ==
    ASSUME NEW p, NEW at, NEW c \in Chains(p, at)
    PROVE  /\ Len(c) \in 1..MaxChain /\ c \in [1..Len(c) -> Paths] /\ c[1] = p
           /\ \A i \in 1..(Len(c) - 1) : at[c[i]].base = c[i + 1]
<1>1. PICK n \in 1..MaxChain : c \in [1..n -> Paths]
  BY DEF Chains
<1>2. n \in Nat
  BY <1>1
<1>3. Len(c) = n
  BY <1>1, <1>2
<1> QED
  BY <1>1, <1>3 DEF Chains

\* There is an archive at the end of a path or none; there is a longest chain.
LEMMA MaxChainType == MaxChain \in Nat /\ MaxChain # 0
  BY BackupAssumption

LEMMA LongestIs ==
    ASSUME NEW p \in Paths, NEW at
    PROVE  /\ Longest(Chains(p, at)) \in Chains(p, at)
           /\ \A d \in Chains(p, at) : Len(d) =< Len(Longest(Chains(p, at)))
<1> DEFINE C == Chains(p, at)
           N == {MaxChain - Len(c) : c \in C}
<1>1. MaxChain \in Nat
  BY MaxChainType
<1>2. MaxChain >= 1
  BY MaxChainType
<1>3. <<p>> \in C
  <2>1. <<p>> \in [1..1 -> Paths] /\ Len(<<p>>) = 1 /\ <<p>>[1] = p
    OBVIOUS
  <2>2. 1 \in 1..MaxChain
    BY <1>1, <1>2
  <2>3. 1..(Len(<<p>>) - 1) = {}
    BY <2>1
  <2> QED
    BY <2>1, <2>2, <2>3 DEF Chains
<1>4. \A c \in C : Len(c) \in 1..MaxChain
  BY ChainFacts
<1> HIDE DEF C
<1>5. N \subseteq Nat /\ N # {}
  BY <1>1, <1>3, <1>4
<1>6. PICK k \in N : \A z \in N : ~(<<z, k>> \in OpToRel(<, Nat))
  <2> HIDE DEF N
  <2> QED
    BY <1>5, NatLessThanWellFounded, WFMin
<1>7. \A z \in N : ~(z < k)
  BY <1>5, <1>6 DEF OpToRel
<1>8. PICK c \in C : k = MaxChain - Len(c)
  BY <1>6
<1>9. ASSUME NEW d \in C PROVE Len(d) =< Len(c)
  <2>1. MaxChain - Len(d) \in N
    OBVIOUS
  <2>2. ~(MaxChain - Len(d) < MaxChain - Len(c))
    BY <1>7, <1>8, <2>1
  <2>3. Len(c) \in 1..MaxChain /\ Len(d) \in 1..MaxChain
    BY <1>4
  <2> HIDE DEF N
  <2> QED
    BY <1>1, <2>2, <2>3
<1> QED
  BY <1>8, <1>9 DEF Longest, C

\* Two chains from one path agree as far as both go.
LEMMA SamePrefix ==
    ASSUME NEW p, NEW at, NEW c \in Chains(p, at), NEW d \in Chains(p, at),
           NEW i \in 1..Len(c), i \in 1..Len(d)
    PROVE  c[i] = d[i]
<1> DEFINE B == {k \in Nat : k \in 1..Len(c) /\ k \in 1..Len(d) /\ c[k] # d[k]}
<1>1. Len(c) \in Nat /\ Len(d) \in Nat
  BY ChainFacts, MaxChainType
<1>2. SUFFICES ASSUME B # {} PROVE FALSE
  BY <1>1
<1>3. PICK k \in B : \A z \in B : ~(<<z, k>> \in OpToRel(<, Nat))
  <2>1. B \subseteq Nat
    OBVIOUS
  <2> HIDE DEF B
  <2> QED
    BY <1>2, <2>1, NatLessThanWellFounded, WFMin
<1>4. \A z \in B : ~(z < k)
  BY <1>3 DEF OpToRel
<1>5. k # 1
  BY ChainFacts
<1>6. k - 1 \in 1..(Len(c) - 1) /\ k - 1 \in 1..(Len(d) - 1) /\ k - 1 \in Nat /\ k - 1 < k /\ (k - 1) + 1 = k
  <2>1. k \in Nat /\ k \in 1..Len(c) /\ k \in 1..Len(d)
    BY <1>3
  <2>2. PICK x \in Nat, y \in Nat : x = Len(c) /\ y = Len(d)
    BY <1>1
  <2>3. k \in 1..x /\ k \in 1..y
    BY <2>1, <2>2
  <2>4. k - 1 \in 1..(x - 1) /\ k - 1 \in 1..(y - 1) /\ k - 1 \in Nat /\ k - 1 < k /\ (k - 1) + 1 = k
    BY ONLY k \in Nat, x \in Nat, y \in Nat, <1>5, <2>3
  <2> QED
    BY <2>2, <2>4
<1>7. c[k - 1] = d[k - 1]
  <2>1. k - 1 \notin B
    BY <1>4, <1>6
  <2>2. k - 1 \in 1..Len(c) /\ k - 1 \in 1..Len(d)
    BY <1>1, <1>6
  <2> QED
    BY <1>6, <2>1, <2>2
<1>8. at[c[k - 1]].base = c[(k - 1) + 1] /\ at[d[k - 1]].base = d[(k - 1) + 1]
  BY <1>6, ChainFacts
<1>9. c[k] = d[k]
  BY <1>6, <1>7, <1>8
<1> QED
  BY <1>3, <1>9

\* A complete chain is the only one of its length, and none is longer.
LEMMA CompleteIsLongest ==
    ASSUME NEW p \in Paths, NEW at, NEW c \in Chains(p, at), Complete(c, at)
    PROVE  Longest(Chains(p, at)) = c
<1> DEFINE e == Longest(Chains(p, at))
<1>1. e \in Chains(p, at) /\ Len(c) =< Len(e)
  BY LongestIs
<1> HIDE DEF e
<1>2. Len(c) \in Nat /\ Len(e) \in Nat /\ Len(c) >= 1 /\ c \in [1..Len(c) -> Paths] /\ e \in [1..Len(e) -> Paths]
  BY <1>1, ChainFacts, MaxChainType
<1>3. ~(Len(c) < Len(e))
  <2> SUFFICES ASSUME Len(c) < Len(e) PROVE FALSE
    OBVIOUS
  <2>1. Len(c) \in 1..Len(c) /\ Len(c) \in 1..Len(e) /\ Len(c) \in 1..(Len(e) - 1) /\ Len(c) + 1 \in 1..Len(e)
    BY <1>2
  <2>2. c[Len(c)] = e[Len(c)]
    BY <1>1, <2>1, SamePrefix
  <2>3. at[e[Len(c)]].base = e[Len(c) + 1]
    BY <1>1, <2>1, ChainFacts
  <2>4. e[Len(c) + 1] \in Paths
    BY <1>2, <2>1
  <2> QED
    BY <2>2, <2>3, <2>4, BackupAssumption DEF Complete
<1>4. Len(c) = Len(e)
  <2>1. PICK x \in Nat, y \in Nat : x = Len(c) /\ y = Len(e)
    BY <1>2
  <2>2. x =< y /\ ~(x < y)
    BY <1>1, <1>3, <2>1
  <2>3. x = y
    BY ONLY x \in Nat, y \in Nat, <2>2
  <2> QED
    BY <2>1, <2>3
<1>5. \A i \in 1..Len(c) : c[i] = e[i]
  BY <1>1, <1>4, SamePrefix
<1>6. e = c
  BY <1>2, <1>4, <1>5
<1> QED
  BY <1>6 DEF e

\* A chain is not disturbed by what happens off it.
LEMMA ChainKept ==
    ASSUME NEW p \in Paths, NEW at, NEW bt, NEW c \in Chains(p, at), Complete(c, at),
           \A i \in 1..Len(c) : bt[c[i]].base = at[c[i]].base
    PROVE  c \in Chains(p, bt) /\ Complete(c, bt) /\ Longest(Chains(p, bt)) = c
<1>1. Len(c) \in 1..MaxChain /\ Len(c) \in Nat
  BY ChainFacts, MaxChainType
<1>2. c \in Chains(p, bt)
  <2>1. \A i \in 1..(Len(c) - 1) : i \in 1..Len(c)
    BY <1>1
  <2>2. \A i \in 1..(Len(c) - 1) : bt[c[i]].base = c[i + 1]
    BY <2>1, ChainFacts
  <2>3. c[1] = p /\ c \in [1..Len(c) -> Paths]
    BY ChainFacts
  <2> QED
    BY <1>1, <2>2, <2>3 DEF Chains
<1>3. Complete(c, bt)
  BY <1>1 DEF Complete
<1> QED
  BY <1>2, <1>3, CompleteIsLongest

\* An archive on top of a complete chain it is not on, and that has room for it,
\* has a complete chain.
LEMMA ChainExtended ==
    ASSUME NEW p \in Paths, NEW b \in Paths, NEW at, NEW bt, NEW c \in Chains(b, at), Complete(c, at), Len(c) # MaxChain,
           \A i \in 1..Len(c) : c[i] # p /\ bt[c[i]].base = at[c[i]].base,
           bt[p].base = b
    PROVE  LET d == Longest(Chains(p, bt))
           IN  /\ d \in Chains(p, bt) /\ Complete(d, bt) /\ Len(d) = Len(c) + 1 /\ d[1] = p
               /\ \A i \in 1..Len(c) : d[i + 1] = c[i]
<1> DEFINE n == Len(c)
           d == [i \in 1..(n + 1) |-> IF i = 1 THEN p ELSE c[i - 1]]
<1>1. /\ n \in Nat /\ n >= 1 /\ c \in [1..n -> Paths] /\ c[1] = b
      /\ \A k \in 1..(n - 1) : at[c[k]].base = c[k + 1]
  BY ChainFacts, MaxChainType
<1>2. n + 1 =< MaxChain
  BY ChainFacts, MaxChainType
<1> HIDE DEF n
<1>3. ASSUME NEW i \in 1..n PROVE i + 1 \in 1..(n + 1) /\ i + 1 # 1 /\ (i + 1) - 1 = i
  BY <1>1
<1>4. d[1] = p /\ \A i \in 1..n : d[i + 1] = c[i]
  BY <1>1, <1>3
<1>5. d \in [1..(n + 1) -> Paths] /\ Len(d) = n + 1
  <2>1. ASSUME NEW i \in 1..(n + 1) PROVE d[i] \in Paths
    <3>1. CASE i = 1
      BY <3>1
    <3>2. CASE i # 1
      <4>1. i - 1 \in 1..n
        BY <1>1, <3>2
      <4> QED
        BY <1>1, <3>2, <4>1
    <3> QED
      BY <3>1, <3>2
  <2>2. d \in [1..(n + 1) -> Paths]
    BY <2>1
  <2>3. n + 1 \in Nat
    BY <1>1
  <2> QED
    BY <2>2, <2>3
<1> HIDE DEF d
<1>6. \A i \in 1..n : bt[d[i]].base = d[i + 1]
  <2> SUFFICES ASSUME NEW i \in 1..n PROVE bt[d[i]].base = d[i + 1]
    OBVIOUS
  <2>1. CASE i = 1
    BY <1>1, <1>4, <2>1
  <2>2. CASE i # 1
    <3>1. i - 1 \in 1..(n - 1) /\ i - 1 \in 1..n /\ (i - 1) + 1 = i
      BY <1>1, <2>2
    <3>2. d[i] = c[i - 1] /\ d[i + 1] = c[i]
      BY <1>4, <3>1
    <3>3. bt[c[i - 1]].base = at[c[i - 1]].base /\ at[c[i - 1]].base = c[i]
      <4>1. bt[c[i - 1]].base = at[c[i - 1]].base
        BY <3>1 DEF n
      <4>2. at[c[i - 1]].base = c[(i - 1) + 1]
        BY <1>1, <3>1
      <4> QED
        BY <3>1, <4>1, <4>2
    <3> QED
      BY <3>2, <3>3
  <2> QED
    BY <2>1, <2>2
<1>7. d \in Chains(p, bt)
  <2>1. n + 1 \in 1..MaxChain /\ (n + 1) - 1 = n
    BY <1>1, <1>2, MaxChainType
  <2> QED
    BY <1>4, <1>5, <1>6, <2>1 DEF Chains
<1>8. Complete(d, bt)
  <2>1. n \in 1..n
    BY <1>1
  <2>2. d[Len(d)] = c[n]
    BY <1>4, <1>5, <2>1
  <2>3. bt[c[n]].base = at[c[n]].base
    BY <2>1 DEF n
  <2> QED
    BY <2>2, <2>3 DEF Complete, n
<1>9. Longest(Chains(p, bt)) = d
  BY <1>7, <1>8, CompleteIsLongest
<1> QED
  BY <1>4, <1>5, <1>7, <1>8, <1>9 DEF n

-----------------------------------------------------------------------------
(* What is true of the archives in every state: each says what its tables   *)
(* held, and one whose chain is not broken reaches every body it cites.     *)

ArchiveFields ==
    {"base", "created", "boundary", "tables", "parts", "stored", "damaged", "at", "truth", "tail", "remint", "broken"}
ArchiveOK(a) ==
    /\ DOMAIN a = ArchiveFields
    /\ \A t \in Tables : t \in a.tables =>
          IsSeq(a.parts[t]) /\ \A i \in DOMAIN a.parts[t] : a.parts[t][i].rows \in Seq(Rows)
    /\ a.truth = [t \in Tables |-> IF t \in a.tables THEN [r \in Rows |-> Cardinality(Copies(a.parts[t], r))]
                                   ELSE [r \in Rows |-> 0]]
ChainIn(A, p) == Longest(Chains(p, A))
Stores(A, c, x) == \E k \in 1..Len(c) : x \in A[c[k]].stored
Reaches(A, p) ==
    /\ ChainIn(A, p) \in Chains(p, A) /\ Complete(ChainIn(A, p), A)
    /\ \A i \in 1..Len(ChainIn(A, p)) : A[ChainIn(A, p)[i]] # NoArchive
    /\ \A t \in A[p].tables : \A i \in DOMAIN A[p].parts[t] : Stores(A, ChainIn(A, p), A[p].parts[t][i])
ArchivesInv(A) ==
    /\ DOMAIN A = Paths
    /\ \A p \in Paths : A[p] # NoArchive => ArchiveOK(A[p]) /\ (A[p].broken \/ Reaches(A, p))

\* The same archive as far as a chain can tell.
Same(a, b) == /\ b # NoArchive
              /\ b.base = a.base /\ b.stored = a.stored /\ b.tables = a.tables /\ b.parts = a.parts

\* An archive is told from none by what it records.
LEMMA ArchiveIsSome ==
    ASSUME NEW a, DOMAIN a = ArchiveFields
    PROVE  a # NoArchive
<1>1. DOMAIN NoArchive = {"base"}
  BY DEF NoArchive
<1>2. "created" \in DOMAIN a /\ "created" \notin {"base"}
  BY DEF ArchiveFields
<1> QED
  BY <1>1, <1>2

\* What an archive reaches it reaches as long as its chain is the same.
LEMMA ReachesKept ==
    ASSUME NEW A, NEW B, NEW p \in Paths, Reaches(A, p),
           \A i \in 1..Len(ChainIn(A, p)) : Same(A[ChainIn(A, p)[i]], B[ChainIn(A, p)[i]])
    PROVE  Reaches(B, p)
<1> DEFINE c == ChainIn(A, p)
<1>1. c \in Chains(p, A) /\ Complete(c, A)
  BY DEF Reaches
<1>2. Len(c) \in Nat /\ Len(c) >= 1 /\ c[1] = p
  BY <1>1, ChainFacts, MaxChainType
<1>3. \A i \in 1..Len(c) : Same(A[c[i]], B[c[i]])
  OBVIOUS
<1>4. \A t \in A[p].tables : \A i \in DOMAIN A[p].parts[t] : Stores(A, c, A[p].parts[t][i])
  BY DEF Reaches
<1> HIDE DEF c
<1>5. c \in Chains(p, B) /\ Complete(c, B) /\ ChainIn(B, p) = c
  BY <1>1, <1>3, ChainKept DEF Same, ChainIn
<1>6. Same(A[p], B[p])
  BY <1>2, <1>3
<1>7. ASSUME NEW x, Stores(A, c, x) PROVE Stores(B, c, x)
  BY <1>3, <1>7 DEF Stores, Same
<1> QED
  BY <1>3, <1>4, <1>5, <1>6, <1>7 DEF Reaches, Same

\* A step that leaves every archive the same but for its marks.
LEMMA ArchivesMarked ==
    ASSUME NEW A, NEW B, ArchivesInv(A), DOMAIN B = Paths,
           \A p \in Paths : A[p] = NoArchive => B[p] = NoArchive,
           \A p \in Paths : A[p] # NoArchive =>
              /\ Same(A[p], B[p]) /\ DOMAIN B[p] = DOMAIN A[p] /\ B[p].truth = A[p].truth
              /\ A[p].broken => B[p].broken
    PROVE  ArchivesInv(B)
<1> SUFFICES ASSUME NEW p \in Paths, B[p] # NoArchive PROVE ArchiveOK(B[p]) /\ (B[p].broken \/ Reaches(B, p))
  BY DEF ArchivesInv
<1>1. A[p] # NoArchive /\ ArchiveOK(A[p]) /\ (A[p].broken \/ Reaches(A, p))
  BY DEF ArchivesInv
<1>2. ArchiveOK(B[p])
  BY <1>1 DEF ArchiveOK, Same
<1>3. CASE A[p].broken
  BY <1>1, <1>2, <1>3
<1>4. CASE Reaches(A, p)
  <2>1. ASSUME NEW i \in 1..Len(ChainIn(A, p)) PROVE Same(A[ChainIn(A, p)[i]], B[ChainIn(A, p)[i]])
    <3>1. ChainIn(A, p)[i] \in Paths
      BY <1>4, ChainFacts DEF Reaches
    <3>2. A[ChainIn(A, p)[i]] # NoArchive
      BY <1>4 DEF Reaches
    <3> QED
      BY <3>1, <3>2
  <2> QED
    BY <1>2, <1>4, <2>1, ReachesKept
<1> QED
  BY <1>1, <1>3, <1>4

\* The new archive records what its tables hold.
LEMMA NewArchiveOK ==
    ASSUME SourceInv, NEW p, NEW b, NEW full, full = [t \in Tables |-> IF t \in tables THEN Flush(mem[t]) ELSE mem[t]]
    PROVE  ArchiveOK(NewArchive(p, b, full))
<1> DEFINE a == NewArchive(p, b, full)
           refs == [t \in Tables |-> [i \in DOMAIN full[t].parts |-> Body(full[t].parts[i])]]
<1>1. DOMAIN a = ArchiveFields /\ a.tables = tables /\ a.parts = refs /\ a.truth = Db(mem, tables)
  BY DEF NewArchive, ArchiveFields
<1>2. ASSUME NEW t \in Tables, t \in tables
      PROVE  /\ IsSeq(refs[t]) /\ \A i \in DOMAIN refs[t] : refs[t][i].rows \in Seq(Rows)
             /\ Held(mem[t]) = [r \in Rows |-> Cardinality(Copies(refs[t], r))]
  <2> DEFINE m == Flush(mem[t])
             q == [i \in DOMAIN m.parts |-> Body(m.parts[i])]
  <2>1. IsMem(m) /\ m.delta = <<>> /\ Held(m) = Held(mem[t])
    BY FlushHeld DEF SourceInv, MemInv
  <2>2. full[t] = m /\ refs[t] = q
    BY <1>2
  <2> HIDE DEF m
  <2>3. Len(m.parts) \in Nat /\ DOMAIN m.parts = 1..Len(m.parts)
    BY <2>1, SeqIs DEF IsMem, IsParts, IsSeq
  <2>4. IsSeq(q) /\ DOMAIN q = DOMAIN m.parts
    BY <2>3, FunIsSeq
  <2>5. \A i \in DOMAIN m.parts : q[i].rows = m.parts[i].rows /\ q[i].dead = m.parts[i].dead /\ m.parts[i].rows \in Seq(Rows)
    BY <2>1 DEF Body, IsMem, IsParts, IsPart
  <2> HIDE DEF q
  <2>6. ASSUME NEW r \in Rows PROVE Occurs(m.delta, r) + Cardinality(Copies(m.parts, r)) = Cardinality(Copies(q, r))
    <3>1. Copies(q, r) = Copies(m.parts, r)
      BY <2>4, <2>5, SameCopies
    <3>2. {i \in DOMAIN m.delta : m.delta[i] = r} = {}
      BY <2>1
    <3>3. Occurs(m.delta, r) = 0
      BY <3>2, FS_EmptySet DEF Occurs
    <3>4. Cardinality(Copies(m.parts, r)) \in Nat
      BY <2>1, CopiesFinite DEF IsMem
    <3> QED
      BY <3>1, <3>3, <3>4
  <2>7. Held(m) = [r \in Rows |-> Cardinality(Copies(q, r))]
    BY <2>6 DEF Held
  <2> QED
    BY <2>1, <2>2, <2>4, <2>5, <2>7
<1> HIDE DEF a, refs
<1>3. Db(mem, tables) = [t \in Tables |-> IF t \in tables THEN [r \in Rows |-> Cardinality(Copies(refs[t], r))]
                                          ELSE [r \in Rows |-> 0]]
  BY <1>2 DEF Db
<1>4. ArchiveOK(a)
  BY <1>1, <1>2, <1>3 DEF ArchiveOK
<1> QED
  BY <1>4 DEF a

\* A backup stores what its base chain does not have.
LEMMA NewArchiveReaches ==
    ASSUME NEW p \in Paths, NEW b \in Paths \cup {NoPath}, b # NoPath => Opens(b), NEW full, NEW B,
           B[p] = NewArchive(p, b, full), ~B[p].broken,
           \A q \in Paths \ {p} : archives[q] # NoArchive => Same(archives[q], B[q])
    PROVE  Reaches(B, p)
<1> DEFINE a == NewArchive(p, b, full)
           refs == [t \in Tables |-> [i \in DOMAIN full[t].parts |-> Body(full[t].parts[i])]]
           all == UNION {Range(refs[t]) : t \in tables}
<1>1. /\ DOMAIN a = ArchiveFields /\ a.base = b /\ a.tables = tables /\ a.parts = refs
      /\ a.stored = {x \in all : b = NoPath \/ ~Has(b, Key(x))}
      /\ a.broken = (b # NoPath /\ (p \in Range(ChainOf(b)) \/ Len(ChainOf(b)) = MaxChain))
  BY DEF NewArchive, ArchiveFields
<1>2. a # NoArchive
  BY <1>1, ArchiveIsSome
<1>3. ASSUME NEW t \in tables, NEW i \in DOMAIN refs[t] PROVE refs[t][i] \in all
  <2> HIDE DEF refs
  <2>1. refs[t][i] \in Range(refs[t])
    BY DEF Range
  <2> QED
    BY <2>1
<1> HIDE DEF a, refs, all
<1>4. B[p] = a
  BY DEF a
<1>5. CASE b = NoPath
  <2> DEFINE c == <<p>>
  <2>1. c \in [1..1 -> Paths] /\ Len(c) = 1 /\ c[1] = p /\ 1..(Len(c) - 1) = {}
    OBVIOUS
  <2>2. 1 \in 1..MaxChain
    BY MaxChainType
  <2> HIDE DEF c
  <2>3. c \in Chains(p, B) /\ Complete(c, B)
    BY <1>1, <1>4, <1>5, <2>1, <2>2 DEF Chains, Complete
  <2>4. ChainIn(B, p) = c
    BY <2>3, CompleteIsLongest DEF ChainIn
  <2>5. ASSUME NEW x \in all PROVE Stores(B, c, x)
    <3>1. x \in B[c[1]].stored
      BY <1>1, <1>4, <1>5, <2>1
    <3> QED
      BY <2>1, <3>1 DEF Stores
  <2>6. \A i \in 1..Len(c) : B[c[i]] # NoArchive
    <3>1. \A i \in 1..1 : i = 1
      OBVIOUS
    <3> QED
      BY <1>2, <1>4, <2>1, <3>1
  <2> QED
    BY <1>1, <1>3, <1>4, <2>3, <2>4, <2>5, <2>6 DEF Reaches
<1>6. CASE b # NoPath
  <2> DEFINE c == ChainOf(b)
             d == ChainIn(B, p)
  <2>1. b \in Paths /\ c \in Chains(b, archives)
    BY <1>6, LongestIs DEF ChainOf
  <2>2. Len(c) \in Nat /\ Len(c) >= 1 /\ c \in [1..Len(c) -> Paths] /\ DOMAIN c = 1..Len(c)
    BY <2>1, ChainFacts, MaxChainType
  <2>3. Complete(c, archives) /\ \A i \in 1..Len(c) : archives[c[i]] # NoArchive
    <3>1. \A i \in DOMAIN c : archives[c[i]] # NoArchive
      BY <1>6 DEF Opens
    <3>2. archives[Last(c)].base = NoPath
      BY <1>6 DEF Opens
    <3> QED
      BY <2>2, <3>1, <3>2 DEF Last, Complete
  <2>4. p \notin Range(c) /\ Len(c) # MaxChain
    BY <1>1, <1>4, <1>6
  <2>5. ASSUME NEW i \in 1..Len(c) PROVE c[i] \in Paths /\ c[i] # p /\ Same(archives[c[i]], B[c[i]])
    <3>1. c[i] \in Paths /\ c[i] # p
      BY <2>2, <2>4 DEF Range
    <3> QED
      BY <2>3, <3>1
  <2>10. ASSUME NEW x, Has(b, Key(x)) PROVE \E i \in 1..Len(c) : x \in archives[c[i]].stored
    BY <2>2, <2>10 DEF Has, Key
  <2> HIDE DEF c
  <2>6. /\ d \in Chains(p, B) /\ Complete(d, B) /\ Len(d) = Len(c) + 1 /\ d[1] = p
        /\ \A i \in 1..Len(c) : d[i + 1] = c[i]
    <3>1. \A i \in 1..Len(c) : c[i] # p /\ B[c[i]].base = archives[c[i]].base
      BY <2>5 DEF Same
    <3>2. B[p].base = b
      BY <1>1, <1>4
    <3> QED
      BY <2>1, <2>3, <2>4, <3>1, <3>2, ChainExtended DEF ChainIn
  <2> HIDE DEF d
  <2>7. \A i \in 1..Len(d) : B[d[i]] # NoArchive
    <3> SUFFICES ASSUME NEW i \in 1..Len(d) PROVE B[d[i]] # NoArchive
      OBVIOUS
    <3>1. CASE i = 1
      BY <1>2, <1>4, <2>6, <3>1
    <3>2. CASE i # 1
      <4>1. i - 1 \in 1..Len(c) /\ (i - 1) + 1 = i
        BY <2>2, <2>6, <3>2
      <4>2. d[i] = c[i - 1]
        BY <2>6, <4>1
      <4> QED
        BY <2>5, <4>1, <4>2 DEF Same
    <3> QED
      BY <3>1, <3>2
  <2>8. ASSUME NEW x \in all PROVE Stores(B, d, x)
    <3>1. CASE Has(b, Key(x))
      <4>1. PICK i \in 1..Len(c) : x \in archives[c[i]].stored
        BY <2>10, <3>1
      <4>2. x \in B[d[i + 1]].stored
        BY <2>5, <2>6, <4>1 DEF Same
      <4>3. i + 1 \in 1..Len(d)
        BY <2>2, <2>6
      <4> QED
        BY <4>2, <4>3 DEF Stores
    <3>2. CASE ~Has(b, Key(x))
      <4>1. x \in B[d[1]].stored
        BY <1>1, <1>4, <2>6, <3>2
      <4>2. 1 \in 1..Len(d)
        BY <2>2, <2>6
      <4> QED
        BY <4>1, <4>2 DEF Stores
    <3> QED
      BY <3>1, <3>2
  <2>9. \A t \in B[p].tables : \A i \in DOMAIN B[p].parts[t] : Stores(B, d, B[p].parts[t][i])
    BY <1>1, <1>3, <1>4, <2>8
  <2> QED
    BY <2>6, <2>7, <2>9 DEF Reaches, d
<1> QED
  BY <1>5, <1>6

\* BACKUP, over what was at the path or beside it.
LEMMA BackupArchives ==
    ASSUME SourceInv, ArchivesInv(archives), NEW p \in Paths, NEW b \in Paths \cup {NoPath}, Backup(p, b)
    PROVE  ArchivesInv(archives')
<1> DEFINE full == [t \in Tables |-> IF t \in tables THEN Flush(mem[t]) ELSE mem[t]]
           B == archives'
<1>1. /\ b # NoPath => Opens(b)
      /\ B = [q \in Paths |->
              IF q = p THEN NewArchive(p, b, full)
              ELSE IF archives[q] # NoArchive /\ p \in Range(ChainOf(q)) THEN [archives[q] EXCEPT !.broken = TRUE]
              ELSE archives[q]]
  BY DEF Backup
<1>2. ArchiveOK(NewArchive(p, b, full))
  BY NewArchiveOK
<1> HIDE DEF full
<1>3. DOMAIN B = Paths /\ B[p] = NewArchive(p, b, full)
  BY <1>1
<1>4. ASSUME NEW q \in Paths \ {p}
      PROVE  /\ archives[q] = NoArchive => B[q] = NoArchive
             /\ archives[q] # NoArchive =>
                  /\ Same(archives[q], B[q]) /\ DOMAIN B[q] = ArchiveFields /\ B[q].truth = archives[q].truth
                  /\ B[q].broken \/ (p \notin Range(ChainOf(q)) /\ ~archives[q].broken)
  <2>1. CASE archives[q] = NoArchive
    BY <1>1, <2>1
  <2>2. CASE archives[q] # NoArchive
    <3>1. DOMAIN archives[q] = ArchiveFields
      BY <2>2 DEF ArchivesInv, ArchiveOK
    <3>2. CASE p \in Range(ChainOf(q))
      <4>1. B[q] = [archives[q] EXCEPT !.broken = TRUE]
        BY <1>1, <2>2, <3>2
      <4>2. DOMAIN B[q] = ArchiveFields
        BY <3>1, <4>1
      <4>3. B[q] # NoArchive
        BY <4>2, ArchiveIsSome
      <4> QED
        BY <2>2, <3>1, <4>1, <4>2, <4>3 DEF Same, ArchiveFields
    <3>3. CASE p \notin Range(ChainOf(q))
      <4>1. B[q] = archives[q]
        BY <1>1, <3>3
      <4> QED
        BY <2>2, <3>1, <3>3, <4>1 DEF Same
    <3> QED
      BY <3>2, <3>3
  <2> QED
    BY <2>1, <2>2
<1>5. B[p].broken \/ Reaches(B, p)
  BY <1>1, <1>3, <1>4, NewArchiveReaches
<1> HIDE DEF B
<1>6. ASSUME NEW q \in Paths \ {p}, B[q] # NoArchive PROVE ArchiveOK(B[q]) /\ (B[q].broken \/ Reaches(B, q))
  <2>1. archives[q] # NoArchive
    BY <1>4, <1>6
  <2>2. ArchiveOK(archives[q]) /\ (archives[q].broken \/ Reaches(archives, q))
    BY <2>1 DEF ArchivesInv
  <2>3. ArchiveOK(B[q])
    BY <1>4, <2>1, <2>2 DEF ArchiveOK, Same
  <2>4. CASE B[q].broken
    BY <2>3, <2>4
  <2>5. CASE p \notin Range(ChainOf(q)) /\ ~archives[q].broken
    <3> DEFINE c == ChainIn(archives, q)
    <3>1. Reaches(archives, q)
      BY <2>2, <2>5
    <3>2. c \in Chains(q, archives)
      BY <3>1 DEF Reaches
    <3>3. p \notin Range(c)
      BY <2>5 DEF ChainOf, ChainIn
    <3>6. \A i \in 1..Len(c) : archives[c[i]] # NoArchive
      BY <3>1 DEF Reaches
    <3> HIDE DEF c
    <3>4. c \in [1..Len(c) -> Paths]
      BY <3>2, ChainFacts
    <3>5. ASSUME NEW i \in 1..Len(c) PROVE Same(archives[c[i]], B[c[i]])
      <4>1. c[i] \in Paths \ {p}
        BY <3>3, <3>4 DEF Range
      <4> QED
        BY <1>4, <3>6, <4>1
    <3>7. Reaches(B, q)
      BY <3>1, <3>5, ReachesKept DEF c
    <3> QED
      BY <2>3, <3>7
  <2> QED
    BY <1>4, <2>1, <2>4, <2>5
<1>7. ArchivesInv(B)
  BY <1>2, <1>3, <1>5, <1>6 DEF ArchivesInv
<1> QED
  BY <1>7 DEF B

\* A crash and a decayed body leave their mark on an archive and nothing else.
LEMMA FaultArchives ==
    ASSUME ArchivesInv(archives), Fault
    PROVE  ArchivesInv(archives')
<1>1. ASSUME NEW B, DOMAIN B = Paths,
             \A p \in Paths : archives[p] = NoArchive => B[p] = NoArchive,
             \A p \in Paths : archives[p] # NoArchive =>
                \/ B[p] = archives[p]
                \/ \E v : B[p] = [archives[p] EXCEPT !.remint = v] \/ B[p] = [archives[p] EXCEPT !.damaged = v]
      PROVE  ArchivesInv(B)
  <2>1. ASSUME NEW p \in Paths, archives[p] # NoArchive
        PROVE  /\ Same(archives[p], B[p]) /\ DOMAIN B[p] = DOMAIN archives[p]
               /\ B[p].truth = archives[p].truth /\ B[p].broken = archives[p].broken
    <3>1. DOMAIN archives[p] = ArchiveFields
      BY <2>1 DEF ArchivesInv, ArchiveOK
    <3>2. PICK v : \/ B[p] = archives[p]
                   \/ B[p] = [archives[p] EXCEPT !.remint = v] \/ B[p] = [archives[p] EXCEPT !.damaged = v]
      BY <1>1, <2>1
    <3>3. DOMAIN B[p] = ArchiveFields
      BY <3>1, <3>2
    <3>4. B[p] # NoArchive
      BY <3>3, ArchiveIsSome
    <3> QED
      BY <3>1, <3>2, <3>3, <3>4 DEF Same, ArchiveFields
  <2> QED
    BY <1>1, <2>1, ArchivesMarked
<1>2. ASSUME NEW streams, Reopen(streams) PROVE ArchivesInv(archives')
  <2>1. archives' = [p \in Paths |-> IF archives[p] = NoArchive THEN NoArchive
                        ELSE [archives[p] EXCEPT !.remint = archives[p].remint \/ MintedOnly(archives[p])]]
    BY <1>2 DEF Reopen
  <2>2. DOMAIN archives' = Paths /\ \A p \in Paths : archives[p] = NoArchive => archives'[p] = NoArchive
    BY <2>1
  <2>3. \A p \in Paths : archives[p] # NoArchive => \E v : archives'[p] = [archives[p] EXCEPT !.remint = v]
    BY <2>1
  <2> QED
    BY <1>1, <2>2, <2>3
<1>3. ASSUME NEW p \in Paths, DamageArchive(p) PROVE ArchivesInv(archives')
  <2>1. PICK x : archives' = [archives EXCEPT ![p].damaged = archives[p].damaged \cup {x}]
    BY <1>3 DEF DamageArchive
  <2>2. archives[p] # NoArchive /\ DOMAIN archives = Paths
    BY <1>3 DEF DamageArchive, ArchivesInv
  <2>3. DOMAIN archives' = Paths /\ \A q \in Paths : archives[q] = NoArchive => archives'[q] = NoArchive
    BY <2>1, <2>2
  <2>4. \A q \in Paths : archives'[q] = archives[q] \/ \E v : archives'[q] = [archives[q] EXCEPT !.damaged = v]
    BY <2>1, <2>2
  <2> QED
    BY <1>1, <2>3, <2>4
<1>4. ASSUME NEW t \in Tables, DamageLog(t) PROVE ArchivesInv(archives')
  BY <1>4 DEF DamageLog
<1> QED
  BY <1>2, <1>3, <1>4 DEF Fault, Crash, CrashBeforeTick

\* Every step keeps what is true of the archives.
LEMMA ArchivesStep ==
    ASSUME SourceInv, ArchivesInv(archives), [Next]_vars
    PROVE  ArchivesInv(archives')
<1>1. ASSUME archives' = archives PROVE ArchivesInv(archives')
  BY <1>1
<1>2. CASE Statement
  <2>1. ASSUME NEW p \in Paths, NEW b \in Paths \cup {NoPath}, Backup(p, b) PROVE ArchivesInv(archives')
    BY <2>1, BackupArchives
  <2>2. ASSUME ~\E p \in Paths, b \in Paths \cup {NoPath} : Backup(p, b) PROVE archives' = archives
    <3>1. ASSUME NEW t \in Tables, NEW r \in Rows, InsertRow(t, r) \/ \E u \in Tables : InsertBoth(t, u, r) PROVE archives' = archives
      BY <3>1 DEF InsertRow, InsertBoth
    <3>2. ASSUME NEW keep, Checkpoint(keep) \/ \E t \in Tables : FoldOne(t, keep) PROVE archives' = archives
      BY <3>2 DEF Checkpoint, FoldOne
    <3>3. ASSUME NEW t \in Tables, NEW i, NEW pos, DeleteRow(t, i, pos) PROVE archives' = archives
      BY <3>3 DEF DeleteRow
    <3>4. ASSUME NEW t \in Tables, Truncate(t) \/ Drop(t) \/ Create(t) PROVE archives' = archives
      BY <3>4 DEF Truncate, Drop, Create
    <3> QED
      BY ONLY <1>2, <2>2, <3>1, <3>2, <3>3, <3>4 DEF Statement
  <2> QED
    BY <1>1, <2>1, <2>2
<1>3. CASE Fault
  BY <1>3, FaultArchives
<1>4. ASSUME NEW p \in Paths, NEW target, RestoreBegin(p, target) PROVE archives' = archives
  BY <1>4 DEF RestoreBegin
<1>5. ASSUME RestoreStep PROVE archives' = archives
  BY <1>5 DEF RestoreStep, UnpackTable, LayLog, PublishCatalog, Prove, TearRestore
<1>6. ASSUME UNCHANGED vars PROVE archives' = archives
  BY <1>6 DEF vars
<1> QED
  BY <1>1, <1>2, <1>3, <1>4, <1>5, <1>6 DEF Next

-----------------------------------------------------------------------------
(* The restore of one archive by itself.                                    *)

\* No log is laid beside the tables.
NoLogs == \A t \in Tables : into.logs[t] = <<>>
PlainInv ==
    /\ into.phase = "none" \/ (into.target = Plain /\ (into.phase = "unpack" \/ into.result = "ok")) => NoLogs
    /\ into.phase = "prove" => into.target # Plain
    /\ into.phase \in {"unpack", "prove", "done"} => into.path \in Paths /\ archives[into.path] # NoArchive

\* A first attempt that was refused had a reason.
RefusedInv ==
    (into.phase = "done" /\ into.target = Plain /\ into.result = "refused" /\ ~into.made) =>
        From.broken \/ \E p \in Range(ChainOf(into.path)) : archives[p].damaged # {}

\* An archive whose chain is neither broken nor damaged restores.
LEMMA WalkSucceeds ==
    ASSUME ArchivesInv(archives), NEW p \in Paths, archives[p] # NoArchive, ~archives[p].broken
    PROVE  /\ Opens(p)
           /\ WalkOk(p) \/ \E q \in Range(ChainOf(p)) : archives[q].damaged # {}
<1> DEFINE c == ChainOf(p)
<1>1. Reaches(archives, p) /\ c = ChainIn(archives, p)
  BY DEF ArchivesInv, ChainOf, ChainIn
<1>2. /\ c \in Chains(p, archives) /\ Complete(c, archives)
      /\ \A i \in 1..Len(c) : archives[c[i]] # NoArchive
      /\ \A t \in archives[p].tables : \A i \in DOMAIN archives[p].parts[t] : Stores(archives, c, archives[p].parts[t][i])
  BY <1>1 DEF Reaches
<1>3. Len(c) \in Nat /\ DOMAIN c = 1..Len(c)
  BY <1>2, ChainFacts, MaxChainType
<1>4. Opens(p)
  BY <1>2, <1>3 DEF Opens, Complete, Last
<1>5. ASSUME \A q \in Range(c) : archives[q].damaged = {}, NEW t \in archives[p].tables, NEW i \in DOMAIN archives[p].parts[t]
      PROVE  BodyOk(p, archives[p].parts[t][i])
  <2> DEFINE x == archives[p].parts[t][i]
             First(k) == /\ \E y \in archives[c[k]].stored : Key(y) = Key(x)
                         /\ \A j \in 1..(k - 1) : \A y \in archives[c[j]].stored : Key(y) # Key(x)
             K == {k \in Nat : k \in 1..Len(c) /\ x \in archives[c[k]].stored}
  <2>1. K # {} /\ K \subseteq Nat
    BY <1>2, <1>3 DEF Stores
  <2>2. PICK k \in K : \A z \in K : ~(<<z, k>> \in OpToRel(<, Nat))
    <3> HIDE DEF K
    <3> QED
      BY <2>1, NatLessThanWellFounded, WFMin
  <2>3. \A z \in K : ~(z < k)
    BY <2>2 DEF OpToRel
  <2>4. k \in Nat /\ k \in 1..Len(c) /\ x \in archives[c[k]].stored
    BY <2>2
  <2>5. First(k)
    <3>1. ASSUME NEW j \in 1..(k - 1), NEW y \in archives[c[j]].stored, y = x PROVE FALSE
      <4>1. j \in Nat /\ j \in 1..Len(c) /\ j < k
        BY <1>3, <2>4
      <4> QED
        BY <2>3, <3>1, <4>1
    <3> QED
      BY <2>4, <3>1 DEF Key
  <2> DEFINE h == CHOOSE z \in DOMAIN c : First(z)
  <2>6. h \in DOMAIN c /\ First(h)
    BY <1>3, <2>4, <2>5
  <2>7. Holder(p, Key(x)) = archives[c[h]]
    BY DEF Holder
  <2>8. x \in archives[c[h]].stored
    BY <2>6 DEF Key
  <2>9. archives[c[h]].damaged = {}
    BY <1>5, <2>6 DEF Range
  <2>10. Has(p, Key(x))
    BY <1>3, <2>4 DEF Has
  <2> HIDE DEF h, First, K, x
  <2>11. (CHOOSE y \in archives[c[h]].stored : Key(y) = Key(x)) = x
    BY <2>8 DEF Key
  <2>12. BodyOk(p, x)
    BY <2>7, <2>9, <2>10, <2>11 DEF BodyOk
  <2> QED
    BY <2>12 DEF x
<1>6. WalkOk(p) \/ \E q \in Range(c) : archives[q].damaged # {}
  BY <1>5 DEF WalkOk
<1> QED
  BY <1>4, <1>6

\* A restore begins, or is refused.
LEMMA BeginPlain ==
    ASSUME IInv, PlainInv, ArchivesInv(archives), NEW p \in Paths, NEW target, RestoreBegin(p, target)
    PROVE  PlainInv' /\ RefusedInv'
<1> DEFINE fresh == [into EXCEPT !.phase = "unpack", !.path = p, !.target = target, !.made = TRUE, !.result = "none"]
           refused == [into EXCEPT !.path = p, !.target = target, !.phase = "done", !.result = "refused"]
<1>1. /\ into.phase \in {"none", "torn"} /\ archives[p] # NoArchive /\ archives' = archives
      /\ \/ into' = fresh /\ ~into.made
         \/ into' = refused /\ ~(/\ target # Plain => TargetOk(archives[p], target)
                                 /\ ~into.made /\ Opens(p) /\ WalkOk(p))
  BY DEF RestoreBegin, Refuse
<1>2. CASE into' = fresh /\ ~into.made
  <2>1. into.phase = "none"
    BY <1>1, <1>2 DEF IInv, MadeButNot
  <2>2. NoLogs
    BY <2>1 DEF PlainInv
  <2>3. into'.phase = "unpack" /\ into'.logs = into.logs /\ into'.path = p
    BY <1>2 DEF IInv, DirShape
  <2> QED
    BY <1>1, <2>2, <2>3 DEF PlainInv, RefusedInv, NoLogs
<1>3. CASE into' = refused /\ ~(/\ target # Plain => TargetOk(archives[p], target)
                                /\ ~into.made /\ Opens(p) /\ WalkOk(p))
  <2>1. into'.phase = "done" /\ into'.result = "refused" /\ into'.path = p /\ into'.target = target /\ into'.made = into.made
    BY <1>3 DEF IInv, DirShape
  <2>2. PlainInv'
    BY <1>1, <2>1 DEF PlainInv
  <2>3. ASSUME target = Plain, ~into.made
        PROVE  archives[p].broken \/ \E q \in Range(ChainOf(p)) : archives[q].damaged # {}
    BY <1>1, <1>3, <2>3, WalkSucceeds
  <2>4. ChainOf(into.path)' = ChainOf(p) /\ From' = archives[p]
    BY <1>1, <2>1 DEF ChainOf, From
  <2>5. RefusedInv'
    BY <1>1, <2>1, <2>3, <2>4 DEF RefusedInv
  <2> QED
    BY <2>2, <2>5
<1> QED
  BY <1>1, <1>2, <1>3

\* The steps of a restore that has begun.
LEMMA StepsPlain ==
    ASSUME IInv, PlainInv, RestoreStep
    PROVE  PlainInv' /\ RefusedInv'
<1>1. ASSUME NEW t \in Tables, UnpackTable(t) PROVE PlainInv' /\ RefusedInv'
  <2>1. /\ into.phase = "unpack" /\ archives' = archives
        /\ into' = [into EXCEPT !.done = into.done \cup {t}]
    BY <1>1 DEF UnpackTable
  <2>2. /\ into'.phase = into.phase /\ into'.target = into.target /\ into'.result = into.result
        /\ into'.logs = into.logs /\ into'.path = into.path
    BY <2>1 DEF IInv, DirShape
  <2> QED
    BY <2>1, <2>2 DEF PlainInv, RefusedInv, NoLogs
<1>2. ASSUME NEW t \in Tables, LayLog(t) PROVE PlainInv' /\ RefusedInv'
  <2>1. PICK new : /\ into.phase = "unpack" /\ into.target # Plain /\ archives' = archives
                   /\ \/ into' = [into EXCEPT !.phase = "done", !.result = "refused"]
                      \/ into' = [into EXCEPT !.laid = into.laid \cup {t}, !.logs = new]
    <3>1. into.phase = "unpack" /\ into.target # Plain /\ archives' = archives
      BY <1>2 DEF LayLog
    <3>2. \/ into' = [into EXCEPT !.phase = "done", !.result = "refused"]
          \/ into' = [into EXCEPT !.laid = into.laid \cup {t},
                                  !.logs = [into.logs EXCEPT ![t] = Recover(t, archives[into.path].boundary, into.target)]]
      BY <1>2 DEF LayLog, Refuse
    <3> QED
      BY <3>1, <3>2
  <2>2. into'.phase \in {"unpack", "done"} /\ into'.target = into.target /\ into'.path = into.path
    BY <2>1 DEF IInv, DirShape
  <2> QED
    BY <2>1, <2>2 DEF PlainInv, RefusedInv
<1>3. ASSUME PublishCatalog PROVE PlainInv' /\ RefusedInv'
  <2>1. /\ into.phase = "unpack" /\ archives' = archives
        /\ into' = [into EXCEPT !.catalog = TRUE, !.phase = IF into.target = Plain THEN "done" ELSE "prove",
                                !.result = IF into.target = Plain THEN "ok" ELSE "none"]
    BY <1>3 DEF PublishCatalog
  <2>2. /\ into'.target = into.target /\ into'.path = into.path /\ into'.logs = into.logs
        /\ into'.phase = IF into.target = Plain THEN "done" ELSE "prove"
        /\ into'.result = IF into.target = Plain THEN "ok" ELSE "none"
    BY <2>1 DEF IInv, DirShape
  <2>3. CASE into.target = Plain
    <3>1. NoLogs
      BY <2>1, <2>3 DEF PlainInv
    <3> QED
      BY <2>1, <2>2, <2>3, <3>1 DEF PlainInv, RefusedInv, NoLogs
  <2>4. CASE into.target # Plain
    BY <2>1, <2>2, <2>4 DEF PlainInv, RefusedInv
  <2> QED
    BY <2>3, <2>4
<1>4. ASSUME Prove PROVE PlainInv' /\ RefusedInv'
  <2>1. PICK r : into.phase = "prove" /\ archives' = archives /\ into' = [into EXCEPT !.phase = "done", !.result = r]
    BY <1>4 DEF Prove
  <2>2. into'.phase = "done" /\ into'.target = into.target /\ into'.path = into.path
    BY <2>1 DEF IInv, DirShape
  <2> QED
    BY <2>1, <2>2 DEF PlainInv, RefusedInv
<1>5. ASSUME TearRestore PROVE PlainInv' /\ RefusedInv'
  <2>1. /\ into.phase \in {"unpack", "prove"} /\ archives' = archives
        /\ into' = [into EXCEPT !.phase = IF into.catalog THEN "done" ELSE "torn", !.result = "none"]
    BY <1>5 DEF TearRestore
  <2>2. into'.phase \in {"done", "torn"} /\ into'.result = "none" /\ into'.path = into.path
    BY <2>1 DEF IInv, DirShape
  <2> QED
    BY <2>1, <2>2 DEF PlainInv, RefusedInv
<1> QED
  BY <1>1, <1>2, <1>3, <1>4, <1>5 DEF RestoreStep

\* Everything together.
InstantInv == IInv /\ SourceInv /\ ArchivesInv(archives) /\ PlainInv /\ RefusedInv

\* The invariant that plain restores need holds in every reachable state, of the
\* tables and their logs, the archives and the directory being restored.
THEOREM InstantInvariant == Spec => []InstantInv
<1>1. Init => InstantInv
  <2> SUFFICES ASSUME Init PROVE InstantInv
    OBVIOUS
  <2>1. ArchivesInv(archives)
    BY DEF Init, ArchivesInv
  <2>2. PlainInv /\ RefusedInv
    BY DEF Init, NoDir, PlainInv, RefusedInv, NoLogs
  <2> QED
    BY <2>1, <2>2, InitInv, SourceInit DEF InstantInv
<1>2. InstantInv /\ [Next]_vars => InstantInv'
  <2> SUFFICES ASSUME InstantInv, [Next]_vars PROVE InstantInv'
    OBVIOUS
  <2>1. IInv' /\ SourceInv' /\ ArchivesInv(archives')
    BY StepInv, SourceStep, ArchivesStep DEF InstantInv
  <2>2. CASE Statement \/ Fault
    <3>1. into.phase = "none" /\ into' = into
      BY <2>2, SourceSteps
    <3> QED
      BY <2>1, <3>1 DEF InstantInv, PlainInv, RefusedInv, NoLogs
  <2>3. ASSUME NEW p \in Paths, NEW target, RestoreBegin(p, target) PROVE InstantInv'
    BY <2>1, <2>3, BeginPlain DEF InstantInv
  <2>4. CASE RestoreStep
    BY <2>1, <2>4, StepsPlain DEF InstantInv
  <2>5. CASE UNCHANGED vars
    <3>1. into' = into /\ archives' = archives
      BY <2>5 DEF vars
    <3>2. PlainInv'
      BY <3>1 DEF InstantInv, PlainInv, NoLogs
    <3>3. RefusedInv'
      BY <3>1 DEF InstantInv, RefusedInv, From, ChainOf
    <3> QED
      BY <2>1, <3>2, <3>3 DEF InstantInv
  <2> QED
    BY <2>2, <2>3, <2>4, <2>5 DEF Next
<1> QED
  BY <1>1, <1>2, PTL DEF Spec

\* The directory of a finished plain restore opens as the instant of its backup.
LEMMA OpensAsTruth ==
    ASSUME NEW a, ArchiveOK(a), NEW logs, \A t \in Tables : logs[t] = <<>>
    PROVE  OpenedDb(a, logs) = a.truth
<1>1. ASSUME NEW t \in Tables, t \in a.tables
      PROVE  Held(OpenTable(a, logs, t).m) = [r \in Rows |-> Cardinality(Copies(a.parts[t], r))]
  <2> DEFINE P == a.parts[t]
             q == [i \in DOMAIN P |-> [pid |-> P[i].pid, rows |-> P[i].rows, dead |-> P[i].dead, homed |-> TRUE]]
  <2>1. IsSeq(P) /\ \A i \in DOMAIN P : P[i].rows \in Seq(Rows)
    BY <1>1 DEF ArchiveOK
  <2>2. OpenTable(a, logs, t) = Replay(Load(q, 0), <<>>, logs)
    BY DEF OpenTable
  <2> HIDE DEF P
  <2>3. Len(P) \in Nat /\ DOMAIN P = 1..Len(P)
    BY <2>1, SeqIs DEF IsSeq
  <2>4. IsSeq(q) /\ DOMAIN q = DOMAIN P
    BY <2>3, FunIsSeq
  <2>5. \A i \in DOMAIN P : IsPart(q[i]) /\ q[i].rows = P[i].rows /\ q[i].dead = P[i].dead
    BY <2>1 DEF IsPart
  <2> HIDE DEF q
  <2>6. IsParts(q)
    BY <2>4, <2>5 DEF IsParts
  <2>7. IsMem(Load(q, 0)) /\ Held(Load(q, 0)) = [r \in Rows |-> Cardinality(Copies(q, r))]
    BY <2>6, LoadHeld
  <2>8. IsLog(<<>>)
    BY DEF IsLog, IsSeq
  <2>9. Held(OpenTable(a, logs, t).m) = [r \in Rows |-> Cardinality(Copies(q, r))]
    BY <2>2, <2>7, <2>8, ReplayMem
  <2>10. \A r : Copies(q, r) = Copies(P, r)
    BY <2>4, <2>5, SameCopies
  <2> QED
    BY <2>9, <2>10 DEF P
<1> QED
  BY <1>1 DEF OpenedDb, ArchiveOK

\* RESTORE without UNTIL gives back exactly the rows the source held when the
\* backup was taken, however often each, whatever the source, the bases of the
\* archive and the directory went through in between; and it refuses only an
\* archive whose chain lost a base to another backup or was damaged
\* (write_archive, Chain::open, Chain::body, unpack).
THEOREM PlainRestoreIsExact == Spec => []ArchiveIsTheInstant
<1>1. InstantInv => ArchiveIsTheInstant
  <2> SUFFICES ASSUME InstantInv, into.phase = "done", into.target = Plain PROVE ArchiveIsTheInstant
    BY DEF ArchiveIsTheInstant
  <2>1. ASSUME Restored PROVE OpenedDb(From, into.logs) = From.truth
    <3>1. NoLogs
      BY <2>1 DEF InstantInv, PlainInv, Restored
    <3>2. ArchiveOK(From)
      BY DEF InstantInv, PlainInv, ArchivesInv, From
    <3> QED
      BY <3>1, <3>2, OpensAsTruth DEF NoLogs
  <2>2. ASSUME into.result = "refused", ~into.made
        PROVE  From.broken \/ \E p \in Range(ChainOf(into.path)) : archives[p].damaged # {}
    BY <2>2 DEF InstantInv, RefusedInv
  <2> QED
    BY <2>1, <2>2 DEF ArchiveIsTheInstant
<1> QED
  BY <1>1, InstantInvariant, PTL
=============================================================================
