------------------------------ MODULE WalProofs ------------------------------
(***************************************************************************)
(* Proofs about one table's log, for every regime of faults and every bound *)
(* a regime sets: between transactions no staging group stays open, a crash *)
(* on an honest disk is never taken for corruption, and nothing that a sync *)
(* acknowledged is lost.                                                    *)
(*                                                                          *)
(* The second rests on what the two stamps mean.  Everything below `acked'  *)
(* is on the platter, at every step of every call, so that a walk which     *)
(* stops where the platter ends never stops below the floor; and a sealed   *)
(* segment is wholly on the platter.  Both need that the log was never      *)
(* taken over with a stamp no fsync covered (`adopted').                    *)
(***************************************************************************)
EXTENDS Wal, SequenceTheorems, FiniteSetTheorems, WellFoundedInduction, TLAPS

Segment == [origin : Nat, body : Seq(Frame), synced : Nat, head : Stamps, phead : Stamps]

\* Types of the state, in every regime.
TypeOK ==
  /\ sealed \in Seq(Segment) /\ origin \in Nat /\ carry \in Nat
  /\ body \in Seq(Frame) /\ old \in [body : Seq(Frame), synced : Nat] /\ synced \in Nat
  /\ head \in Stamps /\ phead \in Stamps
  /\ dirty \in BOOLEAN /\ groups \in Nat /\ mark \in Nat \cup {NoMark}
  /\ covered \in Nat /\ nextRec \in Nat
  /\ mode \in {"up", "down", "refused"}

\* A staging group is open only inside a transaction, and then one.
GroupsOK ==
  "short_write" \notin Faults => groups <= 1 /\ (mark = NoMark => groups = 0)

AllOk(b) == \A i \in 1 .. Len(b) : b[i].st = "ok"

\* What an in-order disk leaves: m good frames, a torn one at most, and zeros.
TornAt(b, m) ==
  \A i \in 1 .. Len(b) :
    /\ i <= m => b[i].st = "ok"
    /\ i = m + 1 => b[i].st \in {"half", "lost"}
    /\ i > m + 1 => b[i].st = "lost"

Rolls == {"roll_keep", "roll_drop"}

\* Which step a call can be at, and what holds around it.
CallOK ==
  /\ mode # "refused"
  /\ \/ job = "none" /\ pc = "none"
     \/ job = "sync" /\ pc \in {"tick", "stamp", "barrier"}
     \/ job \in {"rewind", "open"} /\ pc \in {"stamp", "barrier"} /\ mark = NoMark
     \/ /\ job \in Rolls /\ mark = NoMark
        /\ pc \in {"tick", "stamp", "barrier", "publish", "table", "table_idle"}
  /\ job # "none" => groups = 0
  /\ mode = "down" => job = "none" /\ mark = NoMark /\ groups = 0
  /\ job \in Rolls /\ pc \in {"stamp", "barrier", "publish"} => ~dirty
  /\ pc = "table_idle" => Len(body) = carry
  /\ covered <= origin + carry

\* A sealed segment is whole, on the platter, and ends where the next begins.
SealedOK ==
  \A i \in 1 .. Len(sealed) :
    /\ AllOk(sealed[i].body) /\ sealed[i].synced = Len(sealed[i].body)
    /\ sealed[i].head = sealed[i].phead
    /\ sealed[i].head.durable <= sealed[i].origin + Len(sealed[i].body)
    /\ sealed[i].origin + Len(sealed[i].body) = Successor(i)

\* What a truncation that is not yet fsynced may come back as.
OldOK ==
  old # NoOld =>
    /\ job \in {"rewind", "open"}
    /\ synced <= old.synced /\ old.synced <= Len(old.body)
    /\ AllOk(old.body) \/ (old.synced = Len(old.body) /\ TornAt(old.body, synced))

\* The stamps of a running log: acked is on the platter, and so is durable
\* once no call is under way.  A transaction began at or above both, until its
\* own sync raises them.
StampsOK ==
  /\ pc # "barrier" => head = phead
  /\ pc = "barrier" => head.durable <= len
  /\ head.acked <= origin + synced /\ phead.acked <= origin + synced
  /\ old = NoOld => phead.durable <= origin + synced
  /\ mark # NoMark => head.acked <= mark /\ phead.acked <= mark
  /\ mark # NoMark /\ (groups > 0 \/ pc \in {"tick", "stamp"}) => head.durable <= mark

ActiveOK ==
  mode = "up" =>
    /\ AllOk(body) /\ carry <= synced /\ synced <= Len(body)
    /\ ~dirty /\ pc \notin {"stamp", "barrier"} => synced = Len(body)
    /\ OldOK /\ StampsOK

\* A log that is down, torn at frame m.
CrashedAt(m) ==
  /\ TornAt(body, m)
  /\ carry <= m /\ head.acked <= origin + m
  /\ m < Len(body) => synced = Len(body) /\ head = phead

DownOK == mode = "down" => \E m \in 0 .. Len(body) : CrashedAt(m)

\* The disk keeps what it acknowledged and writes in order, nothing was damaged
\* at rest, and no open took over what was not on the platter.
Honest == Faults \cap {"holes", "fsync_error", "short_write"} = {} /\ ~rotten /\ ~adopted

Clean == CallOK /\ SealedOK /\ ActiveOK /\ DownOK

\* The inductive invariant.
IInv == TypeOK /\ GroupsOK /\ (Honest => Clean)

-----------------------------------------------------------------------------
(* Sequences of frames.                                                     *)

\* The first n elements of a sequence.
LEMMA PrefixFacts ==
  ASSUME NEW S, NEW s \in Seq(S), NEW n \in 0 .. Len(s)
  PROVE  /\ SubSeq(s, 1, n) \in Seq(S)
         /\ Len(SubSeq(s, 1, n)) = n
         /\ \A i \in 1 .. n : SubSeq(s, 1, n)[i] = s[i]
<1>1. \A i \in 1 .. n : s[i] \in S
  OBVIOUS
<1> QED BY <1>1, SubSeqProperties

\* A nonempty set of naturals has a least element.
LEMMA LeastElement ==
  ASSUME NEW T, T \subseteq Nat, T # {}
  PROVE  \E x \in T : \A y \in T : x <= y
<1>1. PICK x \in T : \A y \in T : ~ (<<y, x>> \in OpToRel(<, Nat))
  BY NatLessThanWellFounded, WFMin
<1>2. \A y \in T : ~ (y < x)
  BY <1>1 DEF OpToRel
<1>3. \A y \in T : x <= y
  <2> SUFFICES ASSUME NEW y \in T PROVE x <= y
    OBVIOUS
  <2>1. x \in Nat /\ y \in Nat
    OBVIOUS
  <2> QED BY <1>2, <2>1
<1> QED BY <1>3

\* A set of positions has, for every k up to its size, a k-th member.
LEMMA KthMember ==
  ASSUME NEW n \in Nat, NEW D, D \subseteq 1 .. n
  PROVE  /\ Cardinality(D) \in Nat
         /\ \A k \in 1 .. Cardinality(D) :
              \E i \in D : Cardinality({j \in D : j <= i}) = k
<1>1. IsFiniteSet(D) /\ Cardinality(D) \in Nat
  <2>1. IsFiniteSet(1 .. n)
    BY FS_Interval
  <2>2. IsFiniteSet(D)
    BY <2>1, FS_Subset
  <2> QED BY <2>2, FS_CardinalityType
<1> DEFINE Upto(i) == {j \in D : j <= i}
           Bad == {k \in 1 .. Cardinality(D) : \A i \in D : Cardinality(Upto(i)) # k}
<1>2. ASSUME Bad # {} PROVE FALSE
  <2>0. Bad \subseteq Nat
    BY <1>1
  <2>1. PICK k \in Bad : \A y \in Bad : k <= y
    <3> HIDE DEF Bad
    <3> QED BY <1>2, <2>0, LeastElement
  <2>2. k \in 1 .. Cardinality(D) /\ \A i \in D : Cardinality(Upto(i)) # k
    BY <2>1
  <2>3. CASE k = 1
    <3>1. D # {}
      BY <1>1, <2>2, FS_EmptySet
    <3>2. PICK i \in D : \A y \in D : i <= y
      <4>1. D \subseteq Nat
        OBVIOUS
      <4> QED BY <3>1, <4>1, LeastElement
    <3>3. Upto(i) = {i}
      <4>1. \A j \in D : j <= i <=> j = i
        <5> SUFFICES ASSUME NEW j \in D PROVE j <= i <=> j = i
          OBVIOUS
        <5>1. i \in Nat /\ j \in Nat /\ i <= j
          BY <3>2
        <5> QED BY <5>1
      <4> QED BY <4>1
    <3>4. Cardinality(Upto(i)) = 1
      BY <3>3, FS_Singleton
    <3> QED BY <2>2, <2>3, <3>4
  <2>4. CASE k > 1
    <3>1. k - 1 \in 1 .. Cardinality(D) /\ k - 1 \notin Bad
      BY <1>1, <2>1, <2>2, <2>4
    <3>2. PICK i \in D : Cardinality(Upto(i)) = k - 1
      BY <3>1
    <3>3. Upto(i) \subseteq D /\ Upto(i) # D
      BY <1>1, <2>2, <3>2
    <3>4. D \ Upto(i) # {} /\ D \ Upto(i) \subseteq Nat
      <4>1. D \subseteq Nat
        OBVIOUS
      <4> HIDE DEF Upto
      <4> QED BY <3>3, <4>1
    <3>5. PICK h \in D \ Upto(i) : \A y \in D \ Upto(i) : h <= y
      BY <3>4, LeastElement
    <3>6. Upto(h) = Upto(i) \cup {h} /\ h \notin Upto(i)
      <4>1. \A j \in D : j <= h <=> j <= i \/ j = h
        <5> SUFFICES ASSUME NEW j \in D PROVE j <= h <=> j <= i \/ j = h
          OBVIOUS
        <5>1. h \in Nat /\ i \in Nat /\ j \in Nat /\ ~ (h <= i)
          BY <3>5
        <5>2. ~ (j <= i) => h <= j
          BY <3>5
        <5> QED BY <5>1, <5>2
      <4> QED BY <4>1, <3>5
    <3>7. IsFiniteSet(Upto(i))
      BY <1>1, <3>3, FS_Subset
    <3>8. Cardinality(Upto(h)) = k
      <4>1. Cardinality(Upto(i) \cup {h}) = Cardinality(Upto(i)) + 1
        BY <3>6, <3>7, FS_AddElement
      <4> QED BY <4>1, <3>6, <3>2, <2>2, <1>1
    <3> QED BY <2>2, <3>5, <3>8
  <2> QED BY <2>2, <2>3, <2>4
<1>3. \A k \in 1 .. Cardinality(D) : \E i \in D : Cardinality(Upto(i)) = k
  BY <1>2
<1> QED BY <1>1, <1>3

\* The decisions a roll carries are frames of the active segment.
LEMMA DecisionsFacts ==
  ASSUME body \in Seq(Frame)
  PROVE  /\ Decisions \in Seq(Frame)
         /\ \A k \in 1 .. Len(Decisions) : \E i \in 1 .. Len(body) : Decisions[k] = body[i]
<1> DEFINE n == Cardinality(DecidedAt)
           Slot(k) == CHOOSE i \in DecidedAt : Cardinality({j \in DecidedAt : j <= i}) = k
<1>1. DecidedAt \subseteq 1 .. Len(body)
  BY DEF DecidedAt
<1>2. n \in Nat /\ \A k \in 1 .. n : \E i \in DecidedAt : Cardinality({j \in DecidedAt : j <= i}) = k
  <2>1. Len(body) \in Nat
    OBVIOUS
  <2> QED BY <1>1, <2>1, KthMember
<1>3. \A k \in 1 .. n : Slot(k) \in DecidedAt
  BY <1>2
<1>4. Decisions = [k \in 1 .. n |-> body[Slot(k)]]
  BY DEF Decisions
<1>5. \A k \in 1 .. n : Slot(k) \in 1 .. Len(body) /\ body[Slot(k)] \in Frame
  <2> SUFFICES ASSUME NEW k \in 1 .. n
               PROVE  Slot(k) \in 1 .. Len(body) /\ body[Slot(k)] \in Frame
    OBVIOUS
  <2>1. Slot(k) \in 1 .. Len(body)
    BY <1>1, <1>3
  <2> HIDE DEF Slot
  <2> QED BY <2>1
<1> HIDE DEF n, Slot
<1>6. Decisions \in [1 .. n -> Frame]
  BY <1>4, <1>5
<1>7. Decisions \in Seq(Frame) /\ Len(Decisions) = n
  BY <1>2, <1>6
<1>8. \A k \in 1 .. n : Decisions[k] = body[Slot(k)]
  BY <1>4
<1> QED BY <1>5, <1>7, <1>8

\* prune stops at some number of segments.
LEMMA PrunableFacts ==
  ASSUME NEW s \in Seq(Segment), NEW to \in Nat
  PROVE  Prunable(s, to) \in 0 .. Len(s) /\ \A j \in 0 .. Prunable(s, to) - 1 : Over(s, to, j)
<1> DEFINE T == {k \in 0 .. Len(s) : ~Over(s, to, k)}
<1>1. Len(s) \in T
  BY DEF Over
<1>2. PICK k \in T : \A y \in T : k <= y
  <2>1. T \subseteq Nat
    OBVIOUS
  <2> HIDE DEF T
  <2> QED BY <1>1, <2>1, LeastElement
<1>3. \A j \in 0 .. k - 1 : Over(s, to, j)
  BY <1>2
<1>4. \E x \in 0 .. Len(s) : ~Over(s, to, x) /\ \A j \in 0 .. x - 1 : Over(s, to, j)
  BY <1>2, <1>3
<1> QED BY <1>4 DEF Prunable

-----------------------------------------------------------------------------
(* What a power loss leaves, and what a walk makes of it.                   *)

\* The fates of the frames k + 1 .. n, as Survivors draws them: on an in-order
\* disk the first m frames are whole and the next is st.
InOrderFate(k, n, m, st) ==
  [i \in k + 1 .. n |-> IF i <= m THEN "ok" ELSE IF i = m + 1 THEN st ELSE "lost"]
Fates(k, n) ==
  IF "holes" \in Faults THEN [k + 1 .. n -> {"ok", "half", "lost"}]
  ELSE {InOrderFate(k, n, m, st) : m \in k .. n, st \in {"half", "lost"}}

\* A frame after a power loss.
After(b, k, f, i) == IF i > k /\ b[i].st = "ok" THEN [b[i] EXCEPT !.st = f[i]] ELSE b[i]

\* Survivors, one at a time.
LEMMA SurvivorIs ==
  ASSUME NEW b \in Seq(Frame), NEW k \in Nat, NEW s \in Survivors(b, k)
  PROVE  \E n \in 0 .. Len(b) : \E f \in Fates(k, n) :
           (k <= Len(b) => n >= k) /\ s = [i \in 1 .. n |-> After(b, k, f, i)]
<1> DEFINE lengths == IF "short_file" \in Faults THEN k .. Len(b) ELSE {Len(b)}
<1>1. Survivors(b, k) =
        UNION {{[i \in 1 .. n |-> After(b, k, f, i)] : f \in Fates(k, n)} : n \in lengths}
  BY DEF Survivors, Fates, InOrderFate, After
<1>2. PICK n \in lengths : \E f \in Fates(k, n) : s = [i \in 1 .. n |-> After(b, k, f, i)]
  BY <1>1
<1>3. n \in 0 .. Len(b) /\ (k <= Len(b) => n >= k)
  BY <1>2
<1> QED BY <1>2, <1>3

\* Every fate is a fate.
LEMMA FatesFacts ==
  ASSUME NEW k \in Nat, NEW n \in Nat, NEW f \in Fates(k, n), NEW i \in k + 1 .. n
  PROVE  f[i] \in {"ok", "half", "lost"}
<1>1. CASE "holes" \in Faults
  BY <1>1 DEF Fates
<1>2. CASE "holes" \notin Faults
  <2>1. PICK m \in k .. n, st \in {"half", "lost"} : f = InOrderFate(k, n, m, st)
    BY <1>2 DEF Fates
  <2> QED BY <2>1 DEF InOrderFate
<1> QED BY <1>1, <1>2

\* A power loss leaves a sequence of frames, no longer than the file.
LEMMA SurvivorsType ==
  ASSUME NEW b \in Seq(Frame), NEW k \in Nat, NEW s \in Survivors(b, k)
  PROVE  s \in Seq(Frame)
<1>0. PICK n \in 0 .. Len(b) : \E f \in Fates(k, n) : s = [i \in 1 .. n |-> After(b, k, f, i)]
  BY SurvivorIs
<1>1. PICK f \in Fates(k, n) : s = [i \in 1 .. n |-> After(b, k, f, i)]
  BY <1>0
<1>2. \A i \in 1 .. n : After(b, k, f, i) \in Frame
  <2> SUFFICES ASSUME NEW i \in 1 .. n PROVE After(b, k, f, i) \in Frame
    OBVIOUS
  <2>1. b[i] \in Frame
    OBVIOUS
  <2>2. CASE i > k /\ b[i].st = "ok"
    <3>1. f[i] \in {"ok", "half", "lost"}
      BY <2>2, FatesFacts
    <3> QED BY <2>1, <2>2, <3>1 DEF After, Frame
  <2>3. CASE ~(i > k /\ b[i].st = "ok")
    BY <2>1, <2>3 DEF After
  <2> QED BY <2>2, <2>3
<1>3. n \in Nat
  OBVIOUS
<1> QED BY <1>1, <1>2, <1>3

\* Of a whole file whose first k frames are on the platter, an in-order disk
\* leaves at least those k.
LEMMA SurvivorsTorn ==
  ASSUME NEW b \in Seq(Frame), NEW k \in 0 .. Len(b), NEW s \in Survivors(b, k),
         AllOk(b), "holes" \notin Faults
  PROVE  \E m \in 0 .. Len(s) : k <= m /\ TornAt(s, m)
<1>0. PICK n \in 0 .. Len(b) : \E f \in Fates(k, n) :
        n >= k /\ s = [i \in 1 .. n |-> After(b, k, f, i)]
  BY SurvivorIs
<1>1. PICK f \in Fates(k, n) : n >= k /\ s = [i \in 1 .. n |-> After(b, k, f, i)]
  BY <1>0
<1>2. PICK m \in k .. n, st \in {"half", "lost"} : f = InOrderFate(k, n, m, st)
  BY DEF Fates
<1>3. Len(s) = n
  BY <1>1
<1>4. \A i \in 1 .. n : s[i].st = IF i <= k THEN "ok" ELSE f[i]
  <2> SUFFICES ASSUME NEW i \in 1 .. n PROVE s[i].st = IF i <= k THEN "ok" ELSE f[i]
    OBVIOUS
  <2>1. b[i] \in Frame /\ b[i].st = "ok"
    BY DEF AllOk
  <2>2. s[i] = After(b, k, f, i)
    BY <1>1
  <2> QED BY <2>1, <2>2 DEF After, Frame
<1>5. TornAt(s, m)
  <2> SUFFICES ASSUME NEW i \in 1 .. n
               PROVE  /\ i <= m => s[i].st = "ok"
                      /\ i = m + 1 => s[i].st \in {"half", "lost"}
                      /\ i > m + 1 => s[i].st = "lost"
    BY <1>3 DEF TornAt
  <2>1. i > k => f[i] = IF i <= m THEN "ok" ELSE IF i = m + 1 THEN st ELSE "lost"
    BY <1>2 DEF InOrderFate
  <2> QED BY <1>4, <2>1
<1> QED BY <1>2, <1>3, <1>5

\* A file that is all on the platter survives as it is.
LEMMA SurvivorsWhole ==
  ASSUME NEW b \in Seq(Frame), NEW s \in Survivors(b, Len(b))
  PROVE  s = b
<1>0. PICK n \in 0 .. Len(b) : \E f \in Fates(Len(b), n) :
        n >= Len(b) /\ s = [i \in 1 .. n |-> After(b, Len(b), f, i)]
  BY SurvivorIs
<1>1. PICK f \in Fates(Len(b), n) : n >= Len(b) /\ s = [i \in 1 .. n |-> After(b, Len(b), f, i)]
  BY <1>0
<1>2. n = Len(b)
  BY <1>1
<1>3. \A i \in 1 .. n : After(b, Len(b), f, i) = b[i]
  BY <1>2 DEF After
<1>4. s = [i \in 1 .. Len(b) |-> b[i]]
  BY <1>1, <1>2, <1>3
<1> QED BY <1>4

\* The walk over a whole segment reaches its end.
LEMMA WalkWhole ==
  ASSUME NEW b \in Seq(Frame), AllOk(b), NEW from
  PROVE  Walked(b, from) = Len(b)
<1>1. {i \in DOMAIN b : i > from /\ b[i].st # "ok"} = {}
  BY DEF AllOk
<1> QED BY <1>1 DEF Walked, FirstBad

\* ... and accepts it, sealed, when its stamp does not pass its end.
LEMMA SealedWalkOk ==
  ASSUME NEW b \in Seq(Frame), AllOk(b), NEW from, NEW o \in Nat, NEW h \in Stamps,
         h.durable <= o + Len(b)
  PROVE  WalkOk(o, b, h, TRUE, from)
<1>1. Walked(b, from) = Len(b)
  BY WalkWhole
<1>2. 2 * Len(b) >= At(o, h.durable)
  BY DEF At, Greatest, Stamps
<1>3. At(o, h.durable) = Floor(o, h, TRUE)
  BY DEF Floor
<1>4. ~(Len(b) < Len(b))
  OBVIOUS
<1> QED BY <1>1, <1>2, <1>3, <1>4, Zenon DEF WalkOk

\* Where the data of a torn file ends.
LEMMA TornDataEnd ==
  ASSUME NEW b \in Seq(Frame), NEW m \in Nat, m < Len(b), TornAt(b, m)
  PROVE  /\ b[m + 1].st = "lost" => DataEnd(b) = 2 * m
         /\ b[m + 1].st = "half" => DataEnd(b) = 2 * m + 1
<1> DEFINE nz == {i \in DOMAIN b : b[i].st # "lost"}
           last == CHOOSE i \in nz : \A j \in nz : j <= i
<1>0. DataEnd(b) = IF nz = {} THEN 0
                   ELSE IF b[last].st = "half" THEN 2 * last - 1 ELSE 2 * last
  BY DEF DataEnd
<1>1. CASE b[m + 1].st = "lost"
  <2>1. nz = 1 .. m
    BY <1>1 DEF TornAt
  <2>2. CASE m = 0
    BY <1>0, <1>1, <2>1, <2>2
  <2>3. CASE m > 0
    <3>1. nz # {} /\ m \in nz /\ \A j \in nz : j <= m
      BY <2>1, <2>3
    <3>2. last \in nz /\ \A j \in nz : j <= last
      BY <3>1
    <3>3. last = m
      <4> HIDE DEF last
      <4>1. last \in Nat
        BY <3>2, <2>1
      <4> QED BY <3>1, <3>2, <4>1
    <3>4. b[m].st = "ok"
      BY <2>3 DEF TornAt
    <3> HIDE DEF nz, last
    <3> QED BY <1>0, <1>1, <3>1, <3>3, <3>4
  <2> QED BY <2>2, <2>3
<1>2. CASE b[m + 1].st = "half"
  <2>1. nz = 1 .. m + 1
    BY <1>2 DEF TornAt
  <2>2. nz # {} /\ m + 1 \in nz /\ \A j \in nz : j <= m + 1
    BY <2>1
  <2>3. last \in nz /\ \A j \in nz : j <= last
    BY <2>2
  <2>4. last = m + 1
    <3> HIDE DEF last
    <3>1. last \in Nat
      BY <2>3, <2>1
    <3> QED BY <2>2, <2>3, <3>1
  <2> HIDE DEF nz, last
  <2> QED BY <1>0, <1>2, <2>2, <2>4
<1> QED BY <1>1, <1>2

\* The walk over a torn file stops at the tear.
LEMMA TornWalk ==
  ASSUME NEW b \in Seq(Frame), NEW m \in 0 .. Len(b), TornAt(b, m),
         NEW from \in Nat, from <= m
  PROVE  Walked(b, from) = m
<1> DEFINE bad == {i \in DOMAIN b : i > from /\ b[i].st # "ok"}
<1>1. CASE m = Len(b)
  <2>1. AllOk(b)
    BY <1>1 DEF TornAt, AllOk
  <2> QED BY <1>1, <2>1, WalkWhole
<1>2. CASE m < Len(b)
  <2>1. m + 1 \in bad /\ \A j \in bad : m + 1 <= j
    BY <1>2 DEF TornAt
  <2>2. bad # {} /\ (CHOOSE i \in bad : \A j \in bad : i <= j) = m + 1
    <3> DEFINE least == CHOOSE i \in bad : \A j \in bad : i <= j
    <3>1. least \in bad /\ \A j \in bad : least <= j
      BY <2>1
    <3>2. least \in Nat
      BY <3>1
    <3> HIDE DEF least
    <3>3. least = m + 1
      <4> HIDE DEF bad
      <4> QED BY <2>1, <3>1, <3>2
    <3> QED BY <2>1, <3>3 DEF least
  <2>3. FirstBad(b, from) = m + 1
    <3>1. FirstBad(b, from) = IF bad = {} THEN Len(b) + 1 ELSE CHOOSE i \in bad : \A j \in bad : i <= j
      BY DEF FirstBad
    <3> QED BY <2>2, <3>1
  <2> QED BY <2>3 DEF Walked
<1> QED BY <1>1, <1>2

\* ... and takes it for a tear, when nothing below `acked' is missing.
LEMMA TornWalkOk ==
  ASSUME NEW b \in Seq(Frame), NEW m \in 0 .. Len(b), TornAt(b, m),
         NEW from \in Nat, from <= m, NEW o \in Nat, NEW h \in Stamps, h.acked <= o + m
  PROVE  WalkOk(o, b, h, FALSE, from)
<1>1. Walked(b, from) = m
  BY TornWalk
<1>2. 2 * m >= Floor(o, h, FALSE)
  BY DEF Floor, At, Greatest, Stamps
<1>3. ASSUME m < Len(b) PROVE Tear(o, b, h, FALSE, m + 1)
  <2>1. h.durable \in Nat
    BY DEF Stamps
  <2>2. b[m + 1].st \in {"half", "lost"}
    BY <1>3 DEF TornAt
  <2>3. CASE b[m + 1].st = "lost"
    <3>1. DataEnd(b) = 2 * m
      BY <1>3, <2>3, TornDataEnd
    <3>2. 2 * ((m + 1) - 1) >= Effective(o, b, h, FALSE)
      BY <2>1, <3>1 DEF Effective, Least, At, Greatest
    <3> QED BY <3>2, Zenon DEF Tear
  <2>4. CASE b[m + 1].st = "half"
    <3>1. DataEnd(b) = 2 * m + 1
      BY <1>3, <2>4, TornDataEnd
    <3>2. CASE h.durable <= o + m
      <4>1. 2 * ((m + 1) - 1) >= Effective(o, b, h, FALSE)
        BY <2>1, <3>1, <3>2 DEF Effective, Least, At, Greatest
      <4> QED BY <4>1, Zenon DEF Tear
    <3>3. CASE h.durable > o + m
      <4>1. ClaimedEnd(b, m + 1) = 2 * (m + 1)
        BY <2>4 DEF ClaimedEnd
      <4>2. ClaimedEnd(b, m + 1) <= At(o, h.durable)
        BY <2>1, <3>3, <4>1 DEF At, Greatest
      <4>3. ClaimedEnd(b, m + 1) > DataEnd(b)
        BY <3>1, <4>1
      <4> QED BY <4>2, <4>3, Zenon DEF Tear
    <3>4. h.durable <= o + m \/ h.durable > o + m
      BY <2>1
    <3> QED BY <3>2, <3>3, <3>4, Zenon
  <2> QED BY <2>2, <2>3, <2>4, Zenon
<1> QED BY <1>1, <1>2, <1>3, Zenon DEF WalkOk

-----------------------------------------------------------------------------
(* The calls of a running log.                                              *)

\* A whole file stays whole when a whole frame is appended.
LEMMA AppendOk ==
  ASSUME NEW b \in Seq(Frame), NEW f \in Frame
  PROVE  /\ Append(b, f) \in Seq(Frame) /\ Len(Append(b, f)) = Len(b) + 1
         /\ AllOk(b) /\ f.st = "ok" => AllOk(Append(b, f))
<1>1. Append(b, f) \in Seq(Frame) /\ Len(Append(b, f)) = Len(b) + 1
  OBVIOUS
<1>2. ASSUME AllOk(b), f.st = "ok", NEW i \in 1 .. Len(b) + 1 PROVE Append(b, f)[i].st = "ok"
  <2>1. CASE i <= Len(b)
    <3>1. Append(b, f)[i] = b[i]
      BY <2>1
    <3> QED BY <1>2, <2>1, <3>1 DEF AllOk
  <2>2. CASE i = Len(b) + 1
    <3>1. Append(b, f)[i] = f
      BY <2>2
    <3> QED BY <1>2, <3>1
  <2> QED BY <2>1, <2>2
<1> QED BY <1>1, <1>2 DEF AllOk

\* The frames the calls append are frames, and whole.
LEMMA NewFrames ==
  ASSUME NEW i \in Nat
  PROVE  /\ Data(i) \in Frame /\ Data(i).st = "ok"
         /\ Decide(i) \in Frame /\ Decide(i).st = "ok"
         /\ Tick \in Frame /\ Tick.st = "ok"
BY DEF Data, Decide, Tick, Frame

\* The environment is never less honest for a step that damages nothing.
LEMMA HonestBefore ==
  ASSUME UNCHANGED <<rotten, adopted, regime>>
  PROVE  Honest' <=> Honest
BY DEF Honest, Faults

\* An autocommit append extends the active segment past every mark and stamp.
LEMMA AppendPlainStep ==
  ASSUME IInv, AppendPlain
  PROVE  IInv'
<1> USE DEF AppendPlain, Idle, Push, NewRecord
<1>0. TypeOK /\ Data(nextRec) \in Frame /\ Data(nextRec).st = "ok"
  BY NewFrames DEF IInv, TypeOK
<1>1. body' \in Seq(Frame) /\ Len(body') = Len(body) + 1 /\ (AllOk(body) => AllOk(body'))
  BY <1>0, AppendOk DEF TypeOK
<1>2. TypeOK'
  BY <1>0, <1>1 DEF TypeOK
<1>3. GroupsOK'
  BY DEF IInv, GroupsOK, Faults
<1>4. ASSUME Honest' PROVE Clean'
  <2>1. Clean /\ GroupsOK /\ groups = 0
    BY <1>4, HonestBefore DEF IInv, Honest, GroupsOK
  <2>2. job = "none" /\ pc = "none" /\ old = NoOld
    BY <2>1 DEF Clean, CallOK, ActiveOK, OldOK, Rolls
  <2>3. CallOK'
    BY <2>1, <2>2 DEF Clean, CallOK, Rolls
  <2>4. SealedOK'
    BY <2>1 DEF Clean, SealedOK, Successor
  <2>5. ActiveOK'
    <3>1. AllOk(body') /\ carry <= synced /\ synced <= Len(body')
      BY <1>0, <1>1, <2>1 DEF TypeOK, Clean, ActiveOK
    <3>2. OldOK'
      BY <2>2 DEF OldOK
    <3>3. StampsOK'
      BY <2>1, <2>2 DEF Clean, ActiveOK, StampsOK, len
    <3> QED BY <3>1, <3>2, <3>3 DEF ActiveOK
  <2>6. DownOK'
    BY DEF DownOK
  <2> QED BY <2>3, <2>4, <2>5, <2>6 DEF Clean
<1> QED BY <1>2, <1>3, <1>4 DEF IInv

\* Wal::begin takes its rewind mark at the present end of the log.
LEMMA BeginStep ==
  ASSUME IInv, Begin
  PROVE  IInv'
<1> USE DEF Begin, Idle, segVars, histVars
<1>0. TypeOK /\ len \in Nat /\ len # NoMark
  BY DEF IInv, TypeOK, len, NoMark
<1>2. TypeOK'
  BY <1>0 DEF TypeOK
<1>3. GroupsOK'
  BY <1>0 DEF IInv, GroupsOK, Faults
<1>4. ASSUME Honest' PROVE Clean'
  <2>1. Clean
    BY <1>4, HonestBefore DEF IInv
  <2>2. job = "none" /\ pc = "none" /\ old = NoOld
    BY <2>1 DEF Clean, CallOK, ActiveOK, OldOK, Rolls
  <2>3. CallOK'
    BY <2>1, <2>2 DEF Clean, CallOK, Rolls
  <2>4. SealedOK'
    BY <2>1 DEF Clean, SealedOK, Successor
  <2>5. ActiveOK'
    <3>1. AllOk(body') /\ carry <= synced /\ synced <= Len(body')
      BY <2>1 DEF Clean, ActiveOK
    <3>2. OldOK'
      BY <2>2 DEF OldOK
    <3>3. /\ head = phead /\ head.acked <= origin + synced
          /\ head.durable <= origin + synced /\ synced <= Len(body)
      BY <2>1, <2>2 DEF Clean, ActiveOK, StampsOK
    <3>4. head.acked <= len /\ phead.acked <= len /\ head.durable <= len
      BY <1>0, <3>3 DEF TypeOK, Stamps, len
    <3>5. StampsOK'
      BY <2>1, <2>2, <3>3, <3>4 DEF Clean, ActiveOK, StampsOK
    <3>6. ~dirty /\ pc \notin {"stamp", "barrier"} => synced = Len(body)
      BY <2>1 DEF Clean, ActiveOK
    <3> QED BY <3>1, <3>2, <3>5, <3>6 DEF ActiveOK
  <2>6. DownOK'
    BY DEF DownOK
  <2> QED BY <2>3, <2>4, <2>5, <2>6 DEF Clean
<1> QED BY <1>2, <1>3, <1>4 DEF IInv

\* A staged append lies above the running transaction's mark.
LEMMA AppendStagedStep ==
  ASSUME IInv, AppendStaged
  PROVE  IInv'
<1> USE DEF AppendStaged, Idle, Push, NewRecord
<1>0. TypeOK /\ Data(nextRec) \in Frame /\ Data(nextRec).st = "ok"
  BY NewFrames DEF IInv, TypeOK
<1>1. body' \in Seq(Frame) /\ Len(body') = Len(body) + 1 /\ (AllOk(body) => AllOk(body'))
  BY <1>0, AppendOk DEF TypeOK
<1>2. TypeOK'
  BY <1>0, <1>1 DEF TypeOK
<1>3. GroupsOK'
  BY DEF IInv, GroupsOK, Faults
<1>4. ASSUME Honest' PROVE Clean'
  <2>1. Clean
    BY <1>4, HonestBefore DEF IInv
  <2>2. job = "none" /\ pc = "none" /\ old = NoOld
    BY <2>1 DEF Clean, CallOK, ActiveOK, OldOK, Rolls
  <2>3. CallOK'
    BY <2>1, <2>2 DEF Clean, CallOK, Rolls
  <2>4. SealedOK'
    BY <2>1 DEF Clean, SealedOK, Successor
  <2>5. ActiveOK'
    <3>1. AllOk(body') /\ carry <= synced /\ synced <= Len(body')
      BY <1>0, <1>1, <2>1 DEF TypeOK, Clean, ActiveOK
    <3>2. OldOK'
      BY <2>2 DEF OldOK
    <3>3. StampsOK'
      BY <2>1, <2>2 DEF Clean, ActiveOK, StampsOK, len
    <3> QED BY <3>1, <3>2, <3>3 DEF ActiveOK
  <2>6. DownOK'
    BY DEF DownOK
  <2> QED BY <2>3, <2>4, <2>5, <2>6 DEF Clean
<1> QED BY <1>2, <1>3, <1>4 DEF IInv

\* A commit, prepare or decide frame ends its group above the mark.
LEMMA CloseGroupStep ==
  ASSUME IInv, NEW f \in Frame, f.st = "ok", CloseGroup(f)
  PROVE  IInv'
<1> USE DEF CloseGroup, Idle, Push, NewRecord
<1>0. TypeOK
  BY DEF IInv
<1>1. body' \in Seq(Frame) /\ Len(body') = Len(body) + 1 /\ (AllOk(body) => AllOk(body'))
  BY <1>0, AppendOk DEF TypeOK
<1>2. TypeOK'
  BY <1>0, <1>1 DEF TypeOK
<1>3. GroupsOK'
  BY <1>0 DEF IInv, GroupsOK, Faults, TypeOK
<1>4. ASSUME Honest' PROVE Clean'
  <2>1. Clean /\ GroupsOK /\ groups = 1
    BY <1>0, <1>4, HonestBefore DEF IInv, Honest, GroupsOK, TypeOK
  <2>2. job = "none" /\ pc = "none" /\ old = NoOld
    BY <2>1 DEF Clean, CallOK, ActiveOK, OldOK, Rolls
  <2>3. CallOK'
    BY <2>1, <2>2 DEF Clean, CallOK, Rolls
  <2>4. SealedOK'
    BY <2>1 DEF Clean, SealedOK, Successor
  <2>5. ActiveOK'
    <3>1. AllOk(body') /\ carry <= synced /\ synced <= Len(body')
      BY <1>0, <1>1, <2>1 DEF TypeOK, Clean, ActiveOK
    <3>2. OldOK'
      BY <2>2 DEF OldOK
    <3>3. StampsOK'
      BY <2>1, <2>2 DEF Clean, ActiveOK, StampsOK, len
    <3> QED BY <3>1, <3>2, <3>3 DEF ActiveOK
  <2>6. DownOK'
    BY DEF DownOK
  <2> QED BY <2>3, <2>4, <2>5, <2>6 DEF Clean
<1> QED BY <1>2, <1>3, <1>4 DEF IInv

\* Ending a transaction drops its mark and leaves the log alone.
LEMMA EndTxnStep ==
  ASSUME IInv, EndTxn
  PROVE  IInv'
<1> USE DEF EndTxn, Idle, segVars, tabVars, histVars
<1>0. TypeOK
  BY DEF IInv
<1>2. TypeOK'
  BY <1>0 DEF TypeOK
<1>3. GroupsOK'
  BY DEF IInv, GroupsOK, Faults
<1>4. ASSUME Honest' PROVE Clean'
  <2>1. Clean
    BY <1>4, HonestBefore DEF IInv
  <2>3. CallOK'
    BY <2>1 DEF Clean, CallOK, Rolls
  <2>4. SealedOK'
    BY <2>1 DEF Clean, SealedOK, Successor
  <2>5. ActiveOK'
    BY <2>1 DEF Clean, ActiveOK, OldOK, StampsOK, len
  <2>6. DownOK'
    BY DEF DownOK
  <2> QED BY <2>3, <2>4, <2>5, <2>6 DEF Clean
<1> QED BY <1>2, <1>3, <1>4 DEF IInv

\* A rewind leaves a prefix of the file above the carried decisions, and keeps
\* what it cut off as the file that may come back.
LEMMA RewindStep ==
  ASSUME IInv, Rewind
  PROVE  IInv'
<1> USE DEF Rewind
<1>0. TypeOK /\ DropGroup \in Nat
  BY DEF IInv, TypeOK, DropGroup, Greatest
<1>1. GroupsOK'
  <2>1. "short_write" \notin Faults => groups' = 0
    BY <1>0 DEF IInv, TypeOK, GroupsOK, DropGroup, Greatest
  <2> QED BY <2>1 DEF GroupsOK, Faults
<1>2. CASE mark >= len /\ job' = "none" /\ pc' = "none" /\ UNCHANGED <<body, old, synced, owed, mem>>
  <2>1. TypeOK'
    BY <1>0, <1>2 DEF TypeOK
  <2>2. ASSUME Honest' PROVE Clean'
    <3>1. Clean /\ Honest
      BY <2>2, HonestBefore DEF IInv
    <3>2. job = "none" /\ pc = "none" /\ old = NoOld
      BY <3>1 DEF Clean, CallOK, ActiveOK, OldOK, Rolls
    <3>3. groups' = 0
      BY <1>1, <3>1 DEF GroupsOK, Honest, Faults
    <3>4. CallOK'
      BY <1>2, <3>1, <3>2, <3>3 DEF Clean, CallOK, Rolls
    <3>5. SealedOK'
      BY <3>1 DEF Clean, SealedOK, Successor
    <3>6. ActiveOK'
      BY <1>2, <3>1, <3>2 DEF Clean, ActiveOK, OldOK, StampsOK, len
    <3>7. DownOK'
      BY DEF DownOK
    <3> QED BY <3>4, <3>5, <3>6, <3>7 DEF Clean
  <2> QED BY <1>1, <2>1, <2>2 DEF IInv
<1>3. CASE /\ mark < len /\ mark >= origin + carry
           /\ old' = [body |-> body, synced |-> synced]
           /\ body' = SubSeq(body, 1, mark - origin)
           /\ synced' = Least(synced, mark - origin)
           /\ job' = "rewind" /\ pc' = "stamp"
  <2>0. mark \in Nat /\ mark - origin \in 0 .. Len(body) /\ mark - origin < Len(body)
        /\ mark - origin >= carry
    <3>1. mark \in Nat /\ origin \in Nat /\ carry \in Nat /\ Len(body) \in Nat
      BY <1>0 DEF TypeOK
    <3>2. mark < origin + Len(body) /\ mark >= origin + carry
      BY <1>3 DEF len
    <3> HIDE DEF Rewind
    <3> QED BY <3>1, <3>2
  <2>1. body' \in Seq(Frame) /\ Len(body') = mark - origin
        /\ \A i \in 1 .. mark - origin : body'[i] = body[i]
    BY <1>0, <1>3, <2>0, PrefixFacts DEF TypeOK
  <2>2. /\ synced' \in Nat /\ synced' <= synced /\ synced' <= mark - origin
        /\ synced' = synced \/ synced' = mark - origin
    BY <1>0, <1>3, <2>0 DEF TypeOK, Least
  <2>3. TypeOK'
    BY <1>0, <1>3, <2>1, <2>2 DEF TypeOK
  <2>4. ASSUME Honest' PROVE Clean'
    <3>1. Clean /\ Honest
      BY <2>4, HonestBefore DEF IInv
    <3>2. job = "none" /\ pc = "none" /\ old = NoOld
      BY <3>1 DEF Clean, CallOK, ActiveOK, OldOK, Rolls
    <3>3. groups' = 0
      BY <1>1, <3>1 DEF GroupsOK, Honest, Faults
    <3>4. CallOK'
      BY <1>3, <3>1, <3>2, <3>3 DEF Clean, CallOK, Rolls
    <3>5. SealedOK'
      BY <3>1 DEF Clean, SealedOK, Successor
    <3>6. ActiveOK'
      <4>1. AllOk(body) /\ carry <= synced /\ synced <= Len(body)
        BY <3>1 DEF Clean, ActiveOK
      <4>2. AllOk(body')
        BY <2>0, <2>1, <4>1 DEF AllOk
      <4>3. carry' <= synced' /\ synced' <= Len(body')
        BY <1>0, <2>0, <2>1, <2>2, <4>1 DEF TypeOK
      <4>4. OldOK'
        BY <1>3, <2>2, <4>1 DEF OldOK
      <4>5. old' # NoOld
        <5>1. old'.body = body /\ body # << >>
          BY <1>0, <1>3, <2>0 DEF TypeOK
        <5> QED BY <5>1 DEF NoOld
      <4>6. /\ head = phead /\ head.acked <= origin + synced /\ phead.acked <= origin + synced
            /\ head.acked <= mark /\ phead.acked <= mark
        BY <3>1, <3>2 DEF Clean, ActiveOK, StampsOK
      <4>7. head.acked <= origin + synced' /\ phead.acked <= origin + synced'
        BY <1>0, <2>0, <2>2, <4>6 DEF TypeOK, Stamps
      <4>8. StampsOK'
        BY <1>3, <4>5, <4>6, <4>7 DEF StampsOK
      <4> QED BY <1>3, <4>2, <4>3, <4>4, <4>8 DEF ActiveOK
    <3>7. DownOK'
      BY DEF DownOK
    <3> QED BY <3>4, <3>5, <3>6, <3>7 DEF Clean
  <2> QED BY <1>1, <2>3, <2>4 DEF IInv
<1> QED BY <1>2, <1>3

\* A failed write is outside the honest disk: only types and groups remain.
LEMMA ShortWriteStep ==
  ASSUME IInv, ShortWrite \/ ShortWriteUnique
  PROVE  IInv'
<1>0. TypeOK
  BY DEF IInv
<1> DEFINE f == [kind |-> "data", id |-> nextRec, st |-> "bad", claim |-> Len(body) + 2]
<1>1. f \in Frame
  BY <1>0 DEF TypeOK, Frame
<1>2. body' = Append(body, f) /\ UNCHANGED <<rotten, adopted, regime, mark>>
      /\ "short_write" \in Faults /\ nextRec' = nextRec + 1 /\ groups' \in {groups, groups + 1}
  BY DEF ShortWrite, ShortWriteUnique, NewRecord
<1>3. body' \in Seq(Frame)
  BY <1>0, <1>1, <1>2, AppendOk DEF TypeOK
<1>4. TypeOK'
  <2>1. CASE ShortWrite
    BY <1>0, <1>2, <1>3, <2>1 DEF TypeOK, ShortWrite, tabVars
  <2>2. CASE ShortWriteUnique
    BY <1>0, <1>2, <1>3, <2>2 DEF TypeOK, ShortWriteUnique, tabVars
  <2> QED BY <2>1, <2>2
<1>5. GroupsOK' /\ ~Honest'
  BY <1>2 DEF GroupsOK, Honest, Faults
<1> QED BY <1>4, <1>5 DEF IInv

\* Wal::tick appends its frame above every mark, if anything is dirty.
LEMMA TickStepStep ==
  ASSUME IInv, TickStep
  PROVE  IInv'
<1> USE DEF TickStep, tabVars, histVars
<1>0. TypeOK /\ Tick \in Frame /\ Tick.st = "ok"
  BY NewFrames DEF IInv, TypeOK
<1>1. /\ body' \in Seq(Frame) /\ Len(body') >= Len(body) /\ Len(body') \in Nat
      /\ AllOk(body) => AllOk(body')
  <2>1. CASE body' = Append(body, Tick)
    BY <1>0, <2>1, AppendOk DEF TypeOK
  <2>2. CASE body' = body
    BY <1>0, <2>2 DEF TypeOK, AllOk
  <2> QED BY <2>1, <2>2
<1>2. TypeOK'
  BY <1>0, <1>1 DEF TypeOK
<1>3. GroupsOK'
  BY DEF IInv, GroupsOK, Faults
<1>4. ASSUME Honest' PROVE Clean'
  <2>1. Clean
    BY <1>4, HonestBefore DEF IInv
  <2>2. job \in Rolls \cup {"sync"} /\ old = NoOld
    BY <2>1 DEF Clean, CallOK, ActiveOK, OldOK, Rolls
  <2>3. CallOK'
    BY <2>1, <2>2 DEF Clean, CallOK, Rolls
  <2>4. SealedOK'
    BY <2>1 DEF Clean, SealedOK, Successor
  <2>5. ActiveOK'
    <3>1. AllOk(body') /\ carry <= synced /\ synced <= Len(body')
      BY <1>0, <1>1, <2>1 DEF TypeOK, Clean, ActiveOK
    <3>2. OldOK'
      BY <2>2 DEF OldOK
    <3>3. StampsOK'
      BY <2>1, <2>2 DEF Clean, ActiveOK, StampsOK
    <3> QED BY <3>1, <3>2, <3>3 DEF ActiveOK
  <2>6. DownOK'
    BY DEF DownOK
  <2> QED BY <2>3, <2>4, <2>5, <2>6 DEF Clean
<1> QED BY <1>2, <1>3, <1>4 DEF IInv

\* put_stamp: the new durable, and an acked no higher than the old stamp.
LEMMA StampedFacts ==
  ASSUME NEW h \in Stamps, NEW to \in Nat
  PROVE  /\ Stamped(h, to) \in Stamps /\ Stamped(h, to).durable = to
         /\ Stamped(h, to).acked <= h.acked \/ (to > h.durable /\ Stamped(h, to).acked = h.durable)
<1>0. h.durable \in Nat /\ h.acked \in Nat
  BY DEF Stamps
<1>1. CASE to = h.durable
  BY <1>0, <1>1 DEF Stamped
<1>2. CASE to > h.durable
  BY <1>0, <1>2 DEF Stamped, Stamps
<1>3. CASE to < h.durable
  BY <1>0, <1>3 DEF Stamped, Stamps, Least
<1> QED BY <1>0, <1>1, <1>2, <1>3

\* A sync's stamp passes what is on the platter, but the acked it leaves is the
\* old durable; a truncation's stamp never rises.
LEMMA StampStepStep ==
  ASSUME IInv, StampStep
  PROVE  IInv'
<1> USE DEF StampStep, tabVars, histVars
<1> DEFINE to == IF job \in {"rewind", "open"} THEN Least(head.durable, len) ELSE len
<1>0. TypeOK /\ len \in Nat /\ head.durable \in Nat /\ head.acked \in Nat
  BY DEF IInv, TypeOK, len, Stamps
<1>1. /\ to \in Nat /\ to <= len
      /\ job \in {"rewind", "open"} => to <= head.durable
  BY <1>0 DEF Least
<1>2. /\ head' \in Stamps /\ head'.durable = to
      /\ head'.acked <= head.acked \/ (to > head.durable /\ head'.acked = head.durable)
  <2>1. head' = Stamped(head, to) /\ head \in Stamps
    BY <1>0 DEF TypeOK
  <2> HIDE DEF to
  <2> QED BY <1>1, <2>1, StampedFacts
<1> HIDE DEF to
<1>3. TypeOK'
  BY <1>0, <1>2 DEF TypeOK
<1>4. GroupsOK'
  BY DEF IInv, GroupsOK, Faults
<1>5. ASSUME Honest' PROVE Clean'
  <2>1. Clean
    BY <1>5, HonestBefore DEF IInv
  <2>2. CallOK'
    BY <2>1 DEF Clean, CallOK, Rolls
  <2>3. SealedOK'
    BY <2>1 DEF Clean, SealedOK, Successor
  <2>4. ActiveOK'
    <3>1. /\ head.acked <= origin + synced /\ phead.acked <= origin + synced /\ head = phead
          /\ old = NoOld => phead.durable <= origin + synced
          /\ mark # NoMark => head.acked <= mark /\ head.durable <= mark
      BY <2>1 DEF Clean, ActiveOK, StampsOK
    <3>2. job \notin {"rewind", "open"} => old = NoOld
      BY <2>1 DEF Clean, ActiveOK, OldOK
    <3>3. head'.acked \in Nat
      BY <1>2 DEF Stamps
    <3>4. head'.acked <= origin + synced
      <4>1. CASE head'.acked <= head.acked
        BY <1>0, <3>1, <3>3, <4>1 DEF TypeOK
      <4>2. CASE to > head.durable /\ head'.acked = head.durable
        BY <1>0, <1>1, <3>1, <3>2, <4>2
      <4> QED BY <1>2, <4>1, <4>2
    <3>5. mark # NoMark => head'.acked <= mark
      BY <1>0, <1>2, <3>1, <3>3 DEF TypeOK
    <3>6. job # "none" /\ groups = 0
      BY <2>1 DEF Clean, CallOK, Rolls
    <3>7. head'.durable <= len' /\ groups' = 0
      BY <1>1, <1>2, <3>6 DEF len
    <3>8. StampsOK'
      <4>1. groups' > 0 <=> FALSE
        BY <3>7
      <4> QED BY <3>1, <3>4, <3>5, <3>7, <4>1 DEF StampsOK
    <3>9. OldOK'
      BY <2>1 DEF Clean, ActiveOK, OldOK
    <3> QED BY <2>1, <3>8, <3>9 DEF Clean, ActiveOK
  <2>5. DownOK'
    BY DEF DownOK
  <2> QED BY <2>2, <2>3, <2>4, <2>5 DEF Clean
<1> QED BY <1>3, <1>4, <1>5 DEF IInv

\* An fsync that returns puts the file and its stamp on the platter.
LEMMA BarrierStep ==
  ASSUME IInv, Barrier
  PROVE  IInv'
<1> USE DEF Barrier
<1>0. TypeOK /\ Len(body) \in Nat /\ NoOld \in [body : Seq(Frame), synced : Nat]
  BY DEF IInv, TypeOK, NoOld
<1>1. TypeOK'
  BY <1>0 DEF TypeOK
<1>2. GroupsOK'
  BY DEF IInv, GroupsOK, Faults
<1>3. ASSUME Honest' PROVE Clean'
  <2>1. Clean
    BY <1>3, HonestBefore DEF IInv
  <2>2. CallOK'
    BY <2>1 DEF Clean, CallOK, Rolls
  <2>3. SealedOK'
    BY <2>1 DEF Clean, SealedOK, Successor
  <2>4. ActiveOK'
    <3>1. AllOk(body) /\ carry <= synced /\ synced <= Len(body)
      BY <2>1 DEF Clean, ActiveOK
    <3>2. /\ head.acked <= origin + synced /\ head.durable <= origin + Len(body)
          /\ mark # NoMark => head.acked <= mark
      BY <2>1 DEF Clean, ActiveOK, StampsOK, len
    <3>3. carry <= Len(body) /\ head.acked <= origin + Len(body)
      BY <1>0, <3>1, <3>2 DEF TypeOK, Stamps
    <3>4. groups' = 0 /\ pc' \in {"none", "publish"}
      BY <2>1 DEF Clean, CallOK, Rolls
    <3>5. groups' > 0 <=> FALSE
      BY <3>4
    <3>6. StampsOK'
      BY <3>2, <3>3, <3>4, <3>5 DEF StampsOK
    <3>7. OldOK'
      BY DEF OldOK
    <3>8. AllOk(body') /\ carry' <= synced' /\ synced' <= Len(body') /\ synced' = Len(body')
      BY <1>0, <3>1, <3>3
    <3> QED BY <3>6, <3>7, <3>8 DEF ActiveOK
  <2>5. DownOK'
    BY DEF DownOK
  <2> QED BY <2>2, <2>3, <2>4, <2>5 DEF Clean
<1> QED BY <1>1, <1>2, <1>3 DEF IInv

\* A failed fsync is outside the honest disk.
LEMMA BarrierFailsStep ==
  ASSUME IInv, BarrierFails
  PROVE  IInv'
<1>0. TypeOK
  BY DEF IInv
<1>1. TypeOK'
  BY <1>0 DEF TypeOK, BarrierFails, segVars
<1>2. GroupsOK'
  BY DEF IInv, GroupsOK, Faults, BarrierFails
<1>3. ~Honest'
  BY DEF Honest, Faults, BarrierFails
<1> QED BY <1>1, <1>2, <1>3 DEF IInv

\* A fold picks its job while no transaction is open.
LEMMA BeginFoldStep ==
  ASSUME IInv, NEW cited \in BOOLEAN, BeginFold(cited)
  PROVE  IInv'
<1> USE DEF BeginFold, Idle, segVars, tabVars, histVars
<1>0. TypeOK
  BY DEF IInv
<1>1. TypeOK'
  BY <1>0 DEF TypeOK
<1>2. GroupsOK'
  BY DEF IInv, GroupsOK, Faults
<1>3. ASSUME Honest' PROVE Clean'
  <2>1. Clean
    BY <1>3, HonestBefore DEF IInv
  <2>2. job = "none" /\ pc = "none" /\ old = NoOld
    BY <2>1 DEF Clean, CallOK, ActiveOK, OldOK, Rolls
  <2>3. /\ job' \in Rolls
        /\ \/ pc' = "table_idle" /\ Len(body) = carry
           \/ pc' = "tick"
           \/ pc' = "publish" /\ ~dirty
    BY DEF Rolls, IsEmpty
  <2>4. CallOK'
    BY <2>1, <2>2, <2>3 DEF Clean, CallOK
  <2>5. SealedOK'
    BY <2>1 DEF Clean, SealedOK, Successor
  <2>6. ActiveOK'
    <3>1. OldOK'
      BY <2>2 DEF OldOK
    <3>2. StampsOK'
      BY <2>1, <2>2, <2>3 DEF Clean, ActiveOK, StampsOK
    <3>3. /\ AllOk(body') /\ carry' <= synced' /\ synced' <= Len(body')
          /\ ~dirty' => synced' = Len(body')
      BY <2>1, <2>2 DEF Clean, ActiveOK
    <3> QED BY <3>1, <3>2, <3>3 DEF ActiveOK
  <2>7. DownOK'
    BY DEF DownOK
  <2> QED BY <2>4, <2>5, <2>6, <2>7 DEF Clean
<1> QED BY <1>1, <1>2, <1>3 DEF IInv

\* The TABLE rename moves the watermark, never past the end of the log.
LEMMA CommitTableStep ==
  ASSUME IInv, CommitTable
  PROVE  IInv'
<1> USE DEF CommitTable, segVars, histVars
<1>0. TypeOK /\ len \in Nat
  BY DEF IInv, TypeOK, len
<1>1. covered' = origin \/ (pc = "table_idle" /\ covered' = len)
  BY DEF Watermark
<1>2. TypeOK'
  BY <1>0, <1>1 DEF TypeOK
<1>3. GroupsOK'
  BY DEF IInv, GroupsOK, Faults
<1>4. ASSUME Honest' PROVE Clean'
  <2>1. Clean
    BY <1>4, HonestBefore DEF IInv
  <2>2. covered' <= origin + carry
    BY <1>0, <1>1, <2>1 DEF TypeOK, len, Clean, CallOK
  <2>3. CallOK'
    BY <2>1, <2>2 DEF Clean, CallOK, Rolls
  <2>4. SealedOK'
    BY <2>1 DEF Clean, SealedOK, Successor
  <2>5. old = NoOld
    BY <2>1 DEF Clean, CallOK, ActiveOK, OldOK, Rolls
  <2>6. ActiveOK'
    BY <2>1, <2>5 DEF Clean, ActiveOK, StampsOK, OldOK
  <2>7. DownOK'
    BY DEF DownOK
  <2> QED BY <2>3, <2>4, <2>6, <2>7 DEF Clean
<1> QED BY <1>2, <1>3, <1>4 DEF IInv

\* What a roll seals is whole and on the platter, and what prune leaves of the
\* older segments still ends where the next one begins.
LEMMA PublishStep ==
  ASSUME IInv, Publish
  PROVE  IInv'
<1> DEFINE kept == Kept(job = "roll_keep")
           seg  == [origin |-> origin, body |-> body, synced |-> synced,
                    head |-> head, phead |-> phead]
           all  == Append(sealed, seg)
           p    == Prunable(all, len)
           stmp == [durable |-> len + Len(kept), acked |-> len + Len(kept)]
<1>0. /\ mode = "up" /\ pc = "publish" /\ pc' = "table"
      /\ sealed' = SubSeq(all, 1 + p, Len(all))
      /\ origin' = len /\ carry' = Len(kept)
      /\ body' = kept /\ synced' = Len(kept) /\ old' = NoOld
      /\ head' = stmp /\ phead' = stmp /\ dirty' = FALSE
      /\ UNCHANGED <<groups, mark, job, covered, mode, nextRec, rotten, adopted, regime>>
  BY DEF Publish, tabVars, histVars
<1>1. TypeOK /\ len \in Nat
  BY DEF IInv, TypeOK, len
<1>2. /\ kept \in Seq(Frame) /\ Len(kept) \in Nat
      /\ \A k \in 1 .. Len(kept) : \E i \in 1 .. Len(body) : kept[k] = body[i]
  <2>1. CASE kept = Decisions
    <3> HIDE DEF kept
    <3> QED BY <1>1, <2>1, DecisionsFacts DEF TypeOK
  <2>2. CASE kept = << >>
    <3> HIDE DEF kept
    <3> QED BY <2>2
  <2> QED BY <2>1, <2>2 DEF Kept
<1>3. seg \in Segment
  BY <1>1 DEF TypeOK, Segment
<1>4. /\ all \in Seq(Segment) /\ Len(all) = Len(sealed) + 1 /\ Len(sealed) \in Nat
      /\ \A i \in 1 .. Len(sealed) : all[i] = sealed[i]
      /\ all[Len(sealed) + 1] = seg
  <2> HIDE DEF seg
  <2> QED BY <1>1, <1>3 DEF TypeOK
<1>5. p \in 0 .. Len(all)
  <2> HIDE DEF all
  <2> QED BY <1>1, <1>4, PrunableFacts
<1>6. stmp \in Stamps
  <2> HIDE DEF kept
  <2> QED BY <1>1, <1>2 DEF Stamps
<1> HIDE DEF kept, all, p
<1>7. /\ sealed' \in Seq(Segment) /\ Len(sealed') = Len(all) - p
      /\ \A i \in 1 .. Len(all) - p : sealed'[i] = all[i + p]
  <2>1. \A i \in 1 + p .. Len(all) : all[i] \in Segment
    BY <1>4, <1>5
  <2> QED BY <1>0, <1>4, <1>5, <2>1, SubSeqProperties
<1>8. TypeOK'
  <2>1. NoOld \in [body : Seq(Frame), synced : Nat]
    BY DEF NoOld
  <2> HIDE DEF seg, stmp
  <2> QED BY <1>0, <1>1, <1>2, <1>6, <1>7, <2>1 DEF TypeOK
<1>9. GroupsOK'
  BY <1>0 DEF IInv, GroupsOK, Faults
<1>10. ASSUME Honest' PROVE Clean'
  <2>1. Clean
    BY <1>0, <1>10, HonestBefore DEF IInv
  <2>2. job \in Rolls /\ ~dirty /\ mark = NoMark /\ groups = 0 /\ old = NoOld
    BY <1>0, <2>1 DEF Clean, CallOK, Rolls, ActiveOK, OldOK
  <2>3. /\ AllOk(body) /\ synced = Len(body) /\ head = phead /\ head.durable <= origin + Len(body)
        /\ carry <= Len(body)
    BY <1>0, <2>1, <2>2 DEF Clean, ActiveOK, StampsOK
  <2>4. CallOK'
    <3>1. covered <= len
      BY <1>1, <2>1, <2>3 DEF TypeOK, Clean, CallOK, len
    <3>2. covered' <= origin' + carry'
      BY <1>0, <1>1, <1>2, <3>1 DEF TypeOK
    <3> QED BY <1>0, <2>2, <3>2 DEF CallOK, Rolls
  <2>5. SealedOK'
    <3> SUFFICES ASSUME NEW i \in 1 .. Len(sealed')
                 PROVE  /\ AllOk(sealed'[i].body) /\ sealed'[i].synced = Len(sealed'[i].body)
                        /\ sealed'[i].head = sealed'[i].phead
                        /\ sealed'[i].head.durable <= sealed'[i].origin + Len(sealed'[i].body)
                        /\ sealed'[i].origin + Len(sealed'[i].body) = Successor(i)'
      BY DEF SealedOK
    <3>1. i + p \in 1 .. Len(all) /\ sealed'[i] = all[i + p]
      BY <1>4, <1>5, <1>7
    <3>2. CASE i + p <= Len(sealed)
      <4>1. i + p \in 1 .. Len(sealed) /\ sealed'[i] = sealed[i + p]
        BY <1>4, <3>1, <3>2
      <4>2. /\ AllOk(sealed[i + p].body) /\ sealed[i + p].synced = Len(sealed[i + p].body)
            /\ sealed[i + p].head = sealed[i + p].phead
            /\ sealed[i + p].head.durable <= sealed[i + p].origin + Len(sealed[i + p].body)
            /\ sealed[i + p].origin + Len(sealed[i + p].body) = Successor(i + p)
        BY <2>1, <4>1 DEF Clean, SealedOK
      <4>3. Successor(i)' = Successor(i + p)
        <5>1. i # Len(sealed') /\ i + 1 \in 1 .. Len(all) - p /\ i + 1 + p = (i + p) + 1
          BY <1>4, <1>5, <1>7, <3>2
        <5>2. Successor(i)' = all[(i + p) + 1].origin
          BY <1>7, <5>1 DEF Successor
        <5>3. CASE i + p = Len(sealed)
          <6>1. all[(i + p) + 1] = seg
            BY <1>4, <5>3
          <6> QED BY <5>2, <5>3, <6>1 DEF Successor
        <5>4. CASE i + p # Len(sealed)
          <6>1. (i + p) + 1 \in 1 .. Len(sealed)
            BY <1>4, <1>5, <3>2, <5>4
          <6> QED BY <1>4, <5>2, <5>4, <6>1 DEF Successor
        <5> QED BY <5>3, <5>4
      <4> QED BY <4>1, <4>2, <4>3
    <3>3. CASE i + p = Len(sealed) + 1
      <4>1. sealed'[i] = seg /\ i = Len(sealed')
        BY <1>4, <1>5, <1>7, <3>1, <3>3
      <4>2. Successor(i)' = len
        BY <1>0, <4>1 DEF Successor
      <4> QED BY <2>3, <4>1, <4>2 DEF len
    <3> QED BY <1>4, <1>5, <3>1, <3>2, <3>3
  <2>6. ActiveOK'
    <3>1. AllOk(body')
      <4> SUFFICES ASSUME NEW k \in 1 .. Len(kept) PROVE kept[k].st = "ok"
        BY <1>0 DEF AllOk
      <4>1. PICK i \in 1 .. Len(body) : kept[k] = body[i]
        BY <1>2
      <4> QED BY <2>3, <4>1 DEF AllOk
    <3>2. carry' <= synced' /\ synced' <= Len(body') /\ synced' = Len(body')
      BY <1>0, <1>2
    <3>3. OldOK'
      BY <1>0 DEF OldOK
    <3>4. /\ head' = phead' /\ head'.acked <= origin' + synced' /\ phead'.acked <= origin' + synced'
          /\ phead'.durable <= origin' + synced'
      BY <1>0, <1>1, <1>2
    <3>5. StampsOK'
      BY <1>0, <2>2, <3>4 DEF StampsOK
    <3> QED BY <3>1, <3>2, <3>3, <3>5 DEF ActiveOK
  <2>7. DownOK'
    BY <1>0 DEF DownOK
  <2> QED BY <2>4, <2>5, <2>6, <2>7 DEF Clean
<1> QED BY <1>8, <1>9, <1>10 DEF IInv

-----------------------------------------------------------------------------
(* Crashes, damage and recovery.                                            *)

\* kill -9 keeps the page cache, so every segment is as it was.
LEMMA KillStep ==
  ASSUME IInv, Kill
  PROVE  IInv'
<1> USE DEF Kill, GoDown, segVars
<1>0. TypeOK
  BY DEF IInv
<1>1. TypeOK'
  BY <1>0 DEF TypeOK
<1>2. GroupsOK'
  BY DEF GroupsOK
<1>3. ASSUME Honest' PROVE Clean'
  <2>1. Clean
    BY <1>3, HonestBefore DEF IInv
  <2>2. CallOK'
    BY <2>1 DEF Clean, CallOK, Rolls
  <2>3. SealedOK'
    BY <2>1 DEF Clean, SealedOK, Successor
  <2>4. ActiveOK'
    BY DEF ActiveOK
  <2>5. DownOK'
    <3>1. /\ AllOk(body) /\ carry <= synced /\ synced <= Len(body)
          /\ head.acked <= origin + synced
      BY <2>1 DEF Clean, ActiveOK, StampsOK
    <3>2. TornAt(body, Len(body))
      BY <3>1 DEF AllOk, TornAt
    <3>3. carry <= Len(body) /\ head.acked <= origin + Len(body) /\ Len(body) \in 0 .. Len(body)
      BY <1>0, <3>1 DEF TypeOK, Stamps
    <3>4. CrashedAt(Len(body))'
      BY <1>0, <3>2, <3>3 DEF CrashedAt, TornAt
    <3>5. Len(body)' \in (0 .. Len(body))'
      BY <3>3
    <3> QED BY <3>4, <3>5 DEF DownOK
  <2> QED BY <2>2, <2>3, <2>4, <2>5 DEF Clean
<1> QED BY <1>1, <1>2, <1>3 DEF IInv

\* A power loss leaves segments.
LEMMA SealedSurvivorsType ==
  ASSUME NEW s \in Segment, NEW g \in SealedSurvivors(s)
  PROVE  g \in Segment
<1>1. PICK b \in Survivors(s.body, s.synced), h \in {s.head, s.phead} : g = Left(s, b, h)
  BY DEF SealedSurvivors
<1>2. s.body \in Seq(Frame) /\ s.synced \in Nat /\ h \in Stamps
  BY DEF Segment
<1>3. b \in Seq(Frame)
  BY <1>2, SurvivorsType
<1>4. Len(b) \in Nat
  BY <1>3
<1> QED BY <1>1, <1>2, <1>3, <1>4 DEF Segment, Left

\* What a power loss leaves of an honest log is torn at or above what the
\* platter held, and the sealed segments are untouched.
LEMMA PowerLossStep ==
  ASSUME IInv, PowerLoss
  PROVE  IInv'
<1>0. TypeOK
  BY DEF IInv
<1>1. /\ mode = "up" /\ mode' = "down" /\ job' = "none" /\ pc' = "none" /\ groups' = 0
      /\ mark' = NoMark /\ dirty' = FALSE
      /\ synced' = Len(body') /\ old' = NoOld
      /\ head' \in {head, phead} /\ phead' = head'
      /\ UNCHANGED <<covered, nextRec, rotten, adopted, regime, origin, carry>>
  BY DEF PowerLoss, GoDown
<1>2. PICK src \in {[body |-> body, synced |-> synced]} \cup (IF old # NoOld THEN {old} ELSE {}) :
        body' \in Survivors(src.body, src.synced)
  BY DEF PowerLoss
<1>3. src.body \in Seq(Frame) /\ src.synced \in Nat
  <2>1. CASE src = [body |-> body, synced |-> synced]
    BY <1>0, <2>1 DEF TypeOK
  <2>2. CASE src = old
    BY <1>0, <2>2 DEF TypeOK
  <2> QED BY <1>2, <2>1, <2>2
<1>4. body' \in Seq(Frame) /\ Len(body') \in Nat
  <2>1. body' \in Seq(Frame)
    BY <1>2, <1>3, SurvivorsType
  <2> QED BY <2>1
<1>5. /\ DOMAIN sealed' = DOMAIN sealed
      /\ sealed' = [i \in DOMAIN sealed |-> sealed'[i]]
      /\ \A i \in DOMAIN sealed :
           \/ i \in Unsettled /\ sealed'[i] \in SealedSurvivors(sealed[i])
           \/ sealed'[i] = sealed[i]
  BY DEF PowerLoss
<1>6. sealed' \in Seq(Segment)
  <2>1. DOMAIN sealed = 1 .. Len(sealed) /\ Len(sealed) \in Nat
        /\ \A i \in DOMAIN sealed : sealed[i] \in Segment
    BY <1>0 DEF TypeOK
  <2>2. \A i \in DOMAIN sealed : sealed'[i] \in Segment
    BY <1>5, <2>1, SealedSurvivorsType
  <2> QED BY <1>5, <2>1, <2>2
<1>7. TypeOK'
  <2>1. NoOld \in [body : Seq(Frame), synced : Nat]
    BY DEF NoOld
  <2> QED BY <1>0, <1>1, <1>4, <1>6, <2>1 DEF TypeOK
<1>8. GroupsOK'
  BY <1>1 DEF GroupsOK
<1>9. ASSUME Honest' PROVE Clean'
  <2>1. Clean /\ Honest /\ "holes" \notin Faults
    BY <1>1, <1>9, HonestBefore DEF IInv, Honest
  <2>2. CallOK'
    BY <1>1, <2>1 DEF Clean, CallOK, Rolls
  <2>3. sealed' = sealed
    <3>1. Unsettled = {}
      <4>1. \A i \in DOMAIN sealed : /\ sealed[i].synced = Len(sealed[i].body)
                                     /\ Len(sealed[i].body) \in Nat
                                     /\ sealed[i].head = sealed[i].phead
        <5>1. \A i \in DOMAIN sealed : sealed[i] \in Segment
          BY <1>0 DEF TypeOK
        <5>2. \A i \in DOMAIN sealed : i \in 1 .. Len(sealed)
          BY <1>0 DEF TypeOK
        <5> QED BY <2>1, <5>1, <5>2 DEF Clean, SealedOK, Segment
      <4> QED BY <4>1 DEF Unsettled
    <3>2. sealed = [i \in DOMAIN sealed |-> sealed[i]]
      BY <1>0 DEF TypeOK
    <3> QED BY <1>5, <3>1, <3>2
  <2>4. SealedOK'
    BY <1>1, <2>1, <2>3 DEF Clean, SealedOK, Successor
  <2>5. ActiveOK'
    BY <1>1 DEF ActiveOK
  <2>6. DownOK'
    <3>1. /\ AllOk(body) /\ carry <= synced /\ synced <= Len(body) /\ OldOK
          /\ head.acked <= origin + synced /\ phead.acked <= origin + synced
      BY <1>1, <2>1 DEF Clean, ActiveOK, StampsOK
    <3>2. \E m \in 0 .. Len(body') : synced <= m /\ TornAt(body', m)
      <4>1. CASE src = [body |-> body, synced |-> synced]
        <5>1. src.body = body /\ src.synced = synced /\ synced \in 0 .. Len(body)
          BY <1>0, <3>1, <4>1 DEF TypeOK
        <5>2. body' \in Survivors(body, synced) /\ body \in Seq(Frame)
          BY <1>0, <1>2, <5>1 DEF TypeOK
        <5> QED BY <2>1, <3>1, <5>1, <5>2, SurvivorsTorn
      <4>2. CASE src = old /\ old # NoOld
        <5>1. /\ synced <= old.synced /\ old.synced <= Len(old.body)
              /\ AllOk(old.body) \/ (old.synced = Len(old.body) /\ TornAt(old.body, synced))
          BY <3>1, <4>2 DEF OldOK
        <5>2. old.body \in Seq(Frame) /\ old.synced \in 0 .. Len(old.body) /\ synced \in Nat
          BY <1>0, <5>1 DEF TypeOK
        <5>3. CASE AllOk(old.body)
          <6>1. PICK m \in 0 .. Len(body') : old.synced <= m /\ TornAt(body', m)
            BY <1>2, <2>1, <4>2, <5>2, <5>3, SurvivorsTorn
          <6>2. synced <= m
            BY <1>4, <5>1, <5>2, <6>1
          <6> QED BY <6>1, <6>2
        <5>4. CASE old.synced = Len(old.body) /\ TornAt(old.body, synced)
          <6>1. body' = old.body
            BY <1>2, <4>2, <5>2, <5>4, SurvivorsWhole
          <6>2. synced \in 0 .. Len(body')
            BY <5>1, <5>2, <6>1
          <6> QED BY <5>2, <5>4, <6>1, <6>2
        <5> QED BY <5>1, <5>3, <5>4
      <4> QED BY <1>2, <4>1, <4>2
    <3>3. PICK m \in 0 .. Len(body') : synced <= m /\ TornAt(body', m)
      BY <3>2
    <3>4. carry <= m /\ head.acked <= origin + m /\ phead.acked <= origin + m
      <4>1. m \in Nat /\ synced <= m
        BY <3>3, <1>4
      <4> QED BY <1>0, <3>1, <4>1 DEF TypeOK, Stamps
    <3>5. carry' <= m /\ head'.acked <= origin' + m
      BY <1>1, <3>4
    <3>6. \E x \in 0 .. Len(body') : /\ TornAt(body', x)
                                     /\ carry' <= x /\ head'.acked <= origin' + x
                                     /\ x < Len(body') => synced' = Len(body') /\ head' = phead'
      BY <1>1, <3>3, <3>5
    <3> QED BY <3>6 DEF DownOK, CrashedAt, TornAt
  <2> QED BY <2>2, <2>4, <2>5, <2>6 DEF Clean
<1> QED BY <1>7, <1>8, <1>9 DEF IInv

\* Damage at rest is outside the honest disk.
LEMMA RotStep ==
  ASSUME IInv, Rot
  PROVE  IInv'
<1>0. TypeOK
  BY DEF IInv
<1>1. ASSUME NEW b \in Seq(Frame), NEW i \in DOMAIN b, NEW c \in i .. Len(b) + 1
      PROVE  Damaged(b, i, c) \in Seq(Frame)
  <2>1. b[i] \in Frame /\ c \in Nat /\ i \in 1 .. Len(b)
    OBVIOUS
  <2>2. [b[i] EXCEPT !.st = "bad", !.claim = c] \in Frame
    BY <2>1 DEF Frame
  <2>3. Damaged(b, i, c) = [b EXCEPT ![i] = [b[i] EXCEPT !.st = "bad", !.claim = c]]
    BY DEF Damaged
  <2> QED BY <2>1, <2>2, <2>3
<1>2. /\ rotten' = TRUE
      /\ UNCHANGED <<origin, carry, old, synced, head, phead, dirty, groups, mark, covered,
                     nextRec, mode, regime>>
  BY DEF Rot, callVars, tabVars
<1>3. body' \in Seq(Frame) /\ sealed' \in Seq(Segment)
  <2>1. CASE /\ \E i \in DOMAIN body : \E c \in i .. Len(body) + 1 : body' = Damaged(body, i, c)
             /\ UNCHANGED sealed
    BY <1>0, <1>1, <2>1 DEF TypeOK
  <2>2. CASE /\ \E k \in DOMAIN sealed : \E i \in DOMAIN sealed[k].body :
                  \E c \in i .. Len(sealed[k].body) + 1 :
                    sealed' = [sealed EXCEPT ![k].body = Damaged(@, i, c)]
             /\ UNCHANGED body
    <3>1. PICK k \in DOMAIN sealed : \E i \in DOMAIN sealed[k].body :
                 \E c \in i .. Len(sealed[k].body) + 1 :
                   sealed' = [sealed EXCEPT ![k].body = Damaged(@, i, c)]
      BY <2>2
    <3>2. PICK i \in DOMAIN sealed[k].body : \E c \in i .. Len(sealed[k].body) + 1 :
                   sealed' = [sealed EXCEPT ![k].body = Damaged(@, i, c)]
      BY <3>1
    <3>3. PICK c \in i .. Len(sealed[k].body) + 1 :
                   sealed' = [sealed EXCEPT ![k].body = Damaged(@, i, c)]
      BY <3>2
    <3>4. sealed \in Seq(Segment) /\ k \in 1 .. Len(sealed)
      BY <1>0 DEF TypeOK
    <3>5. sealed[k] \in Segment
      BY <3>4
    <3>6. sealed[k].body \in Seq(Frame)
      BY <3>5 DEF Segment
    <3> DEFINE u == [sealed[k] EXCEPT !.body = Damaged(sealed[k].body, i, c)]
    <3>7. u \in Segment
      <4>1. Damaged(sealed[k].body, i, c) \in Seq(Frame)
        BY <1>1, <3>6
      <4> QED BY <3>5, <4>1 DEF Segment
    <3>8. sealed' = [sealed EXCEPT ![k] = u]
      BY <3>3
    <3> HIDE DEF u
    <3>9. sealed' \in Seq(Segment)
      BY <3>4, <3>7, <3>8
    <3> QED BY <1>0, <2>2, <3>9 DEF TypeOK
  <2>3. CASE /\ \E i \in DOMAIN body :
                  /\ origin + i <= head.acked
                  /\ body' = [j \in DOMAIN body |->
                                IF j < i THEN body[j] ELSE [body[j] EXCEPT !.st = "lost"]]
             /\ UNCHANGED sealed
    <3>1. PICK i \in DOMAIN body : body' = [j \in DOMAIN body |->
                                IF j < i THEN body[j] ELSE [body[j] EXCEPT !.st = "lost"]]
      BY <2>3
    <3>2. DOMAIN body = 1 .. Len(body) /\ Len(body) \in Nat
          /\ \A j \in DOMAIN body : body[j] \in Frame
      BY <1>0 DEF TypeOK
    <3>3. \A j \in DOMAIN body : [body[j] EXCEPT !.st = "lost"] \in Frame
      BY <3>2 DEF Frame
    <3>4. body' \in Seq(Frame)
      BY <3>1, <3>2, <3>3
    <3> QED BY <1>0, <2>3, <3>4 DEF TypeOK
  <2> QED BY <2>1, <2>2, <2>3 DEF Rot
<1>4. TypeOK'
  BY <1>0, <1>2, <1>3 DEF TypeOK
<1>5. GroupsOK'
  BY <1>2 DEF IInv, GroupsOK, Faults
<1>6. ~Honest'
  BY <1>2 DEF Honest
<1> QED BY <1>4, <1>5, <1>6 DEF IInv

\* A log that is down after honest crashes is accepted: replay and open both
\* take the tear for what it is.
LEMMA CrashedIsAccepted ==
  ASSUME TypeOK, Clean, mode = "down", NEW m \in 0 .. Len(body), CrashedAt(m)
  PROVE  ReplayOk /\ WalkOk(origin, body, head, FALSE, 0) /\ Walked(body, 0) = m
<1>0. /\ body \in Seq(Frame) /\ Len(body) \in Nat /\ origin \in Nat /\ carry \in Nat
      /\ covered \in Nat /\ head \in Stamps /\ m \in Nat /\ m <= Len(body)
  BY DEF TypeOK
<1>1. TornAt(body, m) /\ carry <= m /\ head.acked <= origin + m
  BY DEF CrashedAt
<1>2. covered <= origin + carry
  BY DEF Clean, CallOK
<1>3. StartIn(origin, body, covered) \in Nat /\ StartIn(origin, body, covered) <= m
  BY <1>0, <1>1, <1>2 DEF StartIn, Least, Greatest
<1>4. WalkOk(origin, body, head, FALSE, StartIn(origin, body, covered))
  BY <1>0, <1>1, <1>3, TornWalkOk
<1>5. WalkOk(origin, body, head, FALSE, 0) /\ Walked(body, 0) = m
  <2>1. 0 \in Nat /\ 0 <= m
    BY <1>0
  <2>2. WalkOk(origin, body, head, FALSE, 0)
    BY <1>0, <1>1, <2>1, TornWalkOk
  <2>3. Walked(body, 0) = m
    BY <1>0, <1>1, <2>1, TornWalk
  <2> QED BY <2>2, <2>3, Zenon
<1>6. covered <= len
  BY <1>0, <1>1, <1>2 DEF len
<1>7. ASSUME NEW i \in Replayable
      PROVE  /\ sealed[i].origin + Len(sealed[i].body) = Successor(i)
             /\ WalkOk(sealed[i].origin, sealed[i].body, sealed[i].head, TRUE,
                       StartIn(sealed[i].origin, sealed[i].body, covered))
  <2>1. i \in 1 .. Len(sealed) /\ sealed[i] \in Segment
    BY DEF Replayable, TypeOK
  <2>2. /\ sealed[i].body \in Seq(Frame) /\ sealed[i].origin \in Nat /\ sealed[i].head \in Stamps
    BY <2>1 DEF Segment
  <2>3. /\ AllOk(sealed[i].body)
        /\ sealed[i].head.durable <= sealed[i].origin + Len(sealed[i].body)
        /\ sealed[i].origin + Len(sealed[i].body) = Successor(i)
    BY <2>1 DEF Clean, SealedOK
  <2> QED BY <2>2, <2>3, SealedWalkOk
<1>8. ReplayOk
  BY <1>4, <1>6, <1>7, Zenon DEF ReplayOk
<1> QED BY <1>5, <1>8

\* Recovery brings an honest log up, truncated at its tear.
LEMMA RecoverStep ==
  ASSUME IInv, Recover
  PROVE  IInv'
<1>0. /\ TypeOK /\ mode = "down"
      /\ UNCHANGED <<sealed, origin, carry, head, phead, groups, mark, covered, nextRec,
                     rotten, regime>>
  BY DEF IInv, Recover, segVars, callVars
<1>1. GroupsOK'
  BY <1>0 DEF IInv, GroupsOK, Faults
<1>2. Honest' => Honest
  <2>1. \/ adopted' = adopted
        \/ adopted' = (adopted \/ ~Settled)
    BY DEF Recover
  <2>2. ~adopted' => ~adopted
    BY <2>1, Zenon
  <2> QED BY <1>0, <2>2 DEF Honest, Faults
<1>3. CASE /\ ~(ReplayOk /\ WalkOk(origin, body, head, FALSE, 0))
           /\ mode' = "refused" /\ UNCHANGED <<segVars, callVars, mem, adopted>>
  <2>1. TypeOK'
    BY <1>0, <1>3 DEF TypeOK, segVars, callVars
  <2>2. ASSUME Honest PROVE FALSE
    <3>1. Clean
      BY <2>2 DEF IInv
    <3>2. PICK m \in 0 .. Len(body) : CrashedAt(m)
      BY <1>0, <3>1 DEF Clean, DownOK
    <3> QED BY <1>0, <1>3, <3>1, <3>2, CrashedIsAccepted
  <2> QED BY <1>1, <1>2, <2>1, <2>2 DEF IInv
<1>4. CASE ReplayOk /\ WalkOk(origin, body, head, FALSE, 0) /\ mode' = "up"
  <2> DEFINE good == Walked(body, 0)
  <2>1. /\ body' = SubSeq(body, 1, good)
        /\ dirty' \in BOOLEAN
        /\ \/ /\ good < Len(body)
              /\ old' = [body |-> body, synced |-> synced]
              /\ synced' = Least(synced, good)
              /\ job' = "open" /\ pc' = "stamp" /\ adopted' = adopted
           \/ /\ good = Len(body)
              /\ adopted' = (adopted \/ ~Settled)
              /\ UNCHANGED <<old, synced, job, pc>>
    BY <1>4 DEF Recover
  <2>2. good \in 0 .. Len(body)
    <3> DEFINE bad == {i \in DOMAIN body : i > 0 /\ body[i].st # "ok"}
               least == CHOOSE i \in bad : \A j \in bad : i <= j
    <3>0. bad \subseteq 1 .. Len(body) /\ Len(body) \in Nat
      BY <1>0 DEF TypeOK
    <3>1. FirstBad(body, 0) = IF bad = {} THEN Len(body) + 1 ELSE least
      BY DEF FirstBad
    <3>2. CASE bad = {}
      BY <3>0, <3>1, <3>2 DEF Walked
    <3>3. CASE bad # {}
      <4>1. bad \subseteq Nat
        BY <3>0
      <4>2. \E x \in bad : \A y \in bad : x <= y
        <5> HIDE DEF bad
        <5> QED BY <3>3, <4>1, LeastElement
      <4>3. least \in bad
        BY <4>2
      <4>4. least \in 1 .. Len(body)
        BY <3>0, <4>3
      <4> HIDE DEF bad, least
      <4> QED BY <3>0, <3>1, <3>3, <4>4 DEF Walked
    <3> QED BY <3>2, <3>3
  <2> HIDE DEF good
  <2>3. /\ body' \in Seq(Frame) /\ Len(body') = good
        /\ \A i \in 1 .. good : body'[i] = body[i]
    BY <1>0, <2>1, <2>2, PrefixFacts DEF TypeOK
  <2>4. synced' \in Nat /\ old' \in [body : Seq(Frame), synced : Nat]
    BY <1>0, <2>1, <2>2 DEF TypeOK, Least
  <2>5. TypeOK'
    BY <1>0, <1>4, <2>1, <2>3, <2>4 DEF TypeOK
  <2>6. ASSUME Honest' PROVE Clean'
    <3>1. Clean
      BY <1>2, <2>6 DEF IInv
    <3>2. PICK m \in 0 .. Len(body) : CrashedAt(m)
      BY <1>0, <3>1 DEF Clean, DownOK
    <3>3. good = m
      BY <1>0, <3>1, <3>2, CrashedIsAccepted DEF good
    <3>4. /\ TornAt(body, m) /\ carry <= m /\ head.acked <= origin + m
          /\ m < Len(body) => synced = Len(body) /\ head = phead
      BY <3>2 DEF CrashedAt
    <3>5. job = "none" /\ pc = "none" /\ mark = NoMark /\ groups = 0 /\ covered <= origin + carry
      BY <1>0, <3>1 DEF Clean, CallOK, Rolls
    <3>6. CallOK'
      BY <1>0, <1>4, <2>1, <3>5 DEF CallOK, Rolls
    <3>7. SealedOK'
      BY <1>0, <3>1 DEF Clean, SealedOK, Successor
    <3>8. AllOk(body')
      BY <2>3, <3>3, <3>4 DEF TornAt, AllOk
    <3>9. ASSUME good < Len(body) PROVE ActiveOK'
      <4>1. /\ old' = [body |-> body, synced |-> synced] /\ synced = Len(body) /\ head = phead
            /\ synced' = m /\ job' = "open" /\ pc' = "stamp"
        BY <1>0, <2>1, <3>3, <3>4, <3>9 DEF Least, TypeOK
      <4>2. old' # NoOld
        <5>1. old'.body = body /\ body # << >>
          BY <1>0, <2>2, <3>9, <4>1 DEF TypeOK
        <5> QED BY <5>1 DEF NoOld
      <4>3. OldOK'
        <5>1. /\ old'.body = body /\ old'.synced = Len(body) /\ synced' <= Len(body)
              /\ Len(body) <= Len(body) /\ TornAt(body, synced')
          BY <1>0, <3>2, <3>4, <4>1 DEF TypeOK
        <5> QED BY <4>1, <5>1 DEF OldOK
      <4>4. StampsOK'
        BY <1>0, <3>4, <3>5, <4>1, <4>2 DEF StampsOK
      <4>5. carry' <= synced' /\ synced' <= Len(body')
        BY <1>0, <2>2, <2>3, <3>3, <3>4, <4>1
      <4> QED BY <3>8, <4>1, <4>3, <4>4, <4>5 DEF ActiveOK
    <3>10. ASSUME good = Len(body) PROVE ActiveOK'
      <4>1. Settled /\ UNCHANGED <<old, synced, job, pc>>
        <5>1. ~(good < Len(body))
          BY <1>0, <3>10 DEF TypeOK
        <5>2. adopted' = (adopted \/ ~Settled) /\ UNCHANGED <<old, synced, job, pc>>
          BY <2>1, <5>1, Zenon
        <5>3. ~adopted'
          BY <2>6 DEF Honest
        <5> QED BY <5>2, <5>3, Zenon
      <4>2. /\ synced' = Len(body) /\ old' = NoOld /\ head = phead /\ head.durable <= origin + Len(body)
        BY <4>1 DEF Settled, len
      <4>3. OldOK'
        BY <4>2 DEF OldOK
      <4>4. StampsOK'
        BY <1>0, <3>3, <3>4, <3>5, <3>10, <4>1, <4>2 DEF StampsOK
      <4>5. carry' <= synced' /\ synced' <= Len(body') /\ synced' = Len(body')
        BY <1>0, <2>2, <2>3, <3>3, <3>4, <3>10, <4>2
      <4> QED BY <3>8, <4>3, <4>4, <4>5 DEF ActiveOK
    <3>11. DownOK'
      BY <1>4 DEF DownOK
    <3>12. good < Len(body) \/ good = Len(body)
      BY <2>1
    <3> QED BY <3>6, <3>7, <3>9, <3>10, <3>11, <3>12 DEF Clean
  <2> QED BY <1>1, <2>5, <2>6 DEF IInv
<1> QED BY <1>3, <1>4 DEF Recover

-----------------------------------------------------------------------------
(* The theorems.                                                            *)

\* What holds at the start.
LEMMA InitFacts ==
  ASSUME Init
  PROVE  IInv
<1> USE DEF Init
<1>1. TypeOK
  <2>1. NoOld \in [body : Seq(Frame), synced : Nat]
    BY DEF NoOld
  <2>2. head \in Stamps /\ phead \in Stamps
    BY DEF Stamps
  <2>3. \A S : << >> \in Seq(S)
    BY EmptySeq
  <2>4. sealed \in Seq(Segment) /\ body \in Seq(Frame)
    BY <2>3
  <2>5. dirty \in BOOLEAN
    BY Zenon
  <2> QED BY <2>1, <2>2, <2>4, <2>5 DEF TypeOK
<1>2. GroupsOK
  BY DEF GroupsOK
<1>3. CallOK /\ SealedOK
  BY DEF CallOK, SealedOK, Rolls
<1>4. ActiveOK
  BY DEF ActiveOK, AllOk, OldOK, StampsOK
<1>5. DownOK
  BY DEF DownOK
<1> QED BY <1>1, <1>2, <1>3, <1>4, <1>5 DEF IInv, Clean

\* A step that changes nothing.
LEMMA StutterStep ==
  ASSUME IInv, UNCHANGED vars
  PROVE  IInv'
<1> USE DEF vars, segVars, callVars, tabVars, histVars
<1>1. TypeOK' /\ GroupsOK'
  BY DEF IInv, TypeOK, GroupsOK, Faults
<1>2. ASSUME Honest' PROVE Clean'
  <2>1. Clean
    BY <1>2, HonestBefore DEF IInv
  <2>2. CallOK' /\ SealedOK'
    BY <2>1 DEF Clean, CallOK, SealedOK, Successor
  <2>3. ActiveOK'
    BY <2>1 DEF Clean, ActiveOK, OldOK, StampsOK, len
  <2>4. DownOK'
    BY <2>1 DEF Clean, DownOK, CrashedAt, TornAt
  <2> QED BY <2>2, <2>3, <2>4 DEF Clean
<1> QED BY <1>1, <1>2 DEF IInv

\* The state of a log stays typed, its groups accounted for and, on an honest
\* disk, its stamps below what the platter holds, through every call of wal.rs,
\* every crash and every recovery.
THEOREM InductiveInvariant == Spec => []IInv
<1>1. Init => IInv
  BY InitFacts
<1>2. IInv /\ [Next]_vars => IInv'
  <2> SUFFICES ASSUME IInv, [Next]_vars PROVE IInv'
    OBVIOUS
  <2>1. Data(nextRec) \in Frame /\ Data(nextRec).st = "ok"
        /\ Decide(nextRec) \in Frame /\ Decide(nextRec).st = "ok"
    BY NewFrames DEF IInv, TypeOK
  <2>2. CASE AppendPlain \/ Begin \/ AppendStaged \/ EndTxn \/ Rewind
    BY <2>2, AppendPlainStep, BeginStep, AppendStagedStep, EndTxnStep, RewindStep
  <2>3. CASE CloseGroup(Data(nextRec)) \/ CloseGroup(Decide(nextRec))
    BY <2>1, <2>3, CloseGroupStep
  <2>4. CASE ShortWrite \/ ShortWriteUnique
    BY <2>4, ShortWriteStep
  <2>5. CASE TickStep \/ StampStep \/ Barrier \/ BarrierFails
    BY <2>5, TickStepStep, StampStepStep, BarrierStep, BarrierFailsStep
  <2>6. CASE (\E cited \in BOOLEAN : BeginFold(cited)) \/ Publish \/ CommitTable
    BY <2>6, BeginFoldStep, PublishStep, CommitTableStep
  <2>7. CASE Kill \/ PowerLoss \/ Rot \/ Recover
    BY <2>7, KillStep, PowerLossStep, RotStep, RecoverStep
  <2>8. CASE UNCHANGED vars
    BY <2>8, StutterStep
  <2> QED BY <2>2, <2>3, <2>4, <2>5, <2>6, <2>7, <2>8 DEF Next
<1> QED BY <1>1, <1>2, PTL DEF Spec

\* A log with no transaction running can be folded, as long as no append failed:
\* every path out of a transaction (commit, abort, crash) closes its group.
THEOREM IdleIsFoldable == Spec => []FoldableWhenIdle
<1>1. IInv => FoldableWhenIdle
  BY DEF IInv, GroupsOK, FoldableWhenIdle
<1> QED BY <1>1, InductiveInvariant, PTL

\* An honest crash never quarantines a table: whatever calls, kills and power
\* losses came before, Wal::open and the replay accept what they left.
THEOREM HonestCrashesAccepted == Spec => []NoFalseAlarm
<1>1. IInv => NoFalseAlarm
  BY DEF IInv, Honest, Clean, CallOK, NoFalseAlarm
<1> QED BY <1>1, InductiveInvariant, PTL

-----------------------------------------------------------------------------
(* Nothing acknowledged is lost, on a disk that tears, loses and reorders   *)
(* unsynced writes and fails fsyncs, as long as nothing else damages a      *)
(* file.  A record of `owed` is in the parts, or in a frame on the platter  *)
(* behind the watermark of a segment that prune has kept.                   *)

\* The retention holds a segment for every crash to come, and all the bytes:
\* prune then unlinks only what TABLE covers already, except at a last roll
\* that nothing can part from its TABLE commit any more.
Retained == \A r \in Regimes : r.maxLen <= Budget /\ r.maxFaults <= MaxSegments

\* No append stops half-way and no file is damaged at rest.
Undamaged == Faults \cap {"short_write", "rot"} = {}

\* Frame j of b holds the record r.
IsAt(b, j, r) == b[j].kind # "tick" /\ b[j].st = "ok" /\ b[j].id = r

\* Record r is among the first k frames of the segment b at o, behind w.
InSeg(w, o, b, k, r) == \E j \in 1 .. Len(b) : j <= k /\ o + j > w /\ IsAt(b, j, r)

\* Where the successor of sealed segment i starts, the active one being at o.
NextOrigin(sl, o, i) == IF i = Len(sl) THEN o ELSE sl[i + 1].origin

\* Record r is on the platter in a sealed segment that a replay from w reads.
InSealed(w, sl, o, r) ==
  \E i \in 1 .. Len(sl) : /\ NextOrigin(sl, o, i) > w
                          /\ InSeg(w, sl[i].origin, sl[i].body, sl[i].synced, r)

\* Record r is in the parts, or where a replay finds it; of the active file
\* the first k frames count.
Safe(r, k) ==
  r \in parts \/ InSealed(covered, sealed, origin, r) \/ InSeg(covered, origin, body, k, r)

\* Sizes and places.
Sizes ==
  /\ regime \in Regimes /\ faults \in Nat
  /\ carry <= synced /\ synced <= Len(body)
  /\ covered <= origin + carry
  /\ origin + Len(body) <= MaxLen /\ origin + Len(old.body) <= MaxLen
  /\ \A i \in 1 .. Len(sealed) : /\ sealed[i].synced <= Len(sealed[i].body)
                                 /\ NextOrigin(sealed, origin, i) <= origin

\* A truncation not yet fsynced agrees with the file it came from.
Truncated ==
  old # NoOld => /\ synced <= old.synced /\ old.synced <= Len(old.body)
                 /\ \A i \in 1 .. synced : old.body[i] = body[i]

\* Where a call stands, as far as the watermark and the open records go.
Calls ==
  /\ pc \in {"publish", "table", "table_idle"} => job \in Rolls
  /\ pc = "table_idle" => Len(body) = carry
  /\ pend # {} => mode = "up" /\ (job = "sync" \/ (job = "none" /\ mark # NoMark))

\* What the running statement or transaction has logged is in the active file.
Logged == \A r \in pend : InSeg(covered, origin, body, Len(body), r)

\* All but the youngest sealed segments, one for each crash, are covered; the
\* segment a roll has just sealed is one more until TABLE is committed.
Covered ==
  \A i \in 1 .. Len(sealed) :
    i + faults + (IF pc = "table" THEN 1 ELSE 0) <= Len(sealed)
      => NextOrigin(sealed, origin, i) <= covered

\* The last roll, after which nothing can come before TABLE.
LastRoll == pc = "table" /\ faults >= MaxFaults

\* What was acknowledged is safe: in the frames on the platter while the log
\* runs, and in the whole frames a crash left while it is down.
Durable ==
  /\ mode = "up" =>
       /\ AllOk(body) /\ owed \subseteq mem
       /\ LastRoll \/ \A r \in owed : Safe(r, synced)
  /\ mode = "down" =>
       /\ pc # "table"
       /\ \E m \in 0 .. synced : /\ carry <= m /\ \A i \in 1 .. m : body[i].st = "ok"
                                 /\ \A r \in owed : Safe(r, m)

Lossless == Sizes /\ Truncated /\ Calls /\ Logged /\ Covered /\ Durable

\* The numbers of the state, for arithmetic.
LEMMA StateNumbers ==
  ASSUME TypeOK, Sizes
  PROVE  /\ origin \in Nat /\ carry \in Nat /\ synced \in Nat /\ covered \in Nat /\ faults \in Nat
         /\ body \in Seq(Frame) /\ Len(body) \in Nat /\ Len(sealed) \in Nat
         /\ old.body \in Seq(Frame) /\ old.synced \in Nat /\ Len(old.body) \in Nat
         /\ MaxLen \in Nat /\ MaxFaults \in Nat
         /\ carry <= synced /\ synced <= Len(body) /\ covered <= origin + carry
         /\ \A i \in 1 .. Len(sealed) :
              /\ sealed[i] \in Segment /\ sealed[i].origin \in Nat /\ sealed[i].synced \in Nat
              /\ sealed[i].body \in Seq(Frame) /\ NextOrigin(sealed, origin, i) \in Nat
<1>1. /\ origin \in Nat /\ carry \in Nat /\ synced \in Nat /\ covered \in Nat
      /\ body \in Seq(Frame) /\ Len(body) \in Nat /\ Len(sealed) \in Nat
      /\ old.body \in Seq(Frame) /\ old.synced \in Nat /\ Len(old.body) \in Nat
      /\ sealed \in Seq(Segment)
  BY DEF TypeOK
<1>2. /\ MaxLen \in Nat /\ MaxFaults \in Nat /\ faults \in Nat
      /\ carry <= synced /\ synced <= Len(body) /\ covered <= origin + carry
  BY WalAssumption DEF Sizes, MaxLen, MaxFaults
<1>3. \A i \in 1 .. Len(sealed) : sealed[i] \in Segment
  BY <1>1
<1>4. \A i \in 1 .. Len(sealed) : /\ sealed[i].origin \in Nat /\ sealed[i].synced \in Nat
                                  /\ sealed[i].body \in Seq(Frame)
  BY <1>3 DEF Segment
<1>5. \A i \in 1 .. Len(sealed) : NextOrigin(sealed, origin, i) \in Nat
  BY <1>1, <1>4 DEF NextOrigin
<1> QED BY <1>1, <1>2, <1>3, <1>4, <1>5

\* A record stays in a segment whose frames on the platter stay.
LEMMA InSegKept ==
  ASSUME NEW w, NEW o, NEW b, NEW c, NEW k, NEW m, NEW r, InSeg(w, o, b, k, r),
         \A j \in 1 .. Len(b) : j <= k /\ IsAt(b, j, r) => j \in 1 .. Len(c) /\ j <= m /\ c[j] = b[j]
  PROVE  InSeg(w, o, c, m, r)
<1>1. PICK j \in 1 .. Len(b) : j <= k /\ o + j > w /\ IsAt(b, j, r)
  BY DEF InSeg
<1>2. j \in 1 .. Len(c) /\ j <= m /\ IsAt(c, j, r)
  BY <1>1 DEF IsAt
<1> QED BY <1>1, <1>2 DEF InSeg

\* A record in the frames from a to q of b is read back from them.
LEMMA IdsOf ==
  ASSUME NEW b \in Seq(Frame), NEW a \in Nat, 1 <= a, NEW q \in Nat, q <= Len(b),
         NEW j \in 1 .. Len(b), a <= j, j <= q, NEW r, IsAt(b, j, r)
  PROVE  r \in Ids(SubSeq(b, a, q))
<1> DEFINE s == SubSeq(b, a, q)
           i == j - a + 1
<1>1. \A k \in a .. q : b[k] \in Frame
  OBVIOUS
<1>2. /\ s \in Seq(Frame) /\ Len(s) = q - a + 1
      /\ \A k \in 1 .. q - a + 1 : s[k] = b[a + k - 1]
  BY <1>1, SubSeqProperties
<1>3. i \in 1 .. q - a + 1 /\ a + i - 1 = j
  OBVIOUS
<1>4. i \in DOMAIN s /\ s[i] = b[j]
  BY <1>2, <1>3
<1> HIDE DEF s, i
<1>5. s[i].kind # "tick" /\ s[i].st = "ok" /\ s[i].id = r
  BY <1>4 DEF IsAt
<1>6. r \in Ids(s)
  BY <1>4, <1>5 DEF Ids
<1> QED BY <1>6 DEF s

\* A walk passes the whole frames and ends on one.
LEMMA WalkPast ==
  ASSUME NEW b \in Seq(Frame), NEW from \in Nat, NEW m \in Nat, m <= Len(b),
         \A i \in 1 .. m : b[i].st = "ok"
  PROVE  /\ Walked(b, from) \in Nat /\ m <= Walked(b, from) /\ Walked(b, from) <= Len(b)
         /\ \A i \in from + 1 .. Walked(b, from) : b[i].st = "ok"
<1> DEFINE bad == {i \in DOMAIN b : i > from /\ b[i].st # "ok"}
<1>1. CASE bad = {}
  <2>1. Walked(b, from) = Len(b)
    BY <1>1 DEF Walked, FirstBad
  <2>2. ASSUME NEW i \in from + 1 .. Len(b) PROVE b[i].st = "ok"
    BY <1>1
  <2> QED BY <2>1, <2>2
<1>2. CASE bad # {}
  <2>1. bad \subseteq Nat
    OBVIOUS
  <2>2. PICK x \in bad : \A y \in bad : x <= y
    <3> HIDE DEF bad
    <3> QED BY <1>2, <2>1, LeastElement
  <2>3. FirstBad(b, from) = CHOOSE i \in bad : \A j \in bad : i <= j
    BY <1>2 DEF FirstBad
  <2>4. FirstBad(b, from) \in bad /\ \A j \in bad : FirstBad(b, from) <= j
    <3> HIDE DEF bad
    <3> QED BY <2>2, <2>3
  <2>5. PICK z \in Nat : z = FirstBad(b, from)
    BY <2>1, <2>4
  <2>6. z \in 1 .. Len(b) /\ z > from /\ b[z].st # "ok" /\ \A j \in bad : z <= j
    BY <2>4, <2>5
  <2>7. Walked(b, from) = z - 1
    BY <2>5 DEF Walked
  <2>8. ~(z <= m)
    BY <2>6
  <2>9. ASSUME NEW i \in from + 1 .. z - 1 PROVE b[i].st = "ok"
    BY <2>6
  <2> QED BY <2>6, <2>7, <2>8, <2>9
<1> QED BY <1>1, <1>2

\* What is safe in the whole frames of the log is read back by a replay.
LEMMA SafeIsReplayed ==
  ASSUME TypeOK, Sizes, NEW m \in Nat, m <= Len(body), \A i \in 1 .. m : body[i].st = "ok",
         NEW r, Safe(r, m)
  PROVE  r \in parts \cup Replayed
<1>0. /\ origin \in Nat /\ covered \in Nat /\ body \in Seq(Frame) /\ Len(body) \in Nat
      /\ sealed \in Seq(Segment)
      /\ \A i \in 1 .. Len(sealed) :
           /\ sealed[i].origin \in Nat /\ sealed[i].synced \in Nat /\ sealed[i].body \in Seq(Frame)
           /\ sealed[i].synced <= Len(sealed[i].body)
  BY StateNumbers DEF Sizes, TypeOK
<1>1. ASSUME NEW o \in Nat, NEW b \in Seq(Frame), NEW j \in 1 .. Len(b), o + j > covered
      PROVE  /\ StartIn(o, b, covered) \in Nat /\ StartIn(o, b, covered) < j
  <2>1. Len(b) \in Nat
    OBVIOUS
  <2> QED BY <1>0, <1>1, <2>1 DEF StartIn, Least, Greatest
<1>2. CASE r \in parts
  BY <1>2
<1>3. CASE InSealed(covered, sealed, origin, r)
  <2>1. PICK i \in 1 .. Len(sealed) :
          /\ NextOrigin(sealed, origin, i) > covered
          /\ InSeg(covered, sealed[i].origin, sealed[i].body, sealed[i].synced, r)
    BY <1>3 DEF InSealed
  <2>2. PICK b \in Seq(Frame), o \in Nat : b = sealed[i].body /\ o = sealed[i].origin
    BY <1>0
  <2>3. PICK j \in 1 .. Len(b) : o + j > covered /\ IsAt(b, j, r)
    BY <2>1, <2>2 DEF InSeg
  <2>4. PICK st \in Nat : st = StartIn(o, b, covered) /\ st < j
    BY <1>1, <2>3
  <2>5. r \in Ids(SubSeq(b, 1 + st, Len(b)))
    <3>1. 1 + st \in Nat /\ 1 <= 1 + st /\ 1 + st <= j /\ Len(b) \in Nat /\ j <= Len(b)
      BY <2>4
    <3> QED BY <2>3, <3>1, IdsOf
  <2>6. i \in Replayable
    <3>1. i \in DOMAIN sealed /\ Successor(i) = NextOrigin(sealed, origin, i)
      BY <1>0 DEF Successor, NextOrigin
    <3> QED BY <2>1, <3>1 DEF Replayable
  <2> QED BY <2>2, <2>4, <2>5, <2>6 DEF Replayed
<1>4. CASE InSeg(covered, origin, body, m, r)
  <2>1. PICK j \in 1 .. Len(body) : j <= m /\ origin + j > covered /\ IsAt(body, j, r)
    BY <1>4 DEF InSeg
  <2>2. PICK st \in Nat : st = StartIn(origin, body, covered) /\ st < j
    BY <1>0, <1>1, <2>1
  <2>3. PICK q \in Nat : q = Walked(body, st) /\ m <= q /\ q <= Len(body)
    BY <1>0, WalkPast
  <2>4. r \in Ids(SubSeq(body, 1 + st, q))
    <3>1. 1 + st \in Nat /\ 1 <= 1 + st /\ 1 + st <= j /\ j <= q
      BY <2>1, <2>2, <2>3
    <3> QED BY <1>0, <2>1, <2>3, <3>1, IdsOf
  <2>5. r \in Ids(SubSeq(body, 1 + StartIn(origin, body, covered),
                         Walked(body, StartIn(origin, body, covered))))
    BY <2>2, <2>3, <2>4
  <2> QED BY <2>5, Zenon DEF Replayed
<1> QED BY <1>2, <1>3, <1>4 DEF Safe

\* A call that only extends the active file keeps what is safe.
LEMMA ExtendingStep ==
  ASSUME TypeOK, TypeOK', Lossless, mode = "up", mode' = "up",
         UNCHANGED <<sealed, origin, carry, old, synced, covered, parts, owed, mem, regime>>,
         Len(body) <= Len(body'), \A i \in 1 .. Len(body) : body'[i] = body[i], AllOk(body'),
         origin + Len(body') <= MaxLen, faults' \in {faults, faults + 1},
         pc # "table", pc' # "table", Calls', Logged'
  PROVE  Lossless'
<1>0. /\ origin \in Nat /\ carry \in Nat /\ synced \in Nat /\ faults \in Nat
      /\ Len(body) \in Nat /\ Len(sealed) \in Nat /\ synced <= Len(body) /\ carry <= synced
  BY StateNumbers DEF Lossless
<1>1. Len(body') \in Nat /\ faults' \in Nat /\ faults <= faults'
  BY <1>0 DEF TypeOK
<1>2. Sizes'
  BY <1>0, <1>1 DEF Lossless, Sizes, MaxLen
<1>3. Truncated'
  BY <1>0 DEF Lossless, Truncated
<1>4. Covered'
  BY <1>0, <1>1 DEF Lossless, Covered
<1>5. ASSUME NEW r \in owed PROVE Safe(r, synced)'
  <2>1. Safe(r, synced)
    BY DEF Lossless, Durable, LastRoll
  <2>2. ASSUME InSeg(covered, origin, body, synced, r) PROVE InSeg(covered, origin, body', synced, r)
    <3>1. \A j \in 1 .. Len(body) : j \in 1 .. Len(body') /\ body'[j] = body[j]
      BY <1>0, <1>1
    <3> QED BY <2>2, <3>1, InSegKept
  <2> QED BY <2>1, <2>2 DEF Safe
<1>6. Durable'
  BY <1>5 DEF Lossless, Durable
<1> QED BY <1>2, <1>3, <1>4, <1>6 DEF Lossless

\* A record appended to the active file is behind the watermark.
LEMMA AppendedIsLogged ==
  ASSUME TypeOK, Sizes, NEW f \in Frame, f.kind # "tick", f.st = "ok", body' = Append(body, f),
         UNCHANGED <<origin, covered>>
  PROVE  InSeg(covered', origin', body', Len(body'), f.id)
<1>0. /\ origin \in Nat /\ carry \in Nat /\ covered \in Nat /\ Len(body) \in Nat /\ body \in Seq(Frame)
      /\ covered <= origin + Len(body)
  BY StateNumbers
<1>1. Len(body') = Len(body) + 1 /\ body'[Len(body) + 1] = f
  BY <1>0
<1>2. PICK j \in Nat : j = Len(body) + 1
  BY <1>0
<1>3. j \in 1 .. Len(body') /\ j <= Len(body') /\ origin' + j > covered'
  BY <1>0, <1>1, <1>2
<1>4. IsAt(body', j, f.id)
  BY <1>1, <1>2 DEF IsAt
<1> QED BY <1>3, <1>4 DEF InSeg

\* ... and the records logged before it stay.
LEMMA LoggedStays ==
  ASSUME TypeOK, Lossless, NEW f \in Frame, body' \in {body, Append(body, f)},
         UNCHANGED <<origin, covered>>, NEW r \in pend
  PROVE  InSeg(covered', origin', body', Len(body'), r)
<1>0. body \in Seq(Frame) /\ Len(body) \in Nat
  BY DEF TypeOK
<1>1. Len(body') \in Nat /\ \A j \in 1 .. Len(body) : j \in 1 .. Len(body') /\ j <= Len(body') /\ body'[j] = body[j]
  <2>1. CASE body' = Append(body, f)
    <3>1. Len(body') = Len(body) + 1
      BY <1>0, <2>1
    <3>2. ASSUME NEW j \in 1 .. Len(body) PROVE body'[j] = body[j]
      BY <1>0, <2>1
    <3> QED BY <1>0, <3>1, <3>2
  <2> QED BY <1>0, <2>1
<1>2. InSeg(covered, origin, body, Len(body), r)
  BY DEF Lossless, Logged
<1>3. InSeg(covered, origin, body', Len(body'), r)
  BY <1>1, <1>2, InSegKept
<1> QED BY <1>3

\* A statement or a transaction appends a record, or opens or ends.
LEMMA LogCallSafe ==
  ASSUME TypeOK, TypeOK', Lossless,
         AppendPlain \/ Begin \/ AppendStaged \/ EndTxn
           \/ CloseGroup(Data(nextRec)) \/ CloseGroup(Decide(nextRec))
  PROVE  Lossless'
<1>0. /\ mode = "up" /\ job = "none" /\ mode' = "up" /\ pc # "table" /\ nextRec \in Nat
      /\ pc \notin {"publish", "table", "table_idle"}
  <2>1. mode = "up" /\ job = "none" /\ mode' = mode
    BY DEF AppendPlain, Begin, AppendStaged, EndTxn, CloseGroup, Idle
  <2>2. job \notin Rolls
    BY <2>1 DEF Rolls
  <2> QED BY <2>1, <2>2 DEF Lossless, Calls, TypeOK
<1>1. /\ body \in Seq(Frame) /\ Len(body) \in Nat /\ origin \in Nat /\ MaxLen \in Nat
      /\ AllOk(body) /\ origin + Len(body) <= MaxLen /\ faults \in Nat
  BY <1>0, StateNumbers DEF Lossless, Durable, Sizes
<1>2. ASSUME NEW f \in Frame, f.kind # "tick", f.st = "ok", f.id = nextRec, Push(f),
             pend' \subseteq pend \cup {nextRec}, pc' \in {pc, "tick"}, Calls',
             UNCHANGED <<sealed, origin, carry, old, synced, covered, parts, mem, owed, faults, regime>>
      PROVE  Lossless'
  <2>1. body' = Append(body, f) /\ len < MaxLen
    BY <1>2 DEF Push
  <2>2. Len(body') = Len(body) + 1 /\ AllOk(body')
    BY <1>1, <1>2, <2>1, AppendOk
  <2>3. \A i \in 1 .. Len(body) : body'[i] = body[i]
    BY <1>1, <2>1
  <2>4. origin + Len(body') <= MaxLen
    BY <1>1, <2>1, <2>2 DEF len
  <2>5. InSeg(covered', origin', body', Len(body'), nextRec)
    BY <1>2, <2>1, AppendedIsLogged DEF Lossless
  <2>6. \A r \in pend : InSeg(covered', origin', body', Len(body'), r)
    BY <1>2, <2>1, LoggedStays
  <2>7. Logged'
    BY <1>2, <2>5, <2>6 DEF Logged
  <2>8. pc' # "table"
    BY <1>0, <1>2
  <2>9. Len(body) <= Len(body')
    BY <1>1, <2>2
  <2> QED BY <1>0, <1>2, <2>2, <2>3, <2>4, <2>7, <2>8, <2>9, ExtendingStep
<1>3. ASSUME UNCHANGED <<body, sealed, origin, carry, old, synced, covered, parts, mem, owed, faults, regime, pc>>,
             Calls', pend' = {}
      PROVE  Lossless'
  <2>1. Logged'
    BY <1>3 DEF Logged
  <2>2. /\ Len(body) <= Len(body') /\ \A i \in 1 .. Len(body) : body'[i] = body[i]
        /\ AllOk(body') /\ origin + Len(body') <= MaxLen /\ pc' # "table"
    BY <1>0, <1>1, <1>3
  <2> QED BY <1>0, <1>3, <2>1, <2>2, ExtendingStep
<1>4. /\ Data(nextRec) \in Frame /\ Data(nextRec).st = "ok" /\ Data(nextRec).kind # "tick"
      /\ Data(nextRec).id = nextRec
      /\ Decide(nextRec) \in Frame /\ Decide(nextRec).st = "ok" /\ Decide(nextRec).kind # "tick"
      /\ Decide(nextRec).id = nextRec
  BY <1>0, NewFrames DEF Data, Decide
<1>5. CASE AppendPlain
  <2>1. Push(Data(nextRec)) /\ pend' = {nextRec} /\ pc' = "tick" /\ job' = "sync"
        /\ UNCHANGED <<sealed, origin, carry, old, synced, covered, parts, mem, owed, faults, regime>>
    BY <1>5 DEF AppendPlain
  <2>2. Calls'
    BY <1>0, <2>1 DEF Calls
  <2> QED BY <1>2, <1>4, <2>1, <2>2
<1>6. CASE AppendStaged
  <2>1. Push(Data(nextRec)) /\ pend' = pend \cup {nextRec} /\ mark # NoMark
        /\ UNCHANGED <<sealed, origin, carry, old, synced, covered, parts, mem, owed, faults, regime,
                       pc, job, mark>>
    BY <1>6 DEF AppendStaged
  <2>2. Calls'
    BY <1>0, <2>1 DEF Calls
  <2> QED BY <1>2, <1>4, <2>1, <2>2
<1>7. ASSUME NEW f \in {Data(nextRec), Decide(nextRec)}, CloseGroup(f) PROVE Lossless'
  <2>1. Push(f) /\ pend' = pend \cup {nextRec} /\ pc' = "tick" /\ job' = "sync"
        /\ UNCHANGED <<sealed, origin, carry, old, synced, covered, parts, mem, owed, faults, regime>>
    BY <1>7 DEF CloseGroup
  <2>2. Calls'
    BY <1>0, <2>1 DEF Calls
  <2>3. f \in Frame /\ f.kind # "tick" /\ f.st = "ok" /\ f.id = nextRec
    BY <1>4
  <2> QED BY <1>2, <2>1, <2>2, <2>3
<1>8. CASE Begin \/ EndTxn
  <2>1. UNCHANGED <<body, sealed, origin, carry, old, synced, covered, parts, mem, owed, faults, regime,
                    pc, job>> /\ pend' = {}
    BY <1>8 DEF Begin, EndTxn, segVars, tabVars, histVars
  <2>2. Calls'
    BY <1>0, <2>1 DEF Calls
  <2> QED BY <1>3, <2>1, <2>2
<1> QED BY <1>5, <1>6, <1>7, <1>8

\* The steps of a sync before its fsync returns, a fsync that fails, and the
\* start of a fold.
LEMMA SyncCallSafe ==
  ASSUME TypeOK, TypeOK', Lossless,
         TickStep \/ StampStep \/ BarrierFails \/ \E cited \in BOOLEAN : BeginFold(cited)
  PROVE  Lossless'
<1>0. /\ body \in Seq(Frame) /\ Len(body) \in Nat /\ origin \in Nat /\ MaxLen \in Nat
      /\ origin + Len(body) <= MaxLen /\ faults \in Nat
  BY StateNumbers DEF Lossless, Sizes
<1>1. CASE TickStep
  <2>1. /\ mode = "up" /\ mode' = "up" /\ pc = "tick" /\ pc' = "stamp" /\ Tick \in Frame /\ Tick.st = "ok"
        /\ UNCHANGED <<sealed, origin, carry, old, synced, covered, parts, owed, mem, regime, pend,
                       faults, job, mark>>
    BY <1>1, NewFrames DEF TickStep, tabVars, histVars
  <2>2. AllOk(body)
    BY <2>1 DEF Lossless, Durable
  <2>3. /\ body' \in {body, Append(body, Tick)} /\ (body' = body \/ len < MaxLen)
    BY <1>1 DEF TickStep
  <2>4. /\ Len(body) <= Len(body') /\ origin + Len(body') <= MaxLen /\ AllOk(body')
        /\ \A i \in 1 .. Len(body) : body'[i] = body[i]
    <3>1. CASE body' = body
      BY <1>0, <2>2, <3>1
    <3>2. CASE body' # body
      <4>1. body' = Append(body, Tick) /\ origin + Len(body) < MaxLen
        BY <2>3, <3>2 DEF len
      <4>2. Len(body') = Len(body) + 1 /\ AllOk(body')
        BY <1>0, <2>1, <2>2, <4>1, AppendOk
      <4>3. \A i \in 1 .. Len(body) : body'[i] = body[i]
        BY <1>0, <4>1
      <4> QED BY <1>0, <4>1, <4>2, <4>3
    <3> QED BY <3>1, <3>2
  <2>5. Logged'
    BY <2>1, <2>3, LoggedStays DEF Logged
  <2>6. Calls'
    BY <2>1 DEF Lossless, Calls
  <2> QED BY <2>1, <2>4, <2>5, <2>6, ExtendingStep
<1>2. ASSUME UNCHANGED <<body, sealed, origin, carry, old, synced, covered, parts, owed, mem, regime>>,
             mode = "up", mode' = "up", pc # "table", pc' # "table", faults' \in {faults, faults + 1},
             pend' \subseteq pend, Calls'
      PROVE  Lossless'
  <2>1. Logged'
    BY <1>2 DEF Lossless, Logged
  <2>2. /\ Len(body) <= Len(body') /\ \A i \in 1 .. Len(body) : body'[i] = body[i]
        /\ AllOk(body') /\ origin + Len(body') <= MaxLen
    BY <1>0, <1>2 DEF Lossless, Durable
  <2> QED BY <1>2, <2>1, <2>2, ExtendingStep
<1>3. CASE StampStep
  <2>1. UNCHANGED <<body, sealed, origin, carry, old, synced, covered, parts, owed, mem, regime, pend,
                    faults, job, mark>>
        /\ mode = "up" /\ mode' = "up" /\ pc = "stamp" /\ pc' = "barrier"
    BY <1>3 DEF StampStep, tabVars, histVars
  <2>2. Calls'
    BY <2>1 DEF Lossless, Calls
  <2> QED BY <1>2, <2>1, <2>2
<1>4. CASE BarrierFails
  <2>1. UNCHANGED <<body, sealed, origin, carry, old, synced, covered, parts, owed, mem, regime>>
        /\ mode = "up" /\ mode' = "up" /\ pc = "barrier" /\ pc' = "none" /\ pend' = {} /\ faults' = faults + 1
    BY <1>4 DEF BarrierFails, segVars
  <2>2. Calls'
    BY <2>1 DEF Calls
  <2> QED BY <1>2, <2>1, <2>2
<1>5. ASSUME NEW cited \in BOOLEAN, BeginFold(cited) PROVE Lossless'
  <2>1. UNCHANGED <<body, sealed, origin, carry, old, synced, covered, parts, owed, mem, regime, pend, faults>>
        /\ mode = "up" /\ mode' = "up" /\ job = "none" /\ mark = NoMark
    BY <1>5 DEF BeginFold, Idle, segVars, tabVars, histVars
  <2>2. job' \in Rolls /\ pc' \in {"table_idle", "tick", "publish"} /\ (pc' = "table_idle" => Len(body) = carry)
    BY <1>5 DEF BeginFold, Rolls, IsEmpty
  <2>3. job \notin Rolls
    BY <2>1 DEF Rolls
  <2>4. pend = {} /\ pc # "table"
    BY <2>1, <2>3 DEF Lossless, Calls
  <2>5. Calls'
    BY <2>1, <2>2, <2>4 DEF Calls
  <2> QED BY <1>2, <2>1, <2>2, <2>4, <2>5
<1> QED BY <1>1, <1>3, <1>4, <1>5

\* ROLLBACK truncates what the transaction wrote, and only takes back what
\* stands above its mark.
LEMMA RewindSafe ==
  ASSUME TypeOK, TypeOK', Lossless, Rewind
  PROVE  Lossless'
<1>0. /\ mode = "up" /\ mode' = "up" /\ job \in {"none", "abort"} /\ pend' = {}
      /\ UNCHANGED <<sealed, origin, carry, covered, parts, faults, regime>>
  BY DEF Rewind
<1>1. pc \notin {"publish", "table", "table_idle"}
  <2>1. job \notin Rolls
    BY <1>0 DEF Rolls
  <2> QED BY <2>1 DEF Lossless, Calls
<1>2. /\ body \in Seq(Frame) /\ Len(body) \in Nat /\ origin \in Nat /\ carry \in Nat /\ synced \in Nat
      /\ MaxLen \in Nat /\ faults \in Nat /\ Len(sealed) \in Nat
      /\ carry <= synced /\ synced <= Len(body) /\ AllOk(body) /\ origin + Len(body) <= MaxLen
  BY <1>0, StateNumbers DEF Lossless, Sizes, Durable
<1>3. Logged'
  BY <1>0 DEF Logged
<1>4. CASE mark >= len /\ job' = "none" /\ pc' = "none" /\ UNCHANGED <<body, old, synced, owed, mem>>
  <2>1. Calls'
    BY <1>0, <1>4 DEF Calls
  <2>2. /\ Len(body) <= Len(body') /\ \A i \in 1 .. Len(body) : body'[i] = body[i]
        /\ AllOk(body') /\ origin + Len(body') <= MaxLen
    BY <1>2, <1>4
  <2>3. /\ UNCHANGED <<sealed, origin, carry, old, synced, covered, parts, owed, mem, regime>>
        /\ faults' \in {faults, faults + 1} /\ pc # "table" /\ pc' # "table"
    BY <1>0, <1>1, <1>4
  <2> QED BY <1>0, <1>3, <2>1, <2>2, <2>3, ExtendingStep
<1>5. CASE ~(mark >= len /\ job' = "none" /\ pc' = "none" /\ UNCHANGED <<body, old, synced, owed, mem>>)
  <2>1. /\ mark < len /\ mark >= origin + carry
        /\ owed' = owed \ Ids(SubSeq(body, mark - origin + 1, Len(body)))
        /\ mem' = mem \ Ids(SubSeq(body, mark - origin + 1, Len(body)))
        /\ old' = [body |-> body, synced |-> synced]
        /\ body' = SubSeq(body, 1, mark - origin)
        /\ synced' = Least(synced, mark - origin)
        /\ job' = "rewind" /\ pc' = "stamp"
    BY <1>5 DEF Rewind
  <2>2. PICK p \in Nat : p = mark - origin /\ carry <= p /\ p < Len(body)
    <3>1. mark \in Int
      BY DEF TypeOK, NoMark
    <3> QED BY <1>2, <2>1, <3>1 DEF len
  <2>3. Len(body') = p /\ \A i \in 1 .. p : body'[i] = body[i]
    BY <1>2, <2>1, <2>2, PrefixFacts
  <2>4. synced' \in Nat /\ synced' <= synced /\ synced' <= p /\ carry <= synced'
        /\ (\A j \in Nat : j <= synced /\ j <= p => j <= synced')
    BY <1>2, <2>1, <2>2 DEF Least
  <2>5. old'.body = body /\ old'.synced = synced
    BY <2>1
  <2>6. Sizes'
    <3>1. /\ carry' <= synced' /\ synced' <= Len(body') /\ covered' <= origin' + carry'
          /\ origin' + Len(body') <= MaxLen' /\ origin' + Len(old'.body) <= MaxLen'
      BY <1>0, <1>2, <2>2, <2>3, <2>4, <2>5 DEF Lossless, Sizes, MaxLen
    <3> QED BY <1>0, <1>2, <3>1 DEF Lossless, Sizes
  <2>7. Truncated'
    BY <1>2, <2>2, <2>3, <2>4, <2>5 DEF Truncated
  <2>8. Calls'
    BY <1>0, <2>1 DEF Calls
  <2>9. Covered'
    BY <1>0, <1>1, <2>1 DEF Lossless, Covered
  <2>10. ASSUME NEW r \in owed' PROVE Safe(r, synced)'
    <3>1. r \in owed /\ r \notin Ids(SubSeq(body, p + 1, Len(body)))
      BY <2>1, <2>2
    <3>2. Safe(r, synced)
      BY <1>0, <1>1, <3>1 DEF Lossless, Durable, LastRoll
    <3>3. ASSUME InSeg(covered, origin, body, synced, r) PROVE InSeg(covered, origin, body', synced', r)
      <4>1. ASSUME NEW j \in 1 .. Len(body), j <= synced, IsAt(body, j, r)
            PROVE  j \in 1 .. Len(body') /\ j <= synced' /\ body'[j] = body[j]
        <5>1. j <= p
          <6> SUFFICES ASSUME ~(j <= p) PROVE FALSE
            OBVIOUS
          <6>1. p + 1 \in Nat /\ 1 <= p + 1 /\ p + 1 <= j
            BY <2>2
          <6> QED BY <1>2, <3>1, <4>1, <6>1, IdsOf
        <5> QED BY <2>2, <2>3, <2>4, <4>1, <5>1
      <4> QED BY <3>3, <4>1, InSegKept
    <3> QED BY <1>0, <3>2, <3>3 DEF Safe
  <2>11. Durable'
    <3>0. \A i \in 1 .. p : i \in 1 .. Len(body)
      BY <1>2, <2>2
    <3>1. AllOk(body')
      BY <1>2, <2>3, <3>0 DEF AllOk
    <3>2. owed' \subseteq mem'
      BY <1>0, <2>1 DEF Lossless, Durable
    <3> QED BY <1>0, <2>10, <3>1, <3>2 DEF Durable
  <2> QED BY <1>3, <2>6, <2>7, <2>8, <2>9, <2>11 DEF Lossless
<1> QED BY <1>4, <1>5

\* A fsync that returns makes every frame of the active file safe, those of
\* the acknowledged statement among them.
LEMMA BarrierSafe ==
  ASSUME TypeOK, TypeOK', Lossless, Barrier
  PROVE  Lossless'
<1>0. /\ mode = "up" /\ mode' = "up" /\ pc = "barrier"
      /\ synced' = Len(body) /\ old' = NoOld
      /\ UNCHANGED <<sealed, origin, carry, body, mark, covered, parts, faults, regime>>
  BY DEF Barrier
<1>1. \/ job = "sync" /\ owed' = owed \cup pend /\ mem' = mem \cup pend /\ pend' = {} /\ job' = "none" /\ pc' = "none"
      \/ job \in {"rewind", "open"} /\ job' = "none" /\ pc' = "none" /\ UNCHANGED <<owed, mem, pend>>
      \/ job \in Rolls /\ pc' = "publish" /\ UNCHANGED <<job, owed, mem, pend>>
  BY DEF Barrier, Rolls
<1>2. pend' = {} /\ owed' \subseteq owed \cup pend /\ mem \subseteq mem' /\ owed' \subseteq mem'
  <2>1. owed \subseteq mem
    BY <1>0 DEF Lossless, Durable
  <2>2. job # "sync" /\ job # "none" => pend = {}
    BY DEF Lossless, Calls
  <2>3. \A x \in Rolls \cup {"rewind", "open"} : x # "sync" /\ x # "none"
    BY DEF Rolls
  <2> QED BY <1>1, <2>1, <2>2, <2>3
<1>3. /\ Len(body) \in Nat /\ origin \in Nat /\ carry \in Nat /\ synced \in Nat /\ MaxLen \in Nat
      /\ carry <= synced /\ synced <= Len(body) /\ body \in Seq(Frame)
  BY StateNumbers DEF Lossless
<1>4. Sizes'
  <2>1. old'.body = << >> /\ Len(old'.body) = 0
    BY <1>0 DEF NoOld
  <2>2. /\ carry' <= synced' /\ synced' <= Len(body') /\ covered' <= origin' + carry'
        /\ origin' + Len(body') <= MaxLen' /\ origin' + Len(old'.body) <= MaxLen'
    BY <1>0, <1>3, <2>1 DEF Lossless, Sizes, MaxLen
  <2> QED BY <1>0, <2>2 DEF Lossless, Sizes
<1>5. Truncated' /\ Logged'
  BY <1>0, <1>2 DEF Truncated, Logged
<1>6. Calls'
  BY <1>1, <1>2 DEF Calls
<1>7. Covered'
  <2>1. pc' # "table"
    BY <1>1
  <2> QED BY <1>0, <2>1 DEF Lossless, Covered
<1>8. ASSUME NEW r \in owed' PROVE Safe(r, synced)'
  <2>1. CASE r \in owed
    <3>1. Safe(r, synced)
      BY <1>0, <2>1 DEF Lossless, Durable, LastRoll
    <3>2. ASSUME InSeg(covered, origin, body, synced, r) PROVE InSeg(covered, origin, body, Len(body), r)
      BY <1>3, <3>2, InSegKept
    <3> QED BY <1>0, <3>1, <3>2 DEF Safe
  <2>2. CASE r \in pend
    <3>1. InSeg(covered, origin, body, Len(body), r)
      BY <2>2 DEF Lossless, Logged
    <3> QED BY <1>0, <3>1 DEF Safe
  <2> QED BY <1>2, <2>1, <2>2
<1>9. Durable'
  BY <1>0, <1>2, <1>8 DEF Lossless, Durable
<1> QED BY <1>4, <1>5, <1>6, <1>7, <1>9 DEF Lossless

\* The TABLE commit puts everything into the parts, and its watermark passes
\* every sealed segment and no frame that is not carried.
LEMMA CommitTableSafe ==
  ASSUME TypeOK, TypeOK', Lossless, CommitTable
  PROVE  Lossless'
<1>0. /\ mode = "up" /\ mode' = "up" /\ pc \in {"table", "table_idle"} /\ pc' = "none" /\ job' = "none"
      /\ parts' = mem /\ covered' \in Watermark
      /\ UNCHANGED <<sealed, origin, carry, body, old, synced, mem, pend, owed, faults, regime>>
  BY DEF CommitTable, segVars, histVars
<1>1. /\ Len(body) \in Nat /\ origin \in Nat /\ carry \in Nat /\ Len(sealed) \in Nat /\ faults \in Nat
      /\ \A i \in 1 .. Len(sealed) : NextOrigin(sealed, origin, i) \in Nat
  BY StateNumbers DEF Lossless
<1>2. covered' \in Nat /\ origin <= covered' /\ covered' <= origin + carry
  <2>1. covered' = origin \/ (pc = "table_idle" /\ covered' = origin + Len(body))
    BY <1>0 DEF Watermark, len
  <2>2. pc = "table_idle" => Len(body) = carry
    BY DEF Lossless, Calls
  <2> QED BY <1>1, <2>1, <2>2
<1>3. Sizes' /\ Truncated'
  BY <1>0, <1>2 DEF Lossless, Sizes, Truncated, MaxLen
<1>4. pend' = {}
  <2>1. job \in Rolls
    BY <1>0 DEF Lossless, Calls
  <2>2. job # "sync" /\ job # "none"
    BY <2>1 DEF Rolls
  <2> QED BY <1>0, <2>2 DEF Lossless, Calls
<1>5. Calls' /\ Logged'
  BY <1>0, <1>4 DEF Calls, Logged
<1>6. Covered'
  <2>1. \A i \in 1 .. Len(sealed) : NextOrigin(sealed, origin, i) <= covered'
    BY <1>1, <1>2 DEF Lossless, Sizes
  <2> QED BY <1>0, <2>1 DEF Covered
<1>7. Durable'
  <2>1. AllOk(body) /\ owed \subseteq mem
    BY <1>0 DEF Lossless, Durable
  <2>2. \A r \in owed' : Safe(r, synced)'
    BY <1>0, <2>1 DEF Safe
  <2> QED BY <1>0, <2>1, <2>2 DEF Durable
<1> QED BY <1>3, <1>5, <1>6, <1>7 DEF Lossless

\* kill -9 leaves the file, and the frames on the platter are whole.
LEMMA KillSafe ==
  ASSUME TypeOK, TypeOK', Lossless, Kill
  PROVE  Lossless'
<1>0. /\ mode = "up" /\ mode' = "down" /\ faults < MaxFaults /\ faults' = faults + 1
      /\ pc' = "none" /\ job' = "none" /\ pend' = {}
      /\ UNCHANGED <<sealed, origin, carry, body, old, synced, covered, parts, owed, regime>>
  BY DEF Kill, GoDown, segVars
<1>1. /\ synced \in Nat /\ Len(body) \in Nat /\ faults \in Nat /\ Len(sealed) \in Nat /\ MaxFaults \in Nat
      /\ carry <= synced /\ synced <= Len(body)
  BY StateNumbers DEF Lossless
<1>2. Sizes' /\ Truncated'
  BY <1>0, <1>1 DEF Lossless, Sizes, Truncated, MaxLen
<1>3. Calls' /\ Logged'
  BY <1>0 DEF Calls, Logged
<1>4. Covered'
  <2> SUFFICES ASSUME NEW i \in 1 .. Len(sealed), i + faults' <= Len(sealed)
               PROVE  NextOrigin(sealed, origin, i) <= covered
    BY <1>0 DEF Covered
  <2>1. i + faults + 1 <= Len(sealed) /\ i + faults + 0 <= Len(sealed)
    BY <1>0, <1>1
  <2> QED BY <2>1 DEF Lossless, Covered
<1>5. Durable'
  <2>1. AllOk(body) /\ \A r \in owed : Safe(r, synced)
    BY <1>0, <1>1 DEF Lossless, Durable, LastRoll
  <2>2. \A i \in 1 .. synced : body[i].st = "ok"
    BY <1>1, <2>1 DEF AllOk
  <2>3. \A r \in owed : Safe(r, synced)'
    BY <1>0, <2>1 DEF Safe
  <2>4. synced \in 0 .. synced
    BY <1>1
  <2>5. \A r \in owed' : r \in parts' \/ InSealed(covered', sealed', origin', r)
                           \/ InSeg(covered', origin', body', synced, r)
    BY <1>0, <2>1 DEF Safe
  <2>6. \E m \in 0 .. synced' : /\ carry' <= m /\ \A i \in 1 .. m : body'[i].st = "ok"
                                /\ \A r \in owed' : r \in parts' \/ InSealed(covered', sealed', origin', r)
                                                      \/ InSeg(covered', origin', body', m, r)
    BY <1>0, <1>1, <2>2, <2>4, <2>5
  <2> QED BY <1>0, <2>6 DEF Durable, Safe
<1> QED BY <1>2, <1>3, <1>4, <1>5 DEF Lossless

\* A power loss keeps the first k frames of a file as they are on the platter.
LEMMA SurvivorKeeps ==
  ASSUME NEW b \in Seq(Frame), NEW k \in Nat, k <= Len(b), NEW s \in Survivors(b, k)
  PROVE  /\ s \in Seq(Frame) /\ Len(s) \in Nat /\ k <= Len(s) /\ Len(s) <= Len(b)
         /\ \A i \in 1 .. k : s[i] = b[i]
<1>0. PICK n \in 0 .. Len(b) : \E f \in Fates(k, n) : n >= k /\ s = [i \in 1 .. n |-> After(b, k, f, i)]
  BY SurvivorIs
<1>1. PICK f \in Fates(k, n) : n >= k /\ s = [i \in 1 .. n |-> After(b, k, f, i)]
  BY <1>0
<1>2. s \in Seq(Frame) /\ Len(s) \in Nat
  BY SurvivorsType
<1>3. n \in Nat /\ Len(b) \in Nat
  OBVIOUS
<1>4. Len(s) = n
  <2>1. DOMAIN s = 1 .. n /\ DOMAIN s = 1 .. Len(s)
    BY <1>1, <1>2
  <2> QED BY <1>2, <1>3, <2>1
<1>5. ASSUME NEW i \in 1 .. k PROVE s[i] = b[i]
  <2>1. i \in 1 .. n /\ ~(i > k)
    BY <1>1, <1>3
  <2> QED BY <1>1, <2>1 DEF After
<1> QED BY <1>1, <1>2, <1>3, <1>4, <1>5

\* A power loss keeps the frames on the platter, of the active file, of the
\* file a truncation came from and of every sealed segment.
LEMMA PowerLossSafe ==
  ASSUME TypeOK, TypeOK', Lossless, PowerLoss
  PROVE  Lossless'
<1>0. /\ mode = "up" /\ mode' = "down" /\ faults < MaxFaults /\ faults' = faults + 1
      /\ pc' = "none" /\ job' = "none" /\ pend' = {} /\ synced' = Len(body') /\ old' = NoOld
      /\ UNCHANGED <<origin, carry, covered, parts, owed, regime>>
  BY DEF PowerLoss, GoDown
<1>1. /\ synced \in Nat /\ Len(body) \in Nat /\ faults \in Nat /\ Len(sealed) \in Nat /\ MaxFaults \in Nat
      /\ carry \in Nat /\ origin \in Nat /\ MaxLen \in Nat /\ body \in Seq(Frame)
      /\ old.body \in Seq(Frame) /\ old.synced \in Nat /\ Len(old.body) \in Nat
      /\ carry <= synced /\ synced <= Len(body)
  BY StateNumbers DEF Lossless
<1>2. AllOk(body) /\ \A r \in owed : Safe(r, synced)
  BY <1>0, <1>1 DEF Lossless, Durable, LastRoll
<1>3. /\ Len(body') \in Nat /\ synced <= Len(body') /\ origin + Len(body') <= MaxLen
      /\ \A i \in 1 .. synced : body'[i] = body[i]
  <2>1. PICK src \in {[body |-> body, synced |-> synced]} \cup (IF old # NoOld THEN {old} ELSE {}) :
          body' \in Survivors(src.body, src.synced)
    BY DEF PowerLoss
  <2>2. /\ src.body \in Seq(Frame) /\ src.synced \in Nat /\ Len(src.body) \in Nat
        /\ synced <= src.synced /\ src.synced <= Len(src.body) /\ origin + Len(src.body) <= MaxLen
        /\ \A i \in 1 .. synced : src.body[i] = body[i]
    <3>1. CASE src = [body |-> body, synced |-> synced]
      BY <1>1, <3>1 DEF Lossless, Sizes
    <3>2. CASE src = old /\ old # NoOld
      BY <1>1, <3>2 DEF Lossless, Sizes, Truncated
    <3> QED BY <2>1, <3>1, <3>2
  <2>3. PICK b \in Seq(Frame), k \in Nat : b = src.body /\ k = src.synced
    BY <2>2
  <2>4. /\ Len(body') \in Nat /\ k <= Len(body') /\ Len(body') <= Len(b)
        /\ \A i \in 1 .. k : body'[i] = b[i]
    <3>1. body' \in Survivors(b, k) /\ k <= Len(b)
      BY <2>1, <2>2, <2>3
    <3> QED BY <3>1, SurvivorKeeps
  <2>5. Len(b) \in Nat /\ synced <= k /\ origin + Len(b) <= MaxLen /\ \A i \in 1 .. synced : b[i] = body[i]
    BY <2>2, <2>3
  <2>6. ASSUME NEW i \in 1 .. synced PROVE body'[i] = body[i]
    <3>1. i \in 1 .. k
      BY <1>1, <2>5
    <3> QED BY <2>4, <2>5, <3>1
  <2> QED BY <1>1, <2>4, <2>5, <2>6
<1>4. /\ Len(sealed') = Len(sealed)
      /\ \A i \in 1 .. Len(sealed) :
           /\ sealed'[i].origin = sealed[i].origin
           /\ sealed'[i].synced <= Len(sealed'[i].body) /\ sealed[i].synced <= sealed'[i].synced
           /\ \A j \in 1 .. sealed[i].synced : sealed'[i].body[j] = sealed[i].body[j]
           /\ sealed'[i].synced \in Nat /\ Len(sealed'[i].body) \in Nat
  <2>1. /\ sealed \in Seq(Segment) /\ DOMAIN sealed' = DOMAIN sealed
        /\ \A i \in DOMAIN sealed :
             sealed'[i] \in IF i \in Unsettled THEN SealedSurvivors(sealed[i]) ELSE {sealed[i]}
    BY DEF PowerLoss, TypeOK
  <2>2. Len(sealed') = Len(sealed)
    <3>1. sealed' \in Seq(Segment)
      BY DEF TypeOK
    <3>2. DOMAIN sealed = 1 .. Len(sealed) /\ DOMAIN sealed' = 1 .. Len(sealed') /\ Len(sealed') \in Nat
      BY <2>1, <3>1
    <3> QED BY <1>1, <2>1, <3>2
  <2>3. SUFFICES ASSUME NEW i \in 1 .. Len(sealed)
                 PROVE  /\ sealed'[i].origin = sealed[i].origin
                        /\ sealed'[i].synced <= Len(sealed'[i].body) /\ sealed[i].synced <= sealed'[i].synced
                        /\ \A j \in 1 .. sealed[i].synced : sealed'[i].body[j] = sealed[i].body[j]
                        /\ sealed'[i].synced \in Nat /\ Len(sealed'[i].body) \in Nat
    BY <2>2
  <2>4. PICK s \in Segment : s = sealed[i]
    BY <2>1
  <2>5. s.body \in Seq(Frame) /\ s.synced \in Nat /\ s.synced <= Len(s.body) /\ Len(s.body) \in Nat
    BY <2>4 DEF Segment, Lossless, Sizes
  <2>6. CASE i \notin Unsettled
    <3>1. sealed'[i] = s
      BY <2>1, <2>4, <2>6
    <3> QED BY <2>4, <2>5, <3>1
  <2>7. CASE i \in Unsettled
    <3>1. sealed'[i] \in SealedSurvivors(s)
      BY <2>1, <2>4, <2>7
    <3>2. PICK b \in Survivors(s.body, s.synced), h \in {s.head, s.phead} : sealed'[i] = Left(s, b, h)
      BY <3>1 DEF SealedSurvivors
    <3>3. /\ Len(b) \in Nat /\ s.synced <= Len(b) /\ \A j \in 1 .. s.synced : b[j] = s.body[j]
      BY <2>5, SurvivorKeeps
    <3>4. sealed'[i].origin = s.origin /\ sealed'[i].body = b /\ sealed'[i].synced = Len(b)
      BY <3>2 DEF Left, Segment
    <3> QED BY <2>4, <3>3, <3>4
  <2> QED BY <2>6, <2>7
<1>5. \A i \in 1 .. Len(sealed) : NextOrigin(sealed', origin, i) = NextOrigin(sealed, origin, i)
  <2> SUFFICES ASSUME NEW i \in 1 .. Len(sealed), i # Len(sealed) PROVE sealed'[i + 1].origin = sealed[i + 1].origin
    BY <1>4 DEF NextOrigin
  <2>1. i + 1 \in 1 .. Len(sealed)
    BY <1>1
  <2> QED BY <1>4, <2>1
<1>6. Sizes'
  <2>1. Len(old'.body) = 0
    BY <1>0 DEF NoOld
  <2>2. /\ carry' <= synced' /\ synced' <= Len(body') /\ covered' <= origin' + carry'
        /\ origin' + Len(body') <= MaxLen' /\ origin' + Len(old'.body) <= MaxLen'
        /\ regime' \in Regimes /\ faults' \in Nat
    BY <1>0, <1>1, <1>3, <2>1 DEF Lossless, Sizes, MaxLen
  <2>3. \A i \in 1 .. Len(sealed') : /\ sealed'[i].synced <= Len(sealed'[i].body)
                                     /\ NextOrigin(sealed', origin', i) <= origin'
    BY <1>0, <1>4, <1>5 DEF Lossless, Sizes
  <2> QED BY <2>2, <2>3 DEF Sizes
<1>7. Truncated' /\ Calls' /\ Logged'
  BY <1>0 DEF Truncated, Calls, Logged
<1>8. Covered'
  <2> SUFFICES ASSUME NEW i \in 1 .. Len(sealed), i + faults' <= Len(sealed)
               PROVE  NextOrigin(sealed, origin, i) <= covered
    BY <1>0, <1>4, <1>5 DEF Covered
  <2>1. i + faults + 1 <= Len(sealed) /\ i + faults + 0 <= Len(sealed)
    BY <1>0, <1>1
  <2> QED BY <2>1 DEF Lossless, Covered
<1>9. ASSUME NEW r \in owed
      PROVE  r \in parts' \/ InSealed(covered', sealed', origin', r) \/ InSeg(covered', origin', body', synced, r)
  <2>1. Safe(r, synced)
    BY <1>2
  <2>2. ASSUME InSealed(covered, sealed, origin, r) PROVE InSealed(covered, sealed', origin, r)
    <3>1. PICK i \in 1 .. Len(sealed) :
            /\ NextOrigin(sealed, origin, i) > covered
            /\ InSeg(covered, sealed[i].origin, sealed[i].body, sealed[i].synced, r)
      BY <2>2 DEF InSealed
    <3>2. PICK s, t : s = sealed[i] /\ t = sealed'[i]
      OBVIOUS
    <3>3. /\ s.synced \in Nat /\ t.synced \in Nat /\ Len(t.body) \in Nat /\ s.origin = t.origin
          /\ s.synced <= t.synced /\ t.synced <= Len(t.body) /\ \A j \in 1 .. s.synced : t.body[j] = s.body[j]
      BY <1>4, <3>2, StateNumbers DEF Lossless
    <3>4. ASSUME NEW j \in 1 .. Len(s.body), j <= s.synced
          PROVE  j \in 1 .. Len(t.body) /\ j <= t.synced /\ t.body[j] = s.body[j]
      BY <3>3, <3>4
    <3>5. InSeg(covered, s.origin, s.body, s.synced, r)
      BY <3>1, <3>2
    <3>6. InSeg(covered, s.origin, t.body, t.synced, r)
      BY <3>4, <3>5, InSegKept
    <3>7. InSeg(covered, sealed'[i].origin, sealed'[i].body, sealed'[i].synced, r)
      BY <3>2, <3>3, <3>6
    <3>8. i \in 1 .. Len(sealed') /\ NextOrigin(sealed', origin, i) > covered
      BY <1>4, <1>5, <3>1
    <3> QED BY <3>7, <3>8 DEF InSealed
  <2>3. ASSUME InSeg(covered, origin, body, synced, r) PROVE InSeg(covered, origin, body', synced, r)
    <3>1. ASSUME NEW j \in 1 .. Len(body), j <= synced
          PROVE  j \in 1 .. Len(body') /\ j <= synced /\ body'[j] = body[j]
      BY <1>1, <1>3, <3>1
    <3> QED BY <2>3, <3>1, InSegKept
  <2> QED BY <1>0, <2>1, <2>2, <2>3 DEF Safe
<1>10. Durable'
  <2>1. \A i \in 1 .. synced : body'[i].st = "ok"
    <3>1. \A i \in 1 .. synced : i \in 1 .. Len(body)
      BY <1>1
    <3> QED BY <1>2, <1>3, <3>1 DEF AllOk
  <2>2. synced \in 0 .. synced'
    BY <1>0, <1>1, <1>3
  <2>3. \E m \in 0 .. synced' : /\ carry' <= m /\ \A i \in 1 .. m : body'[i].st = "ok"
                                /\ \A r \in owed' : r \in parts' \/ InSealed(covered', sealed', origin', r)
                                                      \/ InSeg(covered', origin', body', m, r)
    BY <1>0, <1>1, <1>9, <2>1, <2>2
  <2> QED BY <1>0, <2>3 DEF Durable, Safe
<1> QED BY <1>6, <1>7, <1>8, <1>10 DEF Lossless

\* Wal::open keeps the whole frames, and the replay brings back what is in them.
LEMMA RecoverSafe ==
  ASSUME TypeOK, TypeOK', Lossless, Recover
  PROVE  Lossless'
<1>0. /\ mode = "down" /\ UNCHANGED <<covered, parts, pend, owed, faults, regime, sealed, origin, carry, mark>>
  BY DEF Recover, segVars, callVars
<1>1. /\ synced \in Nat /\ Len(body) \in Nat /\ faults \in Nat /\ Len(sealed) \in Nat
      /\ carry \in Nat /\ origin \in Nat /\ MaxLen \in Nat /\ body \in Seq(Frame)
      /\ carry <= synced /\ synced <= Len(body)
  BY StateNumbers DEF Lossless
<1>2. PICK m \in 0 .. synced : /\ carry <= m /\ \A i \in 1 .. m : body[i].st = "ok"
                               /\ \A r \in owed : Safe(r, m)
  BY <1>0 DEF Lossless, Durable
<1>3. pc # "table" /\ pend = {} /\ Logged'
  BY <1>0 DEF Lossless, Durable, Calls, Logged
<1>4. CASE mode' = "refused"
  <2>1. UNCHANGED <<body, old, synced, job, pc>>
    BY <1>4 DEF Recover, segVars, callVars
  <2>2. Sizes' /\ Truncated' /\ Calls' /\ Covered'
    BY <1>0, <1>3, <2>1 DEF Lossless, Sizes, Truncated, Calls, Covered, MaxLen
  <2>3. Durable'
    BY <1>4 DEF Durable
  <2> QED BY <1>3, <2>2, <2>3 DEF Lossless
<1>5. CASE mode' # "refused"
  <2>0. m \in Nat /\ m <= Len(body) /\ m <= synced
    BY <1>1
  <2>1. PICK good \in Nat : /\ good = Walked(body, 0) /\ m <= good /\ good <= Len(body)
                            /\ \A i \in 1 .. good : body[i].st = "ok"
    BY <1>1, <1>2, <2>0, WalkPast
  <2>2. /\ mode' = "up" /\ mem' = parts \cup Replayed /\ body' = SubSeq(body, 1, good)
        /\ \/ /\ good < Len(body) /\ old' = [body |-> body, synced |-> synced]
              /\ synced' = Least(synced, good) /\ job' = "open" /\ pc' = "stamp"
           \/ good = Len(body) /\ UNCHANGED <<old, synced, job, pc>>
    BY <1>5, <2>1 DEF Recover
  <2>3. Len(body') = good /\ \A i \in 1 .. good : body'[i] = body[i]
    BY <1>1, <2>1, <2>2, PrefixFacts
  <2>4. /\ synced' \in Nat /\ m <= synced' /\ synced' <= synced /\ synced' <= good
        /\ origin + Len(old'.body) <= MaxLen /\ pc' # "table"
    <3>1. CASE good < Len(body) /\ old' = [body |-> body, synced |-> synced] /\ synced' = Least(synced, good) /\ pc' = "stamp"
      <4>1. old'.body = body
        BY <3>1
      <4> QED BY <1>1, <2>0, <2>1, <3>1, <4>1 DEF Least, Lossless, Sizes
    <3>2. CASE good = Len(body) /\ UNCHANGED <<old, synced, job, pc>>
      BY <1>1, <1>3, <2>0, <3>2 DEF Lossless, Sizes
    <3> QED BY <2>2, <3>1, <3>2
  <2>5. Sizes'
    <3>1. MaxLen' = MaxLen /\ origin + Len(body) <= MaxLen
      BY <1>0 DEF Lossless, Sizes, MaxLen
    <3>2. carry' <= synced' /\ synced' <= Len(body')
      BY <1>0, <1>1, <1>2, <2>0, <2>1, <2>3, <2>4
    <3>3. origin' + Len(body') <= MaxLen' /\ origin' + Len(old'.body) <= MaxLen'
      BY <1>0, <1>1, <2>1, <2>3, <2>4, <3>1
    <3> QED BY <1>0, <3>2, <3>3 DEF Lossless, Sizes
  <2>6. Truncated'
    <3>0. \A i \in 1 .. synced' : i \in 1 .. good /\ i \in 1 .. synced
      BY <1>1, <2>1, <2>4
    <3>1. CASE good < Len(body) /\ old' = [body |-> body, synced |-> synced]
      <4>1. old'.body = body /\ old'.synced = synced
        BY <3>1
      <4> QED BY <1>1, <2>3, <2>4, <3>0, <4>1 DEF Truncated
    <3>2. CASE good = Len(body) /\ UNCHANGED <<old, synced>>
      BY <2>3, <3>0, <3>2 DEF Lossless, Truncated
    <3> QED BY <2>2, <3>1, <3>2
  <2>7. Calls'
    <3>1. CASE pc' = "stamp"
      BY <1>0, <1>3, <3>1 DEF Calls
    <3>2. CASE good = Len(body) /\ UNCHANGED <<job, pc>>
      BY <1>0, <1>3, <2>3, <3>2 DEF Lossless, Calls
    <3> QED BY <2>2, <3>1, <3>2
  <2>8. Covered'
    BY <1>0, <1>3, <2>4 DEF Lossless, Covered
  <2>9. ASSUME NEW r \in owed PROVE Safe(r, synced)' /\ r \in mem'
    <3>1. Safe(r, m)
      BY <1>2
    <3>2. r \in mem'
      BY <1>2, <2>0, <2>2, <3>1, SafeIsReplayed DEF Lossless
    <3>3. ASSUME InSeg(covered, origin, body, m, r) PROVE InSeg(covered, origin, body', synced', r)
      <4>1. ASSUME NEW j \in 1 .. Len(body), j <= m
            PROVE  j \in 1 .. Len(body') /\ j <= synced' /\ body'[j] = body[j]
        <5>1. j \in 1 .. good /\ j <= synced'
          BY <1>1, <2>0, <2>1, <2>4, <4>1
        <5> QED BY <2>3, <5>1
      <4> QED BY <3>3, <4>1, InSegKept
    <3> QED BY <1>0, <3>1, <3>2, <3>3 DEF Safe
  <2>10. Durable'
    <3>1. AllOk(body')
      BY <2>1, <2>3 DEF AllOk
    <3> QED BY <1>0, <2>2, <2>9, <3>1 DEF Durable
  <2> QED BY <1>3, <2>5, <2>6, <2>7, <2>8, <2>10 DEF Lossless
<1> QED BY <1>4, <1>5

\* A roll seals the active file with all its frames, and prunes only what TABLE
\* covers already, unless no crash can follow.
LEMMA PublishSafe ==
  ASSUME TypeOK, TypeOK', Lossless, Retained, Publish
  PROVE  Lossless'
<1> DEFINE kept == Kept(job = "roll_keep")
           seg  == [origin |-> origin, body |-> body, synced |-> synced,
                    head |-> head, phead |-> phead]
           all  == Append(sealed, seg)
           N    == Len(sealed)
<1>0. /\ mode = "up" /\ mode' = "up" /\ pc = "publish" /\ pc' = "table"
      /\ len + Len(kept) <= MaxLen
      /\ sealed' = SubSeq(all, 1 + Prunable(all, len), Len(all))
      /\ origin' = len /\ carry' = Len(kept) /\ body' = kept /\ synced' = Len(kept) /\ old' = NoOld
      /\ UNCHANGED <<job, covered, parts, mem, pend, owed, faults, regime>>
  BY DEF Publish, tabVars, histVars
<1>1. /\ body \in Seq(Frame) /\ Len(body) \in Nat /\ origin \in Nat /\ synced \in Nat /\ carry \in Nat
      /\ covered \in Nat /\ faults \in Nat /\ N \in Nat /\ MaxLen \in Nat /\ MaxFaults \in Nat
      /\ carry <= synced /\ synced <= Len(body) /\ covered <= origin + carry
      /\ len = origin + Len(body) /\ len \in Nat
      /\ Budget \in Nat /\ MaxSegments \in Nat /\ MaxLen <= Budget /\ MaxFaults <= MaxSegments
  <2>1. MaxLen <= Budget /\ MaxFaults <= MaxSegments
    BY DEF Retained, Lossless, Sizes, MaxLen, MaxFaults
  <2>2. len = origin + Len(body)
    BY DEF len
  <2> QED BY <2>1, <2>2, StateNumbers, WalAssumption DEF Lossless
<1>2. seg \in Segment /\ sealed \in Seq(Segment)
  BY <1>1 DEF TypeOK, Segment
<1>3. /\ all \in Seq(Segment) /\ Len(all) = N + 1 /\ all[N + 1] = seg
      /\ \A i \in 1 .. N : all[i] = sealed[i]
  BY <1>2
<1>4. /\ kept \in Seq(Frame) /\ Len(kept) \in Nat
      /\ \A k \in 1 .. Len(kept) : \E i \in 1 .. Len(body) : kept[k] = body[i]
  <2>1. kept \in {Decisions, << >>}
    BY DEF Kept
  <2>2. CASE kept = << >>
    <3>1. kept \in Seq(Frame) /\ Len(kept) = 0
      BY <2>2, EmptySeq
    <3> QED BY <3>1
  <2> QED BY <1>1, <2>1, <2>2, DecisionsFacts
<1>5. PICK p \in 0 .. N + 1 : p = Prunable(all, len) /\ \A j \in 0 .. p - 1 : Over(all, len, j)
  <2> HIDE DEF all
  <2> QED BY <1>1, <1>3, PrunableFacts
<1> HIDE DEF all, kept, N
<1>6. /\ Len(sealed') = N + 1 - p
      /\ \A i \in 1 .. N + 1 - p : sealed'[i] = all[i + p]
  <2>1. sealed' = SubSeq(all, 1 + p, N + 1)
    BY <1>0, <1>3, <1>5
  <2>2. \A i \in 1 + p .. N + 1 : all[i] \in Segment
    BY <1>1, <1>3, <1>5
  <2>3. 1 + p \in Int /\ N + 1 \in Int
    BY <1>1, <1>5
  <2>4. PICK a \in Int, z \in Int : a = 1 + p /\ z = N + 1
    BY <2>3
  <2>5. /\ Len(SubSeq(all, a, z)) = IF a <= z THEN z - a + 1 ELSE 0
        /\ \A i \in 1 .. z - a + 1 : SubSeq(all, a, z)[i] = all[a + i - 1]
    BY <2>2, <2>4, SubSeqProperties
  <2>6. sealed' = SubSeq(all, a, z)
    BY <2>1, <2>4
  <2>7. z - a + 1 = N + 1 - p /\ (IF a <= z THEN z - a + 1 ELSE 0) = N + 1 - p
    BY <1>1, <1>5, <2>4
  <2>8. ASSUME NEW i \in 1 .. N + 1 - p PROVE sealed'[i] = all[i + p]
    <3>1. a + i - 1 = i + p
      BY <1>1, <1>5, <2>4
    <3> QED BY <2>5, <2>6, <2>7, <3>1
  <2> QED BY <2>5, <2>6, <2>7, <2>8
<1>7. /\ \A i \in 1 .. N : NextOrigin(all, len, i) = NextOrigin(sealed, origin, i)
      /\ NextOrigin(all, len, N + 1) = len
  <2>1. ASSUME NEW i \in 1 .. N PROVE NextOrigin(all, len, i) = NextOrigin(sealed, origin, i)
    <3>1. i # N + 1 /\ i + 1 \in 1 .. N + 1
      BY <1>1
    <3>2. CASE i = N
      <4>1. all[i + 1].origin = origin
        BY <1>3, <3>2
      <4> QED BY <1>3, <3>1, <3>2, <4>1 DEF NextOrigin, N
    <3>3. CASE i # N
      <4>1. i + 1 \in 1 .. N
        BY <1>1, <3>3
      <4> QED BY <1>3, <3>1, <3>3, <4>1 DEF NextOrigin, N
    <3> QED BY <3>2, <3>3
  <2> QED BY <1>3, <2>1 DEF NextOrigin
<1>8. \A i \in 1 .. N + 1 - p : NextOrigin(sealed', len, i) = NextOrigin(all, len, i + p)
  <2> SUFFICES ASSUME NEW i \in 1 .. N + 1 - p
               PROVE  NextOrigin(sealed', len, i) = NextOrigin(all, len, i + p)
    OBVIOUS
  <2>1. CASE i = N + 1 - p
    <3>1. i + p = N + 1
      BY <1>1, <1>5, <2>1
    <3> QED BY <1>3, <1>6, <2>1, <3>1 DEF NextOrigin
  <2>2. CASE i # N + 1 - p
    <3>0. N \in Nat /\ p \in Nat /\ i \in Nat /\ 1 <= i /\ i < N + 1 - p
      BY <1>1, <1>5, <2>2
    <3>1. i + 1 \in 1 .. N + 1 - p /\ i + p # N + 1 /\ (i + 1) + p = (i + p) + 1
      BY <3>0
    <3>2. sealed'[i + 1] = all[(i + p) + 1]
      BY <1>6, <3>1
    <3> QED BY <1>3, <1>6, <2>2, <3>1, <3>2 DEF NextOrigin
  <2> QED BY <2>1, <2>2
<1>9. \A i \in 1 .. N + 1 : /\ NextOrigin(all, len, i) <= len /\ all[i].synced <= Len(all[i].body)
  <2> SUFFICES ASSUME NEW i \in 1 .. N + 1
               PROVE  NextOrigin(all, len, i) <= len /\ all[i].synced <= Len(all[i].body)
    OBVIOUS
  <2>1. CASE i = N + 1
    BY <1>1, <1>3, <1>7, <2>1
  <2>2. CASE i # N + 1
    <3>1. i \in 1 .. N
      BY <1>1, <2>2
    <3>2. /\ NextOrigin(sealed, origin, i) \in Nat /\ NextOrigin(sealed, origin, i) <= origin
          /\ sealed[i].synced <= Len(sealed[i].body)
      BY <3>1, StateNumbers DEF Lossless, Sizes, N
    <3> QED BY <1>1, <1>3, <1>7, <3>1, <3>2
  <2> QED BY <2>1, <2>2
<1>10. Sizes'
  <2>1. Len(old'.body) = 0
    BY <1>0 DEF NoOld
  <2>2. /\ carry' <= synced' /\ synced' <= Len(body') /\ covered' <= origin' + carry'
        /\ origin' + Len(body') <= MaxLen' /\ origin' + Len(old'.body) <= MaxLen'
        /\ regime' \in Regimes /\ faults' \in Nat
    <3>1. MaxLen' = MaxLen /\ regime' \in Regimes /\ faults' \in Nat
      BY <1>0 DEF Lossless, Sizes, MaxLen
    <3>2. carry' <= synced' /\ synced' <= Len(body') /\ covered' <= origin' + carry'
      BY <1>0, <1>1, <1>4
    <3>3. origin' + Len(body') <= MaxLen' /\ origin' + Len(old'.body) <= MaxLen'
      BY <1>0, <1>1, <1>4, <2>1, <3>1
    <3> QED BY <3>1, <3>2, <3>3
  <2>3. ASSUME NEW i \in 1 .. Len(sealed')
        PROVE  sealed'[i].synced <= Len(sealed'[i].body) /\ NextOrigin(sealed', origin', i) <= origin'
    <3>1. i \in 1 .. N + 1 - p /\ i + p \in 1 .. N + 1
      BY <1>1, <1>5, <1>6
    <3> QED BY <1>0, <1>6, <1>8, <1>9, <3>1
  <2> QED BY <2>2, <2>3 DEF Sizes
<1>11. pend' = {}
  <2>1. job \in Rolls
    BY <1>0 DEF Lossless, Calls
  <2>2. job # "sync" /\ job # "none"
    BY <2>1 DEF Rolls
  <2> QED BY <1>0, <2>2 DEF Lossless, Calls
<1>12. Truncated' /\ Calls' /\ Logged'
  BY <1>0, <1>11 DEF Lossless, Truncated, Calls, Logged
<1>13. Covered'
  <2> SUFFICES ASSUME NEW i \in 1 .. N + 1 - p, i + faults + 1 <= N + 1 - p
               PROVE  NextOrigin(sealed', len, i) <= covered
    BY <1>0, <1>6 DEF Covered
  <2>0. i \in Nat /\ 1 <= i /\ p \in Nat /\ N \in Nat /\ faults \in Nat
    BY <1>1, <1>5
  <2>1. i + p \in 1 .. N /\ (i + p) + faults + 0 <= N
    BY <2>0
  <2>2. NextOrigin(sealed, origin, i + p) <= covered
    BY <1>0, <2>1 DEF Lossless, Covered, N
  <2> QED BY <1>7, <1>8, <2>1, <2>2
<1>14. ASSUME ~(faults >= MaxFaults), NEW i \in 1 .. N + 1, NextOrigin(all, len, i) > covered
       PROVE  i > p
  <2> SUFFICES ASSUME ~(i > p) PROVE FALSE
    OBVIOUS
  <2>1. i - 1 \in 0 .. p - 1 /\ (i - 1) + 1 = i
    BY <1>1, <1>5
  <2>2. Over(all, len, i - 1)
    BY <1>5, <2>1
  <2>3. len - all[i].origin > Budget \/ (N + 1) - (i - 1) > MaxSegments
    BY <1>3, <2>1, <2>2 DEF Over
  <2>4. PICK x \in Nat : x = all[i].origin
    <3>1. all[i] \in Segment
      BY <1>1, <1>3
    <3> QED BY <3>1 DEF Segment
  <2>5. len <= MaxLen
    BY <1>1 DEF Lossless, Sizes
  <2>6. (N + 1) - (i - 1) > MaxSegments
    <3>1. len - x > Budget \/ (N + 1) - (i - 1) > MaxSegments
      BY <2>3, <2>4
    <3>2. ~(len - x > Budget)
      BY <1>1, <2>5
    <3> QED BY <3>1, <3>2
  <2>7. i \in 1 .. N /\ i + faults + 0 <= N
    BY <1>1, <1>14, <2>6
  <2>8. NextOrigin(sealed, origin, i) <= covered /\ NextOrigin(sealed, origin, i) \in Nat
    BY <1>0, <2>7, StateNumbers DEF Lossless, Covered, N
  <2> QED BY <1>1, <1>7, <1>14, <2>7, <2>8
<1>15. ASSUME ~(faults >= MaxFaults), NEW r, NEW i \in 1 .. N + 1, NextOrigin(all, len, i) > covered,
              InSeg(covered, all[i].origin, all[i].body, all[i].synced, r)
       PROVE  InSealed(covered, sealed', len, r)
  <2>1. i > p
    BY <1>14, <1>15
  <2>2. PICK k \in 1 .. N + 1 - p : k + p = i
    <3>1. i - p \in 1 .. N + 1 - p /\ (i - p) + p = i
      BY <1>1, <1>5, <2>1
    <3> QED BY <3>1
  <2>3. sealed'[k] = all[i] /\ NextOrigin(sealed', len, k) > covered /\ k \in 1 .. Len(sealed')
    BY <1>6, <1>8, <1>15, <2>2
  <2> QED BY <1>15, <2>3 DEF InSealed
<1>16. ASSUME ~(faults >= MaxFaults), NEW r \in owed PROVE Safe(r, synced)'
  <2>1. Safe(r, synced)
    BY <1>0 DEF Lossless, Durable, LastRoll
  <2>2. CASE InSealed(covered, sealed, origin, r)
    <3>1. PICK i \in 1 .. N :
            /\ NextOrigin(sealed, origin, i) > covered
            /\ InSeg(covered, sealed[i].origin, sealed[i].body, sealed[i].synced, r)
      BY <2>2 DEF InSealed, N
    <3>2. i \in 1 .. N + 1 /\ all[i] = sealed[i] /\ NextOrigin(all, len, i) > covered
      BY <1>1, <1>3, <1>7, <3>1
    <3>3. InSealed(covered, sealed', len, r)
      BY <1>15, <1>16, <3>1, <3>2
    <3> QED BY <1>0, <3>3 DEF Safe
  <2>3. CASE InSeg(covered, origin, body, synced, r)
    <3>1. PICK j \in 1 .. Len(body) : origin + j > covered
      BY <2>3 DEF InSeg
    <3>2. NextOrigin(all, len, N + 1) > covered /\ N + 1 \in 1 .. N + 1
      BY <1>1, <1>7, <3>1
    <3>3. all[N + 1].origin = origin /\ all[N + 1].body = body /\ all[N + 1].synced = synced
      BY <1>3
    <3>4. InSealed(covered, sealed', len, r)
      BY <1>15, <1>16, <2>3, <3>2, <3>3
    <3> QED BY <1>0, <3>4 DEF Safe
  <2> QED BY <1>0, <2>1, <2>2, <2>3 DEF Safe
<1>17. Durable'
  <2>1. AllOk(body') /\ owed' \subseteq mem'
    BY <1>0, <1>4 DEF Lossless, Durable, AllOk
  <2>2. LastRoll' \/ \A r \in owed' : Safe(r, synced)'
    BY <1>0, <1>16 DEF LastRoll, MaxFaults
  <2> QED BY <1>0, <2>1, <2>2 DEF Durable
<1> QED BY <1>10, <1>12, <1>13, <1>17 DEF Lossless

\* At the start nothing is owed.
LEMMA InitSafe ==
  ASSUME Init
  PROVE  Lossless
<1>1. /\ Len(body) = 0 /\ Len(sealed) = 0 /\ origin = 0 /\ carry = 0 /\ synced = 0 /\ covered = 0 /\ faults = 0
      /\ old = NoOld /\ Len(old.body) = 0 /\ regime \in Regimes /\ owed = {} /\ pend = {} /\ mem = {}
      /\ pc = "none" /\ mode = "up"
  BY DEF Init, NoOld
<1>2. MaxLen \in Nat
  BY <1>1, WalAssumption DEF MaxLen
<1>3. Sizes
  BY <1>1, <1>2 DEF Sizes
<1>4. Truncated /\ Calls /\ Logged /\ Covered
  BY <1>1 DEF Truncated, Calls, Logged, Covered
<1>5. Durable
  BY <1>1 DEF Durable, AllOk
<1> QED BY <1>3, <1>4, <1>5 DEF Lossless

\* Every step of an undamaged log keeps it lossless.
LEMMA LosslessStep ==
  ASSUME TypeOK, TypeOK', Lossless, Undamaged, Retained, [Next]_vars
  PROVE  Lossless'
<1>1. ~ShortWrite /\ ~ShortWriteUnique /\ ~Rot
  BY DEF Undamaged, ShortWrite, ShortWriteUnique, Rot
<1>2. CASE AppendPlain \/ Begin \/ AppendStaged \/ EndTxn
             \/ CloseGroup(Data(nextRec)) \/ CloseGroup(Decide(nextRec))
  BY <1>2, LogCallSafe
<1>3. CASE TickStep \/ StampStep \/ BarrierFails \/ \E cited \in BOOLEAN : BeginFold(cited)
  BY <1>3, SyncCallSafe
<1>4. CASE Rewind
  BY <1>4, RewindSafe
<1>5. CASE Barrier
  BY <1>5, BarrierSafe
<1>6. CASE Publish
  BY <1>6, PublishSafe
<1>7. CASE CommitTable
  BY <1>7, CommitTableSafe
<1>8. CASE Kill
  BY <1>8, KillSafe
<1>9. CASE PowerLoss
  BY <1>9, PowerLossSafe
<1>10. CASE Recover
  BY <1>10, RecoverSafe
<1>11. CASE UNCHANGED vars
  <2> USE <1>11 DEF vars, segVars, callVars, tabVars, histVars
  <2>1. Sizes' /\ Truncated' /\ Calls' /\ Logged' /\ Covered'
    BY DEF Lossless, Sizes, Truncated, Calls, Logged, Covered, MaxLen
  <2>2. Durable'
    BY DEF Lossless, Durable, Safe, LastRoll, MaxFaults
  <2> QED BY <2>1, <2>2 DEF Lossless
<1> QED BY <1>1, <1>2, <1>3, <1>4, <1>5, <1>6, <1>7, <1>8, <1>9, <1>10, <1>11 DEF Next

\* Nothing acknowledged is lost: with an archive that outlasts the crashes, and
\* nothing but crashes and failed fsyncs happening to the files, every record
\* that a returned sync acknowledged is in the parts or comes back from replay.
THEOREM AckedSurvives ==
  ASSUME Retained
  PROVE  Spec => [](Undamaged => NoSilentLoss)
<1> DEFINE LInv == Undamaged => Lossless
<1>1. Init => LInv
  BY InitSafe
<1>2. IInv /\ IInv' /\ LInv /\ [Next]_vars => LInv'
  <2> SUFFICES ASSUME IInv, IInv', LInv, [Next]_vars, Undamaged' PROVE Lossless'
    OBVIOUS
  <2>1. regime' = regime
    BY DEF Next, vars, segVars, callVars, tabVars, histVars, AppendPlain, Begin, AppendStaged, CloseGroup,
           EndTxn, Rewind, ShortWrite, ShortWriteUnique, TickStep, StampStep, Barrier, BarrierFails,
           BeginFold, Publish, CommitTable, GoDown, Kill, PowerLoss, Rot, Recover
  <2>2. Undamaged
    BY <2>1 DEF Undamaged, Faults
  <2> QED BY <2>2, LosslessStep DEF IInv
<1>3. IInv /\ LInv => (Undamaged => NoSilentLoss)
  <2> SUFFICES ASSUME TypeOK, Lossless, Idle, NEW r \in owed PROVE r \in parts \cup Replayed
    BY DEF IInv, NoSilentLoss
  <2>1. AllOk(body) /\ mode = "up" /\ job \notin Rolls
    BY DEF Idle, Lossless, Durable, Rolls
  <2>2. Safe(r, synced)
    BY <2>1 DEF Lossless, Durable, LastRoll, Calls
  <2>3. synced \in Nat /\ synced <= Len(body) /\ Len(body) \in Nat
    BY StateNumbers DEF Lossless
  <2>4. \A i \in 1 .. synced : body[i].st = "ok"
    BY <2>1, <2>3 DEF AllOk
  <2> QED BY <2>2, <2>3, <2>4, SafeIsReplayed DEF Lossless
<1> HIDE DEF LInv
<1> QED BY <1>1, <1>2, <1>3, InductiveInvariant, PTL DEF Spec
==============================================================================
