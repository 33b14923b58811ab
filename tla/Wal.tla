--------------------------------- MODULE Wal ---------------------------------
(***************************************************************************)
(* One table's write-ahead log (persist/wal.rs): a directory of segments    *)
(* whose newest file is the active one.  Every frame is one unit long, so a *)
(* stream position (an LSN) counts frames; a segment's header carries the   *)
(* stamp (durable, acked) that decides, at the next open, whether a frame   *)
(* that does not parse is an interrupted append or lost data.               *)
(*                                                                          *)
(* Two copies of the active file exist: what the page cache holds (body,    *)
(* head) and what a returned fsync put on the platter (the first `synced`   *)
(* frames, phead).  A kill leaves the cache, a power loss leaves the        *)
(* platter plus whatever the kernel happened to write back.                 *)
(***************************************************************************)
EXTENDS Integers, Sequences, FiniteSets

CONSTANTS
  Budget,       \* wal_archive_retention, counted in sealed frames
  MaxSegments,  \* MAX_SEGMENTS, the cap on sealed segments
  Regimes       \* the environments: [faults, maxFaults, maxRecs, maxLen]

FaultKinds == {"kill", "power", "short_file", "holes",
               "fsync_error", "short_write", "rot"}

ASSUME WalAssumption ==
  /\ Budget \in Nat /\ MaxSegments \in Nat
  /\ \A r \in Regimes : /\ r.faults \subseteq FaultKinds
                        /\ r.maxFaults \in Nat /\ r.maxRecs \in Nat /\ r.maxLen \in Nat

VARIABLES
  sealed,   \* the sealed segments, oldest first
  origin,   \* stream position of the active segment's first frame
  carry,    \* carried decision frames at the head of the active segment
  body,     \* the active segment's frames as the page cache holds them
  old,      \* body and synced before a truncation that is not yet fsynced
  synced,   \* how many frames of body are certainly on the platter
  head,     \* the stamp the page cache holds
  phead,    \* the stamp certainly on the platter
  dirty,    \* frames were appended behind the last tick
  groups,   \* Wal::open_groups
  mark,     \* LSN the running transaction enlisted at, or NoMark
  job, pc,  \* the call in progress and its next step
  covered,  \* the watermark committed in the table's TABLE record
  parts,    \* records inside the committed parts
  mem,      \* records applied to the table in memory
  pend,     \* records of the running statement or transaction
  mode,     \* "up", "down", or "refused" (the table is quarantined)
  owed,     \* history: records a returned sync acknowledged, less rollbacks
  nextRec,  \* the next record's identity
  faults,   \* faults injected so far
  rotten,   \* history: the file was damaged at rest
  adopted,  \* history: Wal::open took over a stamp or bytes no fsync had covered
  regime    \* the environment of this behaviour, fixed at the start

segVars  == <<sealed, origin, carry, body, old, synced, head, phead>>
callVars == <<dirty, groups, mark, job, pc>>
histVars == <<owed, nextRec, faults, rotten, adopted, regime>>
tabVars  == <<covered, parts, mem, pend>>
vars     == <<segVars, callVars, tabVars, mode, histVars>>

\* What the environment may do, and the bounds on the behaviour.
Faults    == regime.faults
MaxFaults == regime.maxFaults   \* crashes, failed fsyncs, short writes and damage
MaxRecs   == regime.maxRecs     \* records (data and decisions) ever appended
MaxLen    == regime.maxLen      \* stream positions ever used, ticks included

NoMark == -1
NoOld  == [body |-> << >>, synced |-> 0]

\* A frame: what it records, and what can be read back of it.  "half" lost
\* its tail to zeros, "lost" is a run of zeros, "bad" is non-zero bytes that
\* do not check and whose length field claims the frame ends at `claim`.
Frame == [kind : {"data", "decide", "tick"}, id : Nat,
          st : {"ok", "half", "lost", "bad"}, claim : Nat]

Data(i)   == [kind |-> "data",   id |-> i, st |-> "ok", claim |-> 0]
Decide(i) == [kind |-> "decide", id |-> i, st |-> "ok", claim |-> 0]
Tick      == [kind |-> "tick",   id |-> 0, st |-> "ok", claim |-> 0]

Stamps == [durable : Nat, acked : Nat]

Least(a, b)    == IF a <= b THEN a ELSE b
Greatest(a, b) == IF a >= b THEN a ELSE b

\* Records (not ticks) readable in a sequence of frames.
Ids(s) == {s[i].id : i \in {j \in DOMAIN s : s[j].kind # "tick" /\ s[j].st = "ok"}}

\* Wal::len, the stream position the next record gets.
len == origin + Len(body)

\* Wal::is_empty: nothing but carried decisions.
IsEmpty == Len(body) = carry

\* Wal::decisions: the decision frames of the active segment, in order.
DecidedAt == {i \in DOMAIN body : body[i].kind = "decide"}
Decisions == [k \in 1 .. Cardinality(DecidedAt) |->
                body[CHOOSE i \in DecidedAt : Cardinality({j \in DecidedAt : j <= i}) = k]]

Idle == mode = "up" /\ job = "none"

Init ==
  /\ sealed = << >> /\ origin = 0 /\ carry = 0
  /\ body = << >> /\ old = NoOld /\ synced = 0
  /\ head = [durable |-> 0, acked |-> 0] /\ phead = head
  /\ dirty = FALSE /\ groups = 0 /\ mark = NoMark
  /\ job = "none" /\ pc = "none"
  /\ covered = 0 /\ parts = {} /\ mem = {} /\ pend = {}
  /\ mode = "up"
  /\ owed = {} /\ nextRec = 1 /\ faults = 0 /\ rotten = FALSE /\ adopted = FALSE
  /\ regime \in Regimes

-----------------------------------------------------------------------------
(* Reading a segment: Seg::effective, Seg::floor, Seg::tear, walk_seg.      *)
(* Offsets inside a body are counted in half frames so that data can end    *)
(* inside one.                                                              *)

\* data_end: one past the last non-zero half frame.
DataEnd(b) ==
  LET nz == {i \in DOMAIN b : b[i].st # "lost"}
      last == CHOOSE i \in nz : \A j \in nz : j <= i
  IN  IF nz = {} THEN 0
      ELSE IF b[last].st = "half" THEN 2 * last - 1 ELSE 2 * last

At(o, lsn) == 2 * Greatest(lsn - o, 0)

\* Seg::effective, of a stamp that verifies.  A stamp that does not, and only
\* damage to the header makes one, is left out here and below: it forgives no
\* frame that does not parse and sets no floor.
Effective(o, b, h, isSealed) ==
  IF isSealed THEN At(o, h.durable) ELSE Least(At(o, h.durable), DataEnd(b))

\* Where the length field of frame i says the frame ends.
ClaimedEnd(b, i) ==
  CASE b[i].st = "bad"  -> 2 * b[i].claim
    [] b[i].st = "lost" -> 2 * i - 1
    [] OTHER            -> 2 * i

\* Mutant: a tear is only what lies past the stamp, whatever the file holds.
TearPastStamp(o, b, h, isSealed, i) == 2 * (i - 1) >= At(o, h.durable)

\* Seg::tear: frame i, which does not parse, is an interrupted append.
Tear(o, b, h, isSealed, i) ==
  \/ 2 * (i - 1) >= Effective(o, b, h, isSealed)
  \/ /\ ~isSealed
     /\ ClaimedEnd(b, i) > DataEnd(b)
     /\ ClaimedEnd(b, i) <= At(o, h.durable)

FirstBad(b, from) ==
  LET bad == {i \in DOMAIN b : i > from /\ b[i].st # "ok"}
  IN  IF bad = {} THEN Len(b) + 1 ELSE CHOOSE i \in bad : \A j \in bad : i <= j

\* The frame the walk stops after, from frame `from` on.
Walked(b, from) == FirstBad(b, from) - 1

\* Mutant: the active segment has no floor.
FloorSealedOnly(o, h, isSealed) == IF isSealed THEN At(o, h.durable) ELSE 0

\* Seg::floor: data below it was acknowledged and must still be there.
Floor(o, h, isSealed) == IF isSealed THEN At(o, h.durable) ELSE At(o, h.acked)

\* walk_seg returns Ok: what stopped it is a tear, and not below the floor.
WalkOk(o, b, h, isSealed, from) ==
  LET stop == Walked(b, from)
  IN  /\ stop < Len(b) => Tear(o, b, h, isSealed, stop + 1)
      /\ 2 * stop >= Floor(o, h, isSealed)

\* Mutant: replay skips the first frame behind the watermark.
StartInSkipping(o, b, from) == Least(Greatest(from - o + 1, 0), Len(b))

\* The frame replay starts at in a segment of origin o.
StartIn(o, b, from) == Least(Greatest(from - o, 0), Len(b))

\* The sealed segments replay reads: those not wholly below the watermark.
Successor(i) == IF i = Len(sealed) THEN origin ELSE sealed[i + 1].origin
Replayable   == {i \in DOMAIN sealed : Successor(i) > covered}

\* Wal::replay_from accepts the stream from the TABLE watermark on.
ReplayOk ==
  /\ \A i \in Replayable :
       LET s == sealed[i]
       IN  /\ s.origin + Len(s.body) = Successor(i)
           /\ WalkOk(s.origin, s.body, s.head, TRUE,
                     StartIn(s.origin, s.body, covered))
  /\ WalkOk(origin, body, head, FALSE, StartIn(origin, body, covered))
  /\ covered <= len

\* The records it hands back.
Replayed ==
  (UNION {Ids(SubSeq(sealed[i].body,
                     1 + StartIn(sealed[i].origin, sealed[i].body, covered),
                     Len(sealed[i].body))) : i \in Replayable})
  \cup Ids(SubSeq(body, 1 + StartIn(origin, body, covered),
                  Walked(body, StartIn(origin, body, covered))))

-----------------------------------------------------------------------------
(* The calls of one log.  A call that fsyncs runs tick, stamp and barrier   *)
(* as separate steps, because a crash may come between any two of them.     *)

\* append_framed: one frame at the end, or nothing (bound) if there is no room.
Push(f) ==
  /\ len < MaxLen
  /\ body' = Append(body, f)
  /\ dirty' = TRUE

NewRecord == nextRec <= MaxRecs /\ nextRec' = nextRec + 1

\* Session::log_insert, log_deletes, log_masks outside a transaction: append
\* the record and sync it before the statement is applied and acknowledged.
AppendPlain ==
  /\ Idle /\ mark = NoMark
  /\ NewRecord
  /\ Push(Data(nextRec))
  /\ pend' = {nextRec}
  /\ job' = "sync" /\ pc' = "tick"
  /\ UNCHANGED <<sealed, origin, carry, old, synced, head, phead, groups, mark,
                 covered, parts, mem, mode, owed, faults, rotten, adopted, regime>>

\* Session::enlist: Wal::begin and Wal::lsn.
Begin ==
  /\ Idle /\ mark = NoMark
  /\ nextRec <= MaxRecs
  /\ groups' = groups + 1
  /\ mark' = len
  /\ pend' = {}
  /\ UNCHANGED <<segVars, dirty, job, pc, covered, parts, mem, mode, histVars>>

\* append_*_staged: logged under the group, not synced.
AppendStaged ==
  /\ Idle /\ mark # NoMark /\ groups > 0
  /\ NewRecord
  /\ Push(Data(nextRec))
  /\ pend' = pend \cup {nextRec}
  /\ UNCHANGED <<sealed, origin, carry, old, synced, head, phead, groups, mark,
                 job, pc, covered, parts, mem, mode, owed, faults, rotten, adopted, regime>>

\* Wal::commit or Wal::prepare (a data frame) and Wal::decide: append the
\* marker, close the group, and sync.
CloseGroup(f) ==
  /\ Idle /\ mark # NoMark /\ groups > 0 /\ pend # {}
  /\ NewRecord
  /\ Push(f)
  /\ groups' = groups - 1
  /\ pend' = pend \cup {nextRec}
  /\ job' = "sync" /\ pc' = "tick"
  /\ UNCHANGED <<sealed, origin, carry, old, synced, head, phead, mark,
                 covered, parts, mem, mode, owed, faults, rotten, adopted, regime>>

\* The transaction's decision is durable: its tables are published.
EndTxn ==
  /\ Idle /\ mark # NoMark /\ groups = 0 /\ pend = {}
  /\ mark' = NoMark
  /\ UNCHANGED <<segVars, dirty, groups, job, pc, tabVars, mode, histVars>>

\* Mutant: the group is not dropped.
DropGroupNot == groups

\* Wal::drop_group.
DropGroup == Greatest(groups - 1, 0)

\* Wal::rewind_to the transaction's LSN, for ROLLBACK and for a COMMIT that
\* failed; the stamp comes down and the truncation is fsynced in the next steps.
Rewind ==
  /\ mode = "up" /\ job \in {"none", "abort"} /\ mark # NoMark
  /\ groups' = DropGroup
  /\ mark' = NoMark /\ pend' = {}
  /\ \/ /\ mark >= len
        /\ job' = "none" /\ pc' = "none"
        /\ UNCHANGED <<body, old, synced, owed, mem>>
     \/ /\ mark < len /\ mark >= origin + carry
        /\ LET gone == Ids(SubSeq(body, mark - origin + 1, Len(body)))
           IN  owed' = owed \ gone /\ mem' = mem \ gone
        /\ old' = [body |-> body, synced |-> synced]
        /\ body' = SubSeq(body, 1, mark - origin)
        /\ synced' = Least(synced, mark - origin)
        /\ job' = "rewind" /\ pc' = "stamp"
  /\ UNCHANGED <<sealed, origin, carry, head, phead, dirty, covered, parts,
                 mode, nextRec, faults, rotten, adopted, regime>>

\* A write_all that fails part-way leaves its bytes; len is read back from
\* the file.  The statement fails; a transaction it poisons can only roll back,
\* an autocommit statement leaves the bytes where they are.
ShortWrite ==
  /\ Idle /\ "short_write" \in Faults /\ faults < MaxFaults
  /\ NewRecord
  /\ len < MaxLen
  /\ mark # NoMark => groups > 0
  /\ body' = Append(body, [kind |-> "data", id |-> nextRec, st |-> "bad",
                           claim |-> Len(body) + 2])
  /\ job' = IF mark = NoMark THEN "none" ELSE "abort"
  /\ faults' = faults + 1
  /\ UNCHANGED <<sealed, origin, carry, old, synced, head, phead, dirty, groups,
                 mark, pc, tabVars, mode, owed, rotten, adopted, regime>>

\* The same failure inside Session::insert_unique, whose `?` returns between
\* Wal::begin and the record: the group it opened stays open.
ShortWriteUnique ==
  /\ Idle /\ "short_write" \in Faults /\ faults < MaxFaults
  /\ mark = NoMark
  /\ NewRecord
  /\ len < MaxLen
  /\ groups' = groups + 1
  /\ body' = Append(body, [kind |-> "data", id |-> nextRec, st |-> "bad",
                           claim |-> Len(body) + 2])
  /\ faults' = faults + 1
  /\ UNCHANGED <<sealed, origin, carry, old, synced, head, phead, dirty, mark,
                 job, pc, tabVars, mode, owed, rotten, adopted, regime>>

\* Wal::tick, when something is dirty.
TickStep ==
  /\ mode = "up" /\ pc = "tick"
  /\ \/ dirty /\ len < MaxLen /\ body' = Append(body, Tick)
     \/ ~dirty /\ body' = body
  /\ dirty' = FALSE
  /\ pc' = "stamp"
  /\ UNCHANGED <<sealed, origin, carry, old, synced, head, phead, groups, mark,
                 job, tabVars, mode, histVars>>

\* Wal::put_stamp.
Stamped(h, to) ==
  IF to = h.durable THEN h
  ELSE [durable |-> to,
        acked   |-> IF to > h.durable THEN h.durable ELSE Least(h.acked, to)]

\* A sync stamps the stream end; a truncation only ever lowers the stamp.
StampStep ==
  /\ mode = "up" /\ pc = "stamp"
  /\ head' = Stamped(head, IF job \in {"rewind", "open"}
                           THEN Least(head.durable, len) ELSE len)
  /\ pc' = "barrier"
  /\ UNCHANGED <<sealed, origin, carry, body, old, synced, phead, dirty, groups,
                 mark, job, tabVars, mode, histVars>>

\* Wal::barrier returns: the file and its stamp are on the platter.  For a
\* sync this is the instant the statement is acknowledged.
Barrier ==
  /\ mode = "up" /\ pc = "barrier"
  /\ synced' = Len(body) /\ phead' = head /\ old' = NoOld
  /\ \/ /\ job = "sync"
        /\ owed' = owed \cup pend /\ mem' = mem \cup pend /\ pend' = {}
        /\ job' = "none" /\ pc' = "none"
     \/ /\ job \in {"rewind", "open"}
        /\ job' = "none" /\ pc' = "none"
        /\ UNCHANGED <<owed, mem, pend>>
     \/ /\ job \in {"roll_keep", "roll_drop"}
        /\ pc' = "publish"
        /\ UNCHANGED <<job, owed, mem, pend>>
  /\ UNCHANGED <<sealed, origin, carry, body, head, dirty, groups, mark,
                 covered, parts, mode, nextRec, faults, rotten, adopted, regime>>

\* The fsync of a sync or a roll fails: the caller gets the error, a COMMIT
\* rolls back, and nothing more is known to be on the platter.  The fsyncs of a
\* rewind and of Wal::open do not fail here, and the next fsync that returns
\* covers the whole file: a kernel that drops the dirty pages of a failed one
\* is not modelled.
BarrierFails ==
  /\ mode = "up" /\ pc = "barrier" /\ job \in {"sync", "roll_keep", "roll_drop"}
  /\ "fsync_error" \in Faults /\ faults < MaxFaults
  /\ faults' = faults + 1
  /\ pend' = {}
  /\ job' = (IF mark = NoMark THEN "none" ELSE "abort") /\ pc' = "none"
  /\ UNCHANGED <<segVars, dirty, groups, mark, covered, parts, mem, mode,
                 owed, nextRec, rotten, adopted, regime>>

-----------------------------------------------------------------------------
(* Checkpoint and fold: Wal::roll, Wal::prune, then the TABLE commit.       *)

\* Session::fold_to_parts / store::save_catalog reach this table, between
\* statements.  `cited` is Wal::may_be_cited: some sibling log may hold a
\* prepare that cites a decision of this one.  A log that holds nothing, or
\* only decisions that have to stay, is not rolled; a dirty one is synced.
Kept(cited) == IF cited THEN Decisions ELSE << >>

BeginFold(cited) ==
  /\ Idle /\ mark = NoMark /\ groups = 0
  /\ job' = IF cited THEN "roll_keep" ELSE "roll_drop"
  /\ pc' = IF IsEmpty /\ (carry = 0 \/ Kept(cited) # << >>) THEN "table_idle"
           ELSE IF dirty THEN "tick" ELSE "publish"
  /\ UNCHANGED <<segVars, dirty, groups, mark, tabVars, mode, histVars>>

\* How many of the oldest sealed segments prune unlinks, given that the active
\* segment starts at `to` and the roll has just set folded to it.
Over(s, to, k) ==
  k < Len(s) /\ (to - s[k + 1].origin > Budget \/ Len(s) - k > MaxSegments)
Prunable(s, to) ==
  CHOOSE k \in 0 .. Len(s) : ~Over(s, to, k) /\ \A j \in 0 .. k - 1 : Over(s, to, j)

\* The rest of Wal::roll: publish the successor with the decisions that must
\* stay citable, and prune.
Publish ==
  LET kept == Kept(job = "roll_keep")
      all  == Append(sealed, [origin |-> origin, body |-> body, synced |-> synced,
                              head |-> head, phead |-> phead])
      stmp == [durable |-> len + Len(kept), acked |-> len + Len(kept)]
  IN
  /\ mode = "up" /\ pc = "publish"
  /\ len + Len(kept) <= MaxLen
  /\ pc' = "table"
  /\ sealed' = SubSeq(all, 1 + Prunable(all, len), Len(all))
  /\ origin' = len /\ carry' = Len(kept)
  /\ body' = kept /\ synced' = Len(kept) /\ old' = NoOld
  /\ head' = stmp /\ phead' = stmp
  /\ dirty' = FALSE
  /\ UNCHANGED <<groups, mark, job, tabVars, mode, histVars>>

\* set_wal_committed: the watermark is the origin the roll produced.  For a log
\* that was not rolled a fold records the origin, a checkpoint the stream end.
Watermark == {origin} \cup (IF pc = "table_idle" THEN {len} ELSE {})

\* writer::write_table commits the TABLE record: the rows in memory are in parts.
CommitTable ==
  /\ mode = "up" /\ pc \in {"table", "table_idle"}
  /\ covered' \in Watermark
  /\ parts' = mem
  /\ job' = "none" /\ pc' = "none"
  /\ UNCHANGED <<segVars, dirty, groups, mark, mem, pend, mode, histVars>>

-----------------------------------------------------------------------------
(* Faults and recovery.                                                     *)

GoDown ==
  /\ mode' = "down"
  /\ faults' = faults + 1
  /\ job' = "none" /\ pc' = "none" /\ groups' = 0 /\ mark' = NoMark
  /\ dirty' = FALSE /\ mem' = {} /\ pend' = {}
  /\ UNCHANGED <<covered, parts, owed, nextRec, rotten, adopted, regime>>

\* kill -9: the page cache survives.
Kill ==
  /\ mode = "up" /\ "kill" \in Faults /\ faults < MaxFaults
  /\ GoDown
  /\ UNCHANGED segVars

\* What a power loss can leave of a file whose first k frames are on the
\* platter: the others were written back, torn or left as zeros, in file order
\* unless "holes", at full length unless "short_file".
Survivors(b, k) ==
  LET lengths == IF "short_file" \in Faults THEN k .. Len(b) ELSE {Len(b)}
      InOrder(n) == {[i \in k + 1 .. n |->
                        IF i <= m THEN "ok" ELSE IF i = m + 1 THEN st ELSE "lost"]
                     : m \in k .. n, st \in {"half", "lost"}}
      Fates(n) == IF "holes" \in Faults
                  THEN [k + 1 .. n -> {"ok", "half", "lost"}] ELSE InOrder(n)
  IN  UNION {{[i \in 1 .. n |-> IF i > k /\ b[i].st = "ok"
                                THEN [b[i] EXCEPT !.st = f[i]] ELSE b[i]]
              : f \in Fates(n)} : n \in lengths}

Left(s, b, h) == [s EXCEPT !.body = b, !.synced = Len(b), !.head = h, !.phead = h]
SealedSurvivors(s) ==
  {Left(s, b, h) : b \in Survivors(s.body, s.synced), h \in {s.head, s.phead}}

\* Sealed segments whose file or stamp is not all on the platter.
Unsettled == {i \in DOMAIN sealed :
                sealed[i].synced < Len(sealed[i].body) \/ sealed[i].head # sealed[i].phead}

PowerLoss ==
  /\ mode = "up" /\ "power" \in Faults /\ faults < MaxFaults
  /\ GoDown
  /\ \E src \in {[body |-> body, synced |-> synced]}
                  \cup (IF old # NoOld THEN {old} ELSE {}) :
       body' \in Survivors(src.body, src.synced)
  /\ synced' = Len(body') /\ old' = NoOld
  /\ \E h \in {head, phead} : head' = h /\ phead' = h
  /\ sealed' \in {g \in [DOMAIN sealed ->
                           (UNION {SealedSurvivors(sealed[i]) : i \in Unsettled})
                             \cup {sealed[i] : i \in DOMAIN sealed}] :
                    \A i \in DOMAIN sealed :
                      g[i] \in IF i \in Unsettled THEN SealedSurvivors(sealed[i])
                               ELSE {sealed[i]}}
  /\ UNCHANGED <<origin, carry>>

\* A frame damaged at rest: non-zero bytes, and a length that may claim to end
\* anywhere at or after the frame's own end.
Damaged(b, i, c) == [b EXCEPT ![i].st = "bad", ![i].claim = c]

Rot ==
  /\ mode = "down" /\ "rot" \in Faults /\ faults < MaxFaults
  /\ \/ /\ \E i \in DOMAIN body :
             \E c \in i .. Len(body) + 1 : body' = Damaged(body, i, c)
        /\ UNCHANGED sealed
     \/ /\ \E k \in DOMAIN sealed : \E i \in DOMAIN sealed[k].body :
             \E c \in i .. Len(sealed[k].body) + 1 :
               sealed' = [sealed EXCEPT ![k].body = Damaged(@, i, c)]
        /\ UNCHANGED body
     \* a hole that swallows the body from below `acked` on
     \/ /\ \E i \in DOMAIN body :
             /\ origin + i <= head.acked
             /\ body' = [j \in DOMAIN body |->
                           IF j < i THEN body[j] ELSE [body[j] EXCEPT !.st = "lost"]]
        /\ UNCHANGED sealed
  /\ rotten' = TRUE
  /\ faults' = faults + 1
  /\ UNCHANGED <<origin, carry, old, synced, head, phead, callVars, tabVars,
                 mode, owed, nextRec, adopted, regime>>

\* The stamp and the bytes behind it are all on the platter.
Settled == synced = Len(body) /\ old = NoOld /\ head = phead /\ head.durable <= len

\* store::load_catalog replays the log from the watermark; Wal::open then
\* truncates the torn tail.  What either refuses quarantines the table.
Recover ==
  /\ mode = "down"
  /\ \/ /\ ~(ReplayOk /\ WalkOk(origin, body, head, FALSE, 0))
        /\ mode' = "refused"
        /\ UNCHANGED <<segVars, callVars, mem, adopted>>
     \/ /\ ReplayOk /\ WalkOk(origin, body, head, FALSE, 0)
        /\ mode' = "up"
        /\ mem' = parts \cup Replayed
        /\ LET good == Walked(body, 0)
           IN  /\ body' = SubSeq(body, 1, good)
               /\ dirty' = (good > 0 /\ body[good].kind # "tick")
               /\ \/ /\ good < Len(body)
                     /\ old' = [body |-> body, synced |-> synced]
                     /\ synced' = Least(synced, good)
                     /\ job' = "open" /\ pc' = "stamp"
                     /\ UNCHANGED adopted
                  \/ /\ good = Len(body)
                     /\ adopted' = (adopted \/ ~Settled)
                     /\ UNCHANGED <<old, synced, job, pc>>
        /\ UNCHANGED <<sealed, origin, carry, head, phead, groups, mark>>
  /\ UNCHANGED <<covered, parts, pend, owed, nextRec, faults, rotten, regime>>

Next ==
  \/ AppendPlain \/ Begin \/ AppendStaged
  \/ CloseGroup(Data(nextRec)) \/ CloseGroup(Decide(nextRec))
  \/ EndTxn \/ Rewind \/ ShortWrite \/ ShortWriteUnique
  \/ TickStep \/ StampStep \/ Barrier \/ BarrierFails
  \/ (\E cited \in BOOLEAN : BeginFold(cited)) \/ Publish \/ CommitTable
  \/ Kill \/ PowerLoss \/ Rot \/ Recover

Spec == Init /\ [][Next]_vars

-----------------------------------------------------------------------------
\* No silent loss: whatever crashes, failed fsyncs or damage at rest came
\* before, if a replay of the log (at rest) succeeds then every record a returned sync
\* acknowledged, and no rollback erased, is in the committed parts or comes
\* back from that replay (walk_seg, Seg::tear, Seg::floor, Wal::open).
NoSilentLoss ==
  Idle /\ ReplayOk => owed \subseteq parts \cup Replayed

\* An honest crash is never reported as corruption: while the disk keeps what
\* it acknowledged and writes a file in order, only a file damaged at rest
\* quarantines its table (Seg::tear, walk_seg).  The exception is a log that
\* Wal::open once took over although a crash had left its stamp, or bytes below
\* it, off the platter: put_stamp then makes a floor of what no fsync covered.
NoFalseAlarm ==
  Faults \cap {"holes", "fsync_error", "short_write"} = {} /\ mode = "refused"
    => rotten \/ adopted

\* A log with no transaction running can be folded, as long as no append has
\* failed: no staging group is open (the guard of Wal::roll).
FoldableWhenIdle == "short_write" \notin Faults /\ Idle /\ mark = NoMark => groups = 0

====
