----------------------------- MODULE PoolProofs -----------------------------
(***************************************************************************)
(* Proofs about Pool, for every set of workers and callers and every bound *)
(* on calls and items; and, in the second half, about Budget, the memory   *)
(* that the workers of one query share, for every number of workers, every *)
(* limit and every sequence of sizes they ask for.                         *)
(***************************************************************************)
EXTENDS Pool, FiniteSetTheorems, TLAPS

Running(t, s, i) == phase[t] = "run" /\ on[t] = s /\ item[t] = i
HelpersOf(s) == {w \in Workers : on[w] = s}

\* A job is on the list once.
ListDistinct ==
    \A k, l \in 1 .. Len(jobs) : jobs[k] = jobs[l] => k = l

\* A listed job belongs to a call that has not retired.
ListedOpen ==
    \A k \in 1 .. Len(jobs) : phase[jobs[k]] \in {"wake", "claim", "run", "retire"}

\* Inside a call, a caller works on its own job.
OnCaller ==
    \A s \in Callers : on[s] = IF phase[s] = "idle" THEN None ELSE s

\* A worker holds a job exactly between its announcement and its goodbye.
OnWorker ==
    \A w \in Workers : on[w] # None <=> phase[w] \in {"claim", "run", "clear"}

\* The job a worker holds belongs to a call in progress.
HeldIsLive ==
    \A w \in Workers : on[w] # None => phase[on[w]] # "idle"

\* active counts the workers that hold the job.
ActiveCount ==
    \A s \in Callers : job[s].active = Cardinality(HelpersOf(s))

\* A running thread has claimed the index it runs.
InFlight ==
    \A t \in Threads :
        phase[t] = "run" =>
            /\ item[t] \in Indices
            /\ item[t] < job[on[t]].next
            /\ item[t] < job[on[t]].n

\* Two threads never run the same index of the same job.
OneRunner ==
    \A t, u \in Threads :
        phase[t] = "run" /\ phase[u] = "run" /\ on[t] = on[u] /\ item[t] = item[u] => t = u

\* A claimed index that nobody is running was run once; the others were not.
RanCount ==
    \A s \in Callers : \A i \in Indices :
        job[s].ran[i] =
            IF i < job[s].next /\ i < job[s].n /\ ~\E t \in Threads : Running(t, s, i)
            THEN 1 ELSE 0

\* A caller leaves its drain when no index is left.
Exhausted ==
    \A s \in Callers :
        phase[s] \in {"retire", "retired", "waiting"} => job[s].next >= job[s].n

IInv ==
    /\ TypeOK
    /\ ListDistinct
    /\ ListedOpen
    /\ OnCaller
    /\ OnWorker
    /\ HeldIsLive
    /\ ActiveCount
    /\ InFlight
    /\ OneRunner
    /\ RanCount
    /\ Exhausted


(***************************************************************************)
(* Facts the cases below share.                                            *)
(***************************************************************************)
\* The callers and the workers are different threads, and None is no thread.
LEMMA Roles ==
    /\ \A w \in Workers : w \in Threads /\ w \notin Callers
    /\ \A s \in Callers : s \in Threads /\ s \notin Workers
    /\ \A t \in Threads : t \in Workers \/ t \in Callers
    /\ None \notin Callers
    /\ \A i \in Indices : i \in Nat /\ i # None
  BY PoolAssumption DEF Threads, Indices

\* The list holds callers.
LEMMA ListHoldsCallers ==
    ASSUME TypeOK
    PROVE  Len(jobs) \in Nat /\ \A k \in 1 .. Len(jobs) : jobs[k] \in Callers
  <1>1. jobs \in Seq(Callers)
    BY DEF TypeOK
  <1> QED
    BY <1>1

\* The helpers of a job are finitely many.
LEMMA HelpersFinite ==
    \A s : IsFiniteSet(HelpersOf(s)) /\ Cardinality(HelpersOf(s)) \in Nat
  BY PoolAssumption, FS_Subset, FS_CardinalityType DEF HelpersOf

\* A job nobody holds counts no helper, and the other way round.
LEMMA QuietMeansNobody ==
    ASSUME TypeOK, ActiveCount, NEW s \in Callers
    PROVE  Quiet(s) <=> \A w \in Workers : on[w] # s
  <1>1. job[s].active = 0 <=> HelpersOf(s) = {}
    BY HelpersFinite, FS_EmptySet DEF ActiveCount
  <1> QED
    BY <1>1 DEF HelpersOf, Quiet

\* The initial state satisfies the invariant (Pool::with_threads).
LEMMA InitIInv == Init => IInv
  <1> SUFFICES ASSUME Init PROVE IInv
    OBVIOUS
  <1> USE Roles DEF Init
  <1>1. NewJob(0) \in Jobs
    BY PoolAssumption DEF NewJob, Jobs
  <1>2. TypeOK
    BY <1>1 DEF TypeOK, CallerPhases, WorkerPhases
  <1>3. ListDistinct /\ ListedOpen
    BY DEF ListDistinct, ListedOpen
  <1>4. OnCaller /\ OnWorker /\ HeldIsLive
    BY DEF OnCaller, OnWorker, HeldIsLive, Threads
  <1>5. ActiveCount
    <2>1. \A s \in Callers : HelpersOf(s) = {}
      BY DEF HelpersOf, Threads
    <2> QED
      BY <2>1, FS_EmptySet DEF ActiveCount, NewJob
  <1>6. InFlight /\ OneRunner /\ Exhausted
    BY DEF InFlight, OneRunner, Exhausted, Threads
  <1>7. RanCount
    <2> SUFFICES ASSUME NEW s \in Callers, NEW i \in Indices
                 PROVE  job[s].ran[i] = 0 /\ ~(i < job[s].next)
      BY DEF RanCount
    <2>1. i \in Nat /\ ~(i < 0)
      BY DEF Indices
    <2>2. job[s] = NewJob(0)
      OBVIOUS
    <2> QED
      BY <2>1, <2>2 DEF NewJob
  <1> QED
    BY <1>2, <1>3, <1>4, <1>5, <1>6, <1>7 DEF IInv

(***************************************************************************)
(* Steps that only move threads between phases in which they hold nothing. *)
(***************************************************************************)
Harmless(p, q) ==
    \/ p = q
    \/ p \in {"look", "parked", "exited"} /\ q \in {"look", "parked", "exited"}
    \/ p = "wake" /\ q = "claim"
    \/ p = "retired" /\ q = "waiting"
    \/ p = "waiting" /\ q = "retired"

\* Such moves keep the invariant (Notify, StartDrain, WaitDone, Park, Exit,
\* SpuriousWakeup, NotifyAll).
LEMMA HarmlessMoves ==
    ASSUME IInv, TypeOK',
           UNCHANGED <<jobs, job, on, item>>,
           \A t \in Threads : Harmless(phase[t], phase'[t])
    PROVE  IInv'
  <1> USE Roles DEF IInv
  <1>1. /\ \A s \in Callers : (phase'[s] = "idle") <=> (phase[s] = "idle")
        /\ \A t \in Threads : (phase'[t] = "run") <=> (phase[t] = "run")
    BY DEF Harmless
  <1>2. ListDistinct' /\ HeldIsLive' /\ OnCaller'
    BY <1>1 DEF ListDistinct, HeldIsLive, OnCaller, TypeOK
  <1>3. ListedOpen'
    <2> SUFFICES ASSUME NEW k \in 1 .. Len(jobs)
                 PROVE  phase'[jobs[k]] \in {"wake", "claim", "run", "retire"}
      BY DEF ListedOpen
    <2>1. jobs[k] \in Callers
      BY DEF TypeOK
    <2>2. phase[jobs[k]] \in {"wake", "claim", "run", "retire"}
      BY DEF ListedOpen
    <2>3. Harmless(phase[jobs[k]], phase'[jobs[k]])
      BY <2>1
    <2> QED
      BY <2>2, <2>3 DEF Harmless
  <1>4. OnWorker'
    <2> SUFFICES ASSUME NEW w \in Workers
                 PROVE  (phase'[w] \in {"claim", "run", "clear"}) <=> (phase[w] \in {"claim", "run", "clear"})
      BY DEF OnWorker
    <2> QED
      BY DEF Harmless, TypeOK, WorkerPhases
  <1>5. ActiveCount'
    BY DEF ActiveCount, HelpersOf
  <1>6. InFlight' /\ OneRunner'
    BY <1>1 DEF InFlight, OneRunner
  <1>7. RanCount'
    BY <1>1 DEF RanCount, Running
  <1>8. Exhausted'
    BY DEF Exhausted, Harmless, TypeOK, CallerPhases
  <1> QED
    BY <1>2, <1>3, <1>4, <1>5, <1>6, <1>7, <1>8

\* A caller's quiet steps are harmless moves.
LEMMA QuietCallerSteps ==
    ASSUME IInv, NEW s \in Callers,
           Notify(s) \/ StartDrain(s) \/ WaitDone(s)
    PROVE  IInv'
  <1> USE Roles DEF Goto
  <1>1. CASE Notify(s)
    <2>0. phase' = phase \/ \E u \in Workers : phase[u] = "parked" /\ phase' = [phase EXCEPT ![u] = "look"]
      BY <1>1 DEF Notify, Parked
    <2>1. TypeOK'
      <3>1. wakes' \in [Callers -> Nat]
        BY <1>1 DEF Notify, IInv, TypeOK
      <3>2. phase' \in [Threads -> CallerPhases \cup WorkerPhases]
        BY <2>0 DEF IInv, TypeOK, WorkerPhases
      <3>3. \A r \in Callers : phase'[r] \in CallerPhases
        BY <2>0 DEF IInv, TypeOK
      <3>4. \A v \in Workers : phase'[v] \in WorkerPhases
        BY <2>0 DEF IInv, TypeOK, WorkerPhases
      <3> QED
        BY <1>1, <3>1, <3>2, <3>3, <3>4 DEF Notify, IInv, TypeOK
    <2>2. \A u \in Threads : Harmless(phase[u], phase'[u])
      BY <2>0 DEF IInv, TypeOK, Harmless
    <2> QED
      BY <1>1, <2>1, <2>2, HarmlessMoves DEF Notify
  <1>2. CASE StartDrain(s)
    <2>1. TypeOK'
      BY <1>2 DEF StartDrain, IInv, TypeOK, WorkerPhases, CallerPhases
    <2>2. \A u \in Threads : Harmless(phase[u], phase'[u])
      BY <1>2 DEF StartDrain, IInv, TypeOK, Harmless
    <2> QED
      BY <1>2, <2>1, <2>2, HarmlessMoves DEF StartDrain
  <1>3. CASE WaitDone(s)
    <2>1. TypeOK'
      BY <1>3 DEF WaitDone, IInv, TypeOK, WorkerPhases, CallerPhases
    <2>2. \A u \in Threads : Harmless(phase[u], phase'[u])
      BY <1>3 DEF WaitDone, IInv, TypeOK, Harmless
    <2> QED
      BY <1>3, <2>1, <2>2, HarmlessMoves DEF WaitDone
  <1> QED
    BY <1>1, <1>2, <1>3

\* So are a worker's.
LEMMA QuietWorkerSteps ==
    ASSUME IInv, NEW w \in Workers, Park(w) \/ Exit(w)
    PROVE  IInv'
  <1> USE Roles DEF Goto
  <1>1. CASE Park(w)
    <2>1. TypeOK'
      BY <1>1 DEF Park, IInv, TypeOK, WorkerPhases, CallerPhases
    <2>2. \A u \in Threads : Harmless(phase[u], phase'[u])
      BY <1>1 DEF Park, IInv, TypeOK, Harmless
    <2> QED
      BY <1>1, <2>1, <2>2, HarmlessMoves DEF Park
  <1>2. CASE Exit(w)
    <2>1. TypeOK'
      BY <1>2 DEF Exit, IInv, TypeOK, WorkerPhases, CallerPhases
    <2>2. \A u \in Threads : Harmless(phase[u], phase'[u])
      BY <1>2 DEF Exit, IInv, TypeOK, Harmless
    <2> QED
      BY <1>2, <2>1, <2>2, HarmlessMoves DEF Exit
  <1> QED
    BY <1>1, <1>2

\* So is a spurious wake-up.
LEMMA QuietThreadSteps ==
    ASSUME IInv, NEW t \in Threads, SpuriousWakeup(t)
    PROVE  IInv'
  <1> USE Roles DEF Goto
  <1>1. CASE SpuriousWakeup(t)
    <2>1. TypeOK'
      BY <1>1 DEF SpuriousWakeup, IInv, TypeOK, WorkerPhases, CallerPhases
    <2>2. \A u \in Threads : Harmless(phase[u], phase'[u])
      BY <1>1 DEF SpuriousWakeup, IInv, TypeOK, Harmless
    <2> QED
      BY <1>1, <2>1, <2>2, HarmlessMoves DEF SpuriousWakeup
  <1> QED
    BY <1>1

\* So are the steps of Pool::drop.
LEMMA QuietDropSteps ==
    ASSUME IInv, Shutdown \/ NotifyAll
    PROVE  IInv'
  <1> USE Roles DEF Goto
  <1>1. CASE Shutdown
    <2>1. TypeOK'
      BY <1>1 DEF Shutdown, IInv, TypeOK
    <2>2. \A u \in Threads : Harmless(phase[u], phase'[u])
      BY <1>1 DEF Shutdown, Harmless
    <2> QED
      BY <1>1, <2>1, <2>2, HarmlessMoves DEF Shutdown
  <1>2. CASE NotifyAll
    <2>1. TypeOK'
      BY <1>2 DEF NotifyAll, IInv, TypeOK, WorkerPhases, CallerPhases
    <2>2. \A u \in Threads : Harmless(phase[u], phase'[u])
      BY <1>2 DEF NotifyAll, Harmless
    <2> QED
      BY <1>2, <2>1, <2>2, HarmlessMoves DEF NotifyAll
  <1> QED
    BY <1>1, <1>2

(***************************************************************************)
(* A call enters and leaves.                                               *)
(***************************************************************************)
\* Entering keeps the invariant (Pool::run up to the first claim): nobody
\* holds the frame the new job is written to.
LEMMA EnterStep ==
    ASSUME IInv, NEW s \in Callers, NEW n \in 1 .. MaxItems,
           CallSerial(s, n) \/ Publish(s, n)
    PROVE  IInv'
  <1> USE Roles DEF IInv
  <1>1. /\ phase[s] = "idle"
        /\ job' = [job EXCEPT ![s] = NewJob(n)]
        /\ on' = [on EXCEPT ![s] = s]
        /\ item' = item
        /\ \/ jobs' = jobs /\ phase' = [phase EXCEPT ![s] = "claim"]
           \/ jobs' = Append(jobs, s) /\ phase' = [phase EXCEPT ![s] = "wake"]
    BY DEF CallSerial, Publish, Enter, Goto
  <1>2. TypeOK'
    <2>1. NewJob(n) \in Jobs
      BY PoolAssumption DEF NewJob, Jobs
    <2>2. Least(n - 1, Cardinality(Workers)) \in Nat
      BY PoolAssumption, FS_CardinalityType DEF Least
    <2>3. job' \in [Callers -> Jobs] /\ jobs' \in Seq(Callers)
      <3>1. jobs \in Seq(Callers) /\ job \in [Callers -> Jobs]
        BY DEF TypeOK
      <3>2. Append(jobs, s) \in Seq(Callers)
        BY <3>1
      <3> QED
        BY <1>1, <2>1, <3>1, <3>2
    <2>4. calls' \in [Callers -> Nat] /\ wakes' \in [Callers -> Nat] /\ shutdown' = shutdown
      <3>1. calls \in [Callers -> Nat] /\ wakes \in [Callers -> Nat]
        BY DEF TypeOK
      <3>2. calls' = [calls EXCEPT ![s] = @ + 1] /\ shutdown' = shutdown
        BY DEF CallSerial, Publish, Enter
      <3>3. \/ wakes' = wakes
            \/ wakes' = [wakes EXCEPT ![s] = Least(n - 1, Cardinality(Workers))]
        BY DEF CallSerial, Publish
      <3> QED
        BY <2>2, <3>1, <3>2, <3>3
    <2> QED
      BY <1>1, <2>3, <2>4, ZenonT(30) DEF TypeOK, CallerPhases, WorkerPhases
  <1>3. /\ \A w \in Workers : on[w] # s
        /\ \A k \in 1 .. Len(jobs) : jobs[k] # s
    BY <1>1 DEF HeldIsLive, ListedOpen
  <1>4. /\ phase'[s] \in {"claim", "wake"}
        /\ \A t \in Threads \ {s} : phase'[t] = phase[t] /\ on'[t] = on[t]
        /\ \A r \in Callers \ {s} : job'[r] = job[r]
        /\ job'[s] = NewJob(n)
        /\ on'[s] = s
    BY <1>1 DEF TypeOK
  <1>5. \/ jobs' = jobs
        \/ /\ Len(jobs') = Len(jobs) + 1
           /\ jobs'[Len(jobs) + 1] = s
           /\ \A k \in 1 .. Len(jobs) : jobs'[k] = jobs[k]
           /\ phase'[s] = "wake"
    <2>1. jobs \in Seq(Callers)
      BY DEF TypeOK
    <2>2. CASE jobs' = Append(jobs, s)
      BY <1>1, <2>1, <2>2 DEF TypeOK
    <2> QED
      BY <1>1, <2>2
  <1>6. ListDistinct' /\ ListedOpen'
    <2>1. CASE jobs' = jobs
      BY <1>3, <1>4, <2>1, ListHoldsCallers DEF ListDistinct, ListedOpen
    <2>2. CASE /\ Len(jobs') = Len(jobs) + 1
               /\ jobs'[Len(jobs) + 1] = s
               /\ \A k \in 1 .. Len(jobs) : jobs'[k] = jobs[k]
               /\ phase'[s] = "wake"
      <3>1. \A k \in 1 .. Len(jobs') :
              \/ k \in 1 .. Len(jobs) /\ jobs'[k] = jobs[k]
              \/ k = Len(jobs) + 1 /\ jobs'[k] = s
        BY <2>2, ListHoldsCallers
      <3>2. ListDistinct'
        BY <1>3, <3>1 DEF ListDistinct
      <3>3. ListedOpen'
        BY <1>3, <1>4, <2>2, <3>1, ListHoldsCallers DEF ListedOpen
      <3> QED
        BY <3>2, <3>3
    <2> QED
      BY <1>5, <2>1, <2>2
  <1>7. OnCaller' /\ OnWorker' /\ HeldIsLive'
    BY <1>1, <1>3, <1>4 DEF OnCaller, OnWorker, HeldIsLive, TypeOK
  <1>8. ActiveCount'
    <2>1. \A r \in Callers : HelpersOf(r)' = HelpersOf(r)
      BY <1>4 DEF HelpersOf
    <2>2. HelpersOf(s) = {}
      BY <1>3 DEF HelpersOf
    <2> QED
      BY <1>4, <2>1, <2>2, FS_EmptySet DEF ActiveCount, NewJob
  <1>9. \A t \in Threads : phase'[t] = "run" =>
            t # s /\ phase[t] = "run" /\ on[t] \in Callers /\ on[t] # s
    <2> SUFFICES ASSUME NEW t \in Threads, phase'[t] = "run"
                 PROVE  t # s /\ phase[t] = "run" /\ on[t] \in Callers /\ on[t] # s
      OBVIOUS
    <2>1. t # s /\ phase[t] = "run"
      BY <1>4
    <2>2. CASE t \in Callers
      BY <2>1, <2>2 DEF OnCaller
    <2>3. CASE t \in Workers
      BY <1>3, <2>1, <2>3 DEF OnWorker, TypeOK
    <2> QED
      BY <2>1, <2>2, <2>3
  <1>10. InFlight' /\ OneRunner'
    BY <1>1, <1>4, <1>9 DEF InFlight, OneRunner
  <1>11. RanCount'
    <2>1. \A i \in Indices : NewJob(n).ran[i] = 0 /\ ~(i < NewJob(n).next)
      BY DEF NewJob, Indices
    <2>2. \A r \in Callers \ {s} : \A i \in Indices : \A t \in Threads :
            Running(t, r, i)' <=> Running(t, r, i)
      BY <1>1, <1>4 DEF Running
    <2> QED
      BY <1>4, <2>1, <2>2 DEF RanCount
  <1>12. Exhausted'
    BY <1>4 DEF Exhausted
  <1> QED
    BY <1>2, <1>6, <1>7, <1>8, <1>10, <1>11, <1>12

\* What Retire::drop leaves on the list: everything but its own job.
LEMMA RemainingIsOthers ==
    ASSUME TypeOK, ListDistinct, NEW s \in Callers
    PROVE  /\ Remaining(s) \in Seq(Callers)
           /\ \A k \in 1 .. Len(Remaining(s)) :
                /\ Remaining(s)[k] # s
                /\ \E l \in 1 .. Len(jobs) : jobs[l] = Remaining(s)[k]
           /\ \A k, l \in 1 .. Len(Remaining(s)) :
                Remaining(s)[k] = Remaining(s)[l] => k = l
  <1>1. CASE ~Listed(s)
    BY <1>1 DEF Remaining, Listed, ListDistinct, TypeOK
  <1>2. CASE Listed(s)
    <2> DEFINE at == CHOOSE k \in 1 .. Len(jobs) : jobs[k] = s
               R == [i \in 1 .. (Len(jobs) - 1) |-> IF i < at THEN jobs[i] ELSE jobs[i + 1]]
    <2>1. at \in 1 .. Len(jobs) /\ jobs[at] = s
      BY <1>2 DEF Listed
    <2>2. Remaining(s) = R
      BY <1>2 DEF Remaining
    <2> HIDE DEF at
    <2>3. Len(jobs) \in Nat /\ \A k \in 1 .. Len(jobs) : jobs[k] \in Callers
      BY DEF TypeOK
    <2>4. R \in Seq(Callers) /\ Len(R) = Len(jobs) - 1
      BY <2>1, <2>3
    <2>5. \A k \in 1 .. Len(R) :
            \E l \in 1 .. Len(jobs) : l # at /\ R[k] = jobs[l] /\ l = IF k < at THEN k ELSE k + 1
      BY <2>1, <2>3, <2>4
    <2> HIDE DEF R
    <2>6. \A k \in 1 .. Len(R) : R[k] # s
      BY <2>1, <2>5 DEF ListDistinct
    <2>7. \A k, l \in 1 .. Len(R) : R[k] = R[l] => k = l
      BY <2>1, <2>3, <2>4, <2>5 DEF ListDistinct
    <2> QED
      BY <2>2, <2>4, <2>5, <2>6, <2>7
  <1> QED
    BY <1>1, <1>2

\* Retiring keeps the invariant (Retire::drop, its first half).
LEMMA RetireStep ==
    ASSUME IInv, NEW s \in Callers, Retire(s)
    PROVE  IInv'
  <1> USE Roles DEF IInv
  <1>1. /\ phase[s] = "retire"
        /\ phase' = [phase EXCEPT ![s] = "retired"]
        /\ jobs' = Remaining(s)
        /\ UNCHANGED <<job, on, item, wakes, calls, shutdown>>
    BY DEF Retire, Goto
  <1>2. TypeOK'
    BY <1>1, RemainingIsOthers DEF TypeOK, CallerPhases, WorkerPhases
  <1>3. ListDistinct'
    BY <1>1, RemainingIsOthers DEF ListDistinct
  <1>4. ListedOpen'
    <2> SUFFICES ASSUME NEW k \in 1 .. Len(jobs')
                 PROVE  phase'[jobs'[k]] \in {"wake", "claim", "run", "retire"}
      BY DEF ListedOpen
    <2>1. jobs'[k] # s /\ \E l \in 1 .. Len(jobs) : jobs[l] = jobs'[k]
      BY <1>1, RemainingIsOthers
    <2>2. PICK l \in 1 .. Len(jobs) : jobs[l] = jobs'[k]
      BY <2>1
    <2>3. jobs[l] \in Callers
      BY DEF TypeOK
    <2> QED
      BY <1>1, <2>1, <2>2, <2>3 DEF ListedOpen, TypeOK
  <1>5. /\ phase'[s] = "retired"
        /\ \A t \in Threads \ {s} : phase'[t] = phase[t]
    BY <1>1 DEF TypeOK
  <1>6. OnCaller' /\ OnWorker' /\ HeldIsLive'
    BY <1>1, <1>5 DEF OnCaller, OnWorker, HeldIsLive, TypeOK
  <1>7. ActiveCount'
    BY <1>1 DEF ActiveCount, HelpersOf
  <1>8. InFlight' /\ OneRunner'
    BY <1>1, <1>5 DEF InFlight, OneRunner
  <1>9. RanCount'
    <2>1. \A r, i : \A t \in Threads : Running(t, r, i)' <=> Running(t, r, i)
      BY <1>1, <1>5 DEF Running
    <2> QED
      BY <1>1, <2>1 DEF RanCount
  <1>10. Exhausted'
    BY <1>1, <1>5 DEF Exhausted
  <1> QED
    BY <1>2, <1>3, <1>4, <1>6, <1>7, <1>8, <1>9, <1>10

\* Returning keeps the invariant (Retire::drop, its wait is over): a quiet
\* job is held by no worker.
LEMMA ReturnStep ==
    ASSUME IInv, NEW s \in Callers, Return(s)
    PROVE  IInv'
  <1> USE Roles DEF IInv
  <1>1. /\ phase[s] = "retired"
        /\ phase' = [phase EXCEPT ![s] = "idle"]
        /\ on' = [on EXCEPT ![s] = None]
        /\ UNCHANGED <<jobs, job, item, wakes, calls, shutdown>>
    BY DEF Return, Goto
  <1>2. TypeOK'
    BY <1>1 DEF TypeOK, CallerPhases, WorkerPhases
  <1>3. \A w \in Workers : on[w] # s
    BY QuietMeansNobody DEF Return
  <1>4. /\ phase'[s] = "idle" /\ on'[s] = None
        /\ \A t \in Threads \ {s} : phase'[t] = phase[t] /\ on'[t] = on[t]
    BY <1>1 DEF TypeOK
  <1>5. ListDistinct' /\ ListedOpen'
    <2>1. \A k \in 1 .. Len(jobs) : jobs[k] \in Callers /\ jobs[k] # s
      BY <1>1, ListHoldsCallers DEF ListedOpen
    <2> QED
      BY <1>1, <1>4, <2>1 DEF ListDistinct, ListedOpen
  <1>6. OnCaller' /\ OnWorker' /\ HeldIsLive'
    BY <1>1, <1>3, <1>4 DEF OnCaller, OnWorker, HeldIsLive, TypeOK
  <1>7. ActiveCount'
    <2>1. \A r \in Callers : HelpersOf(r)' = HelpersOf(r)
      BY <1>4 DEF HelpersOf
    <2> QED
      BY <1>1, <2>1 DEF ActiveCount
  <1>8. InFlight' /\ OneRunner'
    BY <1>1, <1>4 DEF InFlight, OneRunner
  <1>9. RanCount'
    <2>1. \A r, i : \A t \in Threads : Running(t, r, i)' <=> Running(t, r, i)
      BY <1>1, <1>4 DEF Running
    <2> QED
      BY <1>1, <2>1 DEF RanCount
  <1>10. Exhausted'
    BY <1>1, <1>4 DEF Exhausted
  <1> QED
    BY <1>2, <1>5, <1>6, <1>7, <1>8, <1>9, <1>10

(***************************************************************************)
(* Job::drain.                                                             *)
(***************************************************************************)
\* A thread in the drain works on the job of a call in progress.
LEMMA DrainsALiveJob ==
    ASSUME IInv, NEW t \in Threads, phase[t] \in {"claim", "run", "clear"}
    PROVE  on[t] \in Callers /\ phase[on[t]] # "idle" /\ job[on[t]] \in Jobs
  <1> USE Roles DEF IInv
  <1>1. on[t] \in Callers /\ phase[on[t]] # "idle"
    <2>1. CASE t \in Callers
      BY <2>1 DEF OnCaller
    <2>2. CASE t \in Workers
      BY <2>2 DEF OnWorker, HeldIsLive, TypeOK
    <2> QED
      BY <2>1, <2>2
  <1> QED
    BY <1>1 DEF TypeOK

\* Claiming keeps the invariant (the fetch_add of Job::drain).
LEMMA ClaimStep ==
    ASSUME IInv, NEW t \in Threads, Claim(t)
    PROVE  IInv'
  <1> USE Roles DEF IInv
  <1> DEFINE s == on[t]
             i == job[s].next
             n == job[s].n
  <1>1. phase[t] = "claim"
    BY DEF Claim
  <1>2. s \in Callers /\ phase[s] # "idle" /\ job[s] \in Jobs
    BY <1>1, DrainsALiveJob
  <1>3. i \in Nat /\ n \in 0 .. MaxItems /\ MaxItems \in Nat
    BY <1>2, PoolAssumption DEF Jobs
  <1>4. /\ job' = [job EXCEPT ![s].next = i + 1]
        /\ \/ /\ i < n
              /\ phase' = [phase EXCEPT ![t] = "run"]
              /\ item' = [item EXCEPT ![t] = i]
           \/ /\ ~(i < n)
              /\ phase' = [phase EXCEPT ![t] = IF t \in Callers THEN "retire" ELSE "clear"]
              /\ item' = item
        /\ UNCHANGED <<jobs, on, wakes, calls, shutdown>>
    BY DEF Claim, Goto, Claimed
  <1>5. /\ job'[s] = [job[s] EXCEPT !.next = i + 1]
        /\ \A r \in Callers \ {s} : job'[r] = job[r]
    BY <1>2, <1>4 DEF TypeOK
  <1>6. /\ job'[s].next = i + 1
        /\ job'[s].n = n
        /\ job'[s].active = job[s].active
        /\ job'[s].ran = job[s].ran
        /\ job'[s] \in Jobs
    BY <1>2, <1>3, <1>5 DEF Jobs
  <1>7. /\ \A u \in Threads \ {t} : phase'[u] = phase[u] /\ item'[u] = item[u]
        /\ phase'[t] = IF i < n THEN "run" ELSE IF t \in Callers THEN "retire" ELSE "clear"
        /\ i < n => item'[t] = i /\ i \in Indices
    BY <1>3, <1>4 DEF TypeOK, Indices
  <1> HIDE DEF s, i, n
  <1>8. TypeOK'
    <2>1. job' \in [Callers -> Jobs]
      BY <1>2, <1>4, <1>5, <1>6 DEF TypeOK
    <2>2. item' \in [Threads -> Indices \cup {None}]
      BY <1>4, <1>7, SMTT(20) DEF TypeOK
    <2>3. phase' \in [Threads -> CallerPhases \cup WorkerPhases]
      BY <1>4 DEF TypeOK, CallerPhases, WorkerPhases
    <2>4. /\ \A r \in Callers : phase'[r] \in CallerPhases
          /\ \A w \in Workers : phase'[w] \in WorkerPhases
      BY <1>7 DEF TypeOK, CallerPhases, WorkerPhases
    <2> QED
      BY <1>4, <2>1, <2>2, <2>3, <2>4 DEF TypeOK
  <1>9. ListDistinct' /\ ListedOpen'
    <2>1. \A r \in Callers : phase[r] \in {"wake", "claim", "run", "retire"} =>
                             phase'[r] \in {"wake", "claim", "run", "retire"}
      BY <1>7
    <2> QED
      BY <1>4, <2>1, ListHoldsCallers DEF ListDistinct, ListedOpen
  <1>10. OnCaller' /\ OnWorker' /\ HeldIsLive'
    <2>1. \A r \in Callers : phase'[r] = "idle" <=> phase[r] = "idle"
      BY <1>1, <1>7
    <2>2. \A w \in Workers : phase'[w] \in {"claim", "run", "clear"} <=> phase[w] \in {"claim", "run", "clear"}
      BY <1>1, <1>7
    <2>3. OnCaller'
      BY <1>4, <2>1 DEF OnCaller
    <2>4. OnWorker'
      BY <1>4, <2>2 DEF OnWorker
    <2>5. HeldIsLive'
      BY <1>4, <2>1 DEF HeldIsLive, TypeOK
    <2> QED
      BY <2>3, <2>4, <2>5
  <1>11. ActiveCount'
    <2>1. \A r : HelpersOf(r)' = HelpersOf(r)
      BY <1>4 DEF HelpersOf
    <2> QED
      BY <1>5, <1>6, <2>1 DEF ActiveCount
  <1>12. InFlight'
    <2> SUFFICES ASSUME NEW u \in Threads, phase'[u] = "run"
                 PROVE  item'[u] \in Indices /\ item'[u] < job'[on[u]].next /\ item'[u] < job'[on[u]].n
      BY <1>4 DEF InFlight
    <2>1. CASE u = t
      BY <1>3, <1>6, <1>7, <2>1 DEF s
    <2>2. CASE u # t
      <3>1. /\ phase[u] = "run" /\ item'[u] = item[u]
            /\ item[u] \in Indices /\ item[u] < job[on[u]].next /\ item[u] < job[on[u]].n
        BY <1>7, <2>2 DEF InFlight
      <3>2. on[u] \in Callers
        BY <3>1, DrainsALiveJob
      <3>3. CASE on[u] = s
        BY <1>3, <1>6, <3>1, <3>3 DEF i, n
      <3>4. CASE on[u] # s
        BY <1>5, <3>1, <3>2, <3>4
      <3> QED
        BY <3>3, <3>4
    <2> QED
      BY <2>1, <2>2
  <1>13. \A u \in Threads : phase[u] = "run" /\ on[u] = s => item[u] # i
    BY <1>3 DEF InFlight, i
  <1>14. OneRunner'
    BY <1>4, <1>7, <1>13 DEF OneRunner, s
  <1>15. RanCount'
    <2> SUFFICES ASSUME NEW r \in Callers, NEW j \in Indices
                 PROVE  job'[r].ran[j] =
                          IF j < job'[r].next /\ j < job'[r].n
                             /\ ~\E u \in Threads : Running(u, r, j)'
                          THEN 1 ELSE 0
      BY DEF RanCount
    <2>1. job[r].ran[j] =
            IF j < job[r].next /\ j < job[r].n /\ ~\E u \in Threads : Running(u, r, j)
            THEN 1 ELSE 0
      BY DEF RanCount
    <2>2. \A u \in Threads \ {t} : Running(u, r, j)' <=> Running(u, r, j)
      BY <1>4, <1>7 DEF Running
    <2>3. Running(t, r, j)' <=> r = s /\ j = i /\ i < n
      BY <1>4, <1>7 DEF Running, s
    <2>4. ~Running(t, r, j)
      BY <1>1 DEF Running
    <2>5. CASE r # s
      BY <1>5, <2>1, <2>2, <2>3, <2>4, <2>5
    <2>6. CASE r = s /\ j = i
      <3>1. job[r].ran[j] = 0
        BY <1>3, <2>1, <2>6 DEF i
      <3> QED
        BY <1>6, <2>3, <2>6, <3>1
    <2>7. CASE r = s /\ j # i
      <3>1. j < i + 1 <=> j < i
        BY <1>3, <2>7
      <3>2. (\E u \in Threads : Running(u, r, j)') <=> \E u \in Threads : Running(u, r, j)
        BY <2>2, <2>3, <2>4, <2>7
      <3> QED
        BY <1>6, <2>1, <2>7, <3>1, <3>2 DEF i, n
    <2> QED
      BY <2>5, <2>6, <2>7
  <1>16. Exhausted'
    <2> SUFFICES ASSUME NEW r \in Callers, phase'[r] \in {"retire", "retired", "waiting"}
                 PROVE  job'[r].next >= job'[r].n
      BY DEF Exhausted
    <2>1. CASE r = t
      <3>1. s = r
        BY <1>1, <2>1 DEF OnCaller, s
      <3>2. ~(i < n)
        BY <1>7, <2>1
      <3> QED
        BY <1>3, <1>6, <3>1, <3>2
    <2>2. CASE r # t
      <3>1. job[r].next >= job[r].n
        BY <1>7, <2>2 DEF Exhausted
      <3>2. CASE r = s
        BY <1>3, <1>6, <3>1, <3>2 DEF i, n
      <3>3. CASE r # s
        BY <1>5, <3>1, <3>3
      <3> QED
        BY <3>2, <3>3
    <2> QED
      BY <2>1, <2>2
  <1> QED
    BY <1>8, <1>9, <1>10, <1>11, <1>12, <1>14, <1>15, <1>16

\* Running an index keeps the invariant (the call of Job::drain, and its
\* catch_unwind): the one thread that claimed the index accounts for it.
LEMMA RunStep ==
    ASSUME IInv, NEW t \in Threads, NEW panics \in BOOLEAN, Run(t, panics)
    PROVE  IInv'
  <1> USE Roles DEF IInv
  <1> DEFINE s == on[t]
             i == item[t]
  <1>1. phase[t] = "run"
    BY DEF Run
  <1>2. s \in Callers /\ phase[s] # "idle" /\ job[s] \in Jobs
    BY <1>1, DrainsALiveJob
  <1>3. i \in Indices /\ i < job[s].next /\ i < job[s].n
    BY <1>1 DEF InFlight
  <1>4. /\ job' = [job EXCEPT ![s].ran[i] = @ + 1,
                              ![s].failed = IF panics THEN @ \cup {i} ELSE @]
        /\ item' = [item EXCEPT ![t] = None]
        /\ phase' = [phase EXCEPT ![t] = "claim"]
        /\ UNCHANGED <<jobs, on, wakes, calls, shutdown>>
    BY DEF Run, Goto
  <1>5. \A r \in Callers \ {s} : job'[r] = job[r]
    BY <1>2, <1>4 DEF TypeOK
  <1>6. /\ job'[s].next = job[s].next
        /\ job'[s].n = job[s].n
        /\ job'[s].active = job[s].active
        /\ job'[s].ran = [job[s].ran EXCEPT ![i] = @ + 1]
        /\ job'[s] \in Jobs
    <2> DEFINE broken == IF panics THEN job[s].failed \cup {i} ELSE job[s].failed
    <2>1. job'[s] = [job[s] EXCEPT !.ran = [job[s].ran EXCEPT ![i] = @ + 1], !.failed = broken]
      BY <1>2, <1>4 DEF TypeOK, Jobs
    <2>2. broken \in SUBSET Indices
      BY <1>2, <1>3 DEF Jobs
    <2>3. [job[s].ran EXCEPT ![i] = @ + 1] \in [Indices -> Nat]
      BY <1>2, <1>3 DEF Jobs
    <2> HIDE DEF s, i, broken
    <2> QED
      BY <1>2, <2>1, <2>2, <2>3 DEF Jobs
  <1>7. /\ \A u \in Threads \ {t} : phase'[u] = phase[u] /\ item'[u] = item[u]
        /\ phase'[t] = "claim"
    BY <1>4 DEF TypeOK
  <1> HIDE DEF s, i
  <1>8. TypeOK'
    <2>1. job' \in [Callers -> Jobs]
      <3>1. job' = [r \in Callers |-> job'[r]]
        BY <1>4 DEF TypeOK
      <3>2. \A r \in Callers : job'[r] \in Jobs
        BY <1>5, <1>6 DEF TypeOK
      <3> QED
        BY <3>1, <3>2
    <2>2. item' \in [Threads -> Indices \cup {None}]
      BY <1>4 DEF TypeOK
    <2>3. phase' \in [Threads -> CallerPhases \cup WorkerPhases]
      BY <1>4 DEF TypeOK, CallerPhases, WorkerPhases
    <2>4. /\ \A r \in Callers : phase'[r] \in CallerPhases
          /\ \A w \in Workers : phase'[w] \in WorkerPhases
      BY <1>7 DEF TypeOK, CallerPhases, WorkerPhases
    <2> QED
      BY <1>4, <2>1, <2>2, <2>3, <2>4 DEF TypeOK
  <1>9. ListDistinct' /\ ListedOpen'
    <2>1. \A r \in Callers : phase[r] \in {"wake", "claim", "run", "retire"} =>
                             phase'[r] \in {"wake", "claim", "run", "retire"}
      BY <1>7
    <2> QED
      BY <1>4, <2>1, ListHoldsCallers DEF ListDistinct, ListedOpen
  <1>10. OnCaller' /\ OnWorker' /\ HeldIsLive'
    <2>1. \A r \in Callers : phase'[r] = "idle" <=> phase[r] = "idle"
      BY <1>1, <1>7
    <2>2. \A w \in Workers : phase'[w] \in {"claim", "run", "clear"} <=> phase[w] \in {"claim", "run", "clear"}
      BY <1>1, <1>7
    <2>3. OnCaller'
      BY <1>4, <2>1 DEF OnCaller
    <2>4. OnWorker'
      BY <1>4, <2>2 DEF OnWorker
    <2>5. HeldIsLive'
      BY <1>4, <2>1 DEF HeldIsLive, TypeOK
    <2> QED
      BY <2>3, <2>4, <2>5
  <1>11. ActiveCount'
    <2>1. \A r : HelpersOf(r)' = HelpersOf(r)
      BY <1>4 DEF HelpersOf
    <2> QED
      BY <1>5, <1>6, <2>1 DEF ActiveCount
  <1>12. InFlight'
    <2> SUFFICES ASSUME NEW u \in Threads, phase'[u] = "run"
                 PROVE  item'[u] \in Indices /\ item'[u] < job'[on[u]].next /\ item'[u] < job'[on[u]].n
      BY <1>4 DEF InFlight
    <2>1. /\ phase[u] = "run" /\ item'[u] = item[u]
          /\ item[u] \in Indices /\ item[u] < job[on[u]].next /\ item[u] < job[on[u]].n
      BY <1>7 DEF InFlight
    <2>2. on[u] \in Callers
      BY <2>1, DrainsALiveJob
    <2> QED
      BY <1>5, <1>6, <2>1, <2>2
  <1>13. OneRunner'
    BY <1>4, <1>7 DEF OneRunner
  <1>14. RanCount'
    <2> SUFFICES ASSUME NEW r \in Callers, NEW j \in Indices
                 PROVE  job'[r].ran[j] =
                          IF j < job'[r].next /\ j < job'[r].n
                             /\ ~\E u \in Threads : Running(u, r, j)'
                          THEN 1 ELSE 0
      BY DEF RanCount
    <2>1. job[r].ran[j] =
            IF j < job[r].next /\ j < job[r].n /\ ~\E u \in Threads : Running(u, r, j)
            THEN 1 ELSE 0
      BY DEF RanCount
    <2>2. \A u \in Threads \ {t} : Running(u, r, j)' <=> Running(u, r, j)
      BY <1>4, <1>7 DEF Running
    <2>3. ~Running(t, r, j)'
      BY <1>7 DEF Running
    <2>4. Running(t, r, j) <=> r = s /\ j = i
      BY <1>1 DEF Running, s, i
    <2>5. CASE r = s /\ j = i
      <3>1. ~\E u \in Threads : Running(u, r, j)'
        BY <1>1, <2>2, <2>3, <2>5 DEF OneRunner, Running, s, i
      <3>2. job[r].ran[j] = 0
        BY <2>1, <2>4, <2>5
      <3>3. job[s].ran \in [Indices -> Nat]
        BY <1>2 DEF Jobs
      <3>4. job'[r].ran[j] = 1
        BY <1>6, <2>5, <3>2, <3>3
      <3> QED
        BY <1>3, <1>6, <2>5, <3>1, <3>4
    <2>6. CASE ~(r = s /\ j = i)
      <3>1. (\E u \in Threads : Running(u, r, j)') <=> \E u \in Threads : Running(u, r, j)
        BY <2>2, <2>3, <2>4, <2>6
      <3>2. CASE r = s
        <4>1. job[s].ran \in [Indices -> Nat]
          BY <1>2 DEF Jobs
        <4>2. job'[s].ran[j] = job[s].ran[j]
          BY <1>6, <2>6, <3>2, <4>1
        <4> QED
          BY <1>6, <2>1, <3>1, <3>2, <4>2
      <3>3. CASE r # s
        BY <1>5, <2>1, <3>1, <3>3
      <3> QED
        BY <3>2, <3>3
    <2> QED
      BY <2>5, <2>6
  <1>15. Exhausted'
    <2> SUFFICES ASSUME NEW r \in Callers, phase'[r] \in {"retire", "retired", "waiting"}
                 PROVE  job'[r].next >= job'[r].n
      BY DEF Exhausted
    <2>1. job[r].next >= job[r].n
      BY <1>7 DEF Exhausted
    <2> QED
      BY <1>5, <1>6, <2>1
  <1> QED
    BY <1>8, <1>9, <1>10, <1>11, <1>12, <1>13, <1>14, <1>15

(***************************************************************************)
(* A worker takes a job and lets it go.                                    *)
(***************************************************************************)
\* A step that moves one worker on or off a job and counts it, and leaves
\* everything else alone but for the wake-ups of done, keeps the invariant.
LEMMA CountedMove ==
    ASSUME IInv, TypeOK', NEW w \in Workers, NEW s \in Callers,
           UNCHANGED <<jobs, item>>,
           phase[s] # "idle",
           ActiveCount',
           \A r \in Callers : /\ job'[r].n = job[r].n
                              /\ job'[r].next = job[r].next
                              /\ job'[r].ran = job[r].ran,
           \A t \in Threads \ {w} : on'[t] = on[t] /\ Harmless(phase[t], phase'[t]),
           \/ phase'[w] = "claim" /\ on'[w] = s
           \/ phase'[w] = "look" /\ on'[w] = None,
           phase[w] # "run"
    PROVE  IInv'
  <1> USE Roles DEF IInv
  <1>1. /\ \A r \in Callers : on'[r] = on[r] /\ Harmless(phase[r], phase'[r])
        /\ \A r \in Callers : (phase'[r] = "idle") <=> (phase[r] = "idle")
        /\ \A t \in Threads : (phase'[t] = "run") <=> (phase[t] = "run")
    BY DEF Harmless
  <1>2. ListDistinct' /\ OnCaller'
    BY <1>1 DEF ListDistinct, OnCaller
  <1>3. ListedOpen'
    <2> SUFFICES ASSUME NEW k \in 1 .. Len(jobs)
                 PROVE  phase'[jobs[k]] \in {"wake", "claim", "run", "retire"}
      BY DEF ListedOpen
    <2>1. jobs[k] \in Callers /\ phase[jobs[k]] \in {"wake", "claim", "run", "retire"}
      BY ListHoldsCallers DEF ListedOpen
    <2>2. Harmless(phase[jobs[k]], phase'[jobs[k]])
      BY <1>1, <2>1
    <2> QED
      BY <2>1, <2>2 DEF Harmless
  <1>4. OnWorker'
    <2> SUFFICES ASSUME NEW v \in Workers
                 PROVE  on'[v] # None <=> phase'[v] \in {"claim", "run", "clear"}
      BY DEF OnWorker
    <2>1. CASE v = w
      BY <2>1
    <2>2. CASE v # w
      <3>1. on'[v] = on[v] /\ Harmless(phase[v], phase'[v])
        BY <2>2
      <3>2. phase[v] \in WorkerPhases /\ phase'[v] \in WorkerPhases
        BY DEF TypeOK
      <3>3. phase'[v] \in {"claim", "run", "clear"} <=> phase[v] \in {"claim", "run", "clear"}
        BY <3>1, <3>2 DEF Harmless, WorkerPhases
      <3> QED
        BY <3>1, <3>3 DEF OnWorker
    <2> QED
      BY <2>1, <2>2
  <1>5. HeldIsLive'
    <2> SUFFICES ASSUME NEW v \in Workers, on'[v] # None
                 PROVE  phase'[on'[v]] # "idle"
      BY DEF HeldIsLive
    <2>1. CASE v = w
      BY <1>1, <2>1
    <2>2. CASE v # w
      <3>1. on'[v] = on[v] /\ on[v] \in Callers /\ phase[on[v]] # "idle"
        BY <2>2 DEF HeldIsLive, TypeOK
      <3> QED
        BY <1>1, <3>1
    <2> QED
      BY <2>1, <2>2
  <1>6. \A t \in Threads : phase'[t] = "run" =>
            phase[t] = "run" /\ t # w /\ on'[t] = on[t] /\ on[t] \in Callers
    BY <1>1, DrainsALiveJob
  <1>7. InFlight' /\ OneRunner'
    BY <1>6 DEF InFlight, OneRunner
  <1>8. RanCount'
    <2>1. \A r, i : \A t \in Threads : Running(t, r, i)' <=> Running(t, r, i)
      BY <1>1, <1>6 DEF Running
    <2> QED
      BY <2>1 DEF RanCount
  <1>9. Exhausted'
    <2> SUFFICES ASSUME NEW r \in Callers, phase'[r] \in {"retire", "retired", "waiting"}
                 PROVE  phase[r] \in {"retire", "retired", "waiting"}
      BY DEF Exhausted
    <2>1. Harmless(phase[r], phase'[r]) /\ phase[r] \in CallerPhases
      BY <1>1 DEF TypeOK
    <2> QED
      BY <2>1 DEF Harmless, CallerPhases
  <1> QED
    BY <1>2, <1>3, <1>4, <1>5, <1>7, <1>8, <1>9

\* Helping keeps the invariant (the worker loop): the helper counts itself
\* while the job is still listed.
LEMMA HelpStep ==
    ASSUME IInv, NEW w \in Workers, Help(w)
    PROVE  IInv'
  <1> USE Roles DEF IInv
  <1>1. PICK k \in 1 .. Len(jobs) :
            /\ job' = [job EXCEPT ![jobs[k]].active = @ + 1]
            /\ on' = [on EXCEPT ![w] = jobs[k]]
    BY DEF Help
  <1>2. PICK s \in Callers : s = jobs[k] /\ phase[s] # "idle"
    BY ListHoldsCallers DEF ListedOpen
  <1>3. /\ phase[w] = "look"
        /\ phase' = [phase EXCEPT ![w] = "claim"]
        /\ UNCHANGED <<jobs, item, wakes, calls, shutdown>>
        /\ job' = [job EXCEPT ![s].active = @ + 1]
        /\ on' = [on EXCEPT ![w] = s]
    BY <1>1, <1>2 DEF Help, Goto
  <1>4. job[s] \in Jobs
    BY <1>2 DEF TypeOK
  <1>5. /\ job'[s] = [job[s] EXCEPT !.active = @ + 1]
        /\ \A r \in Callers \ {s} : job'[r] = job[r]
        /\ on'[w] = s /\ phase'[w] = "claim"
        /\ \A t \in Threads \ {w} : on'[t] = on[t] /\ phase'[t] = phase[t]
    BY <1>2, <1>3 DEF TypeOK
  <1>6. job'[s] \in Jobs /\ job'[s].active = job[s].active + 1
    BY <1>4, <1>5, SMTT(20) DEF Jobs
  <1>7. \A r \in Callers : /\ job'[r].n = job[r].n
                           /\ job'[r].next = job[r].next
                           /\ job'[r].ran = job[r].ran
    BY <1>4, <1>5 DEF Jobs
  <1>8. TypeOK'
    <2>1. job' \in [Callers -> Jobs]
      BY <1>2, <1>3, <1>5, <1>6 DEF TypeOK
    <2>2. on' \in [Threads -> Callers \cup {None}]
      BY <1>2, <1>3 DEF TypeOK
    <2>3. phase' \in [Threads -> CallerPhases \cup WorkerPhases]
      BY <1>3 DEF TypeOK, WorkerPhases
    <2>4. /\ \A r \in Callers : phase'[r] \in CallerPhases
          /\ \A v \in Workers : phase'[v] \in WorkerPhases
      BY <1>5 DEF TypeOK, WorkerPhases
    <2> QED
      BY <1>3, <2>1, <2>2, <2>3, <2>4 DEF TypeOK
  <1>9. ActiveCount'
    <2>1. on[w] = None
      BY <1>3 DEF OnWorker
    <2>2. HelpersOf(s)' = HelpersOf(s) \cup {w} /\ w \notin HelpersOf(s)
      BY <1>2, <1>5, <2>1 DEF HelpersOf
    <2>3. Cardinality(HelpersOf(s)') = Cardinality(HelpersOf(s)) + 1
      BY <2>2, HelpersFinite, FS_AddElement
    <2>4. \A r \in Callers \ {s} : HelpersOf(r)' = HelpersOf(r)
      BY <1>5, <2>1 DEF HelpersOf
    <2> QED
      BY <1>5, <1>6, <2>3, <2>4, ZenonT(30) DEF ActiveCount
  <1>10. \A t \in Threads \ {w} : on'[t] = on[t] /\ Harmless(phase[t], phase'[t])
    BY <1>5 DEF Harmless
  <1>11. UNCHANGED <<jobs, item>> /\ phase[w] # "run"
    BY <1>3
  <1>12. phase'[w] = "claim" /\ on'[w] = s
    BY <1>5
  <1> QED
    BY <1>2, <1>7, <1>8, <1>9, <1>10, <1>11, <1>12, CountedMove

\* Leaving keeps the invariant (Clear::drop).
LEMMA ClearStep ==
    ASSUME IInv, NEW w \in Workers, Clear(w)
    PROVE  IInv'
  <1> USE Roles DEF IInv
  <1>1. /\ phase[w] = "clear"
        /\ job' = [job EXCEPT ![on[w]].active = @ - 1]
        /\ on' = [on EXCEPT ![w] = None]
        /\ phase' = Woken(w)
        /\ UNCHANGED <<jobs, item, wakes, calls, shutdown>>
    BY DEF Clear
  <1>2. PICK s \in Callers : s = on[w] /\ phase[s] # "idle" /\ job[s] \in Jobs
    BY <1>1, DrainsALiveJob
  <1>3. /\ job'[s] = [job[s] EXCEPT !.active = @ - 1]
        /\ \A r \in Callers \ {s} : job'[r] = job[r]
        /\ on'[w] = None
        /\ \A t \in Threads \ {w} : on'[t] = on[t]
    BY <1>1, <1>2 DEF TypeOK
  <1>4. /\ phase'[w] = "look"
        /\ \A t \in Threads \ {w} :
              phase'[t] = IF phase[t] = "waiting" THEN "retired" ELSE phase[t]
    BY <1>1 DEF Woken
  <1>5. w \in HelpersOf(s)
    BY <1>2 DEF HelpersOf
  <1>6. /\ HelpersOf(s)' = HelpersOf(s) \ {w}
        /\ \A r \in Callers \ {s} : HelpersOf(r)' = HelpersOf(r)
    BY <1>2, <1>3 DEF HelpersOf
  <1>7. /\ Cardinality(HelpersOf(s)') = Cardinality(HelpersOf(s)) - 1
        /\ Cardinality(HelpersOf(s)') \in Nat
    <2>1. Cardinality(HelpersOf(s)') = Cardinality(HelpersOf(s)) - 1
      BY <1>5, <1>6, HelpersFinite, FS_RemoveElement
    <2>2. IsFiniteSet(HelpersOf(s)')
      BY <1>6, HelpersFinite, FS_Subset
    <2> QED
      BY <2>1, <2>2, FS_CardinalityType
  <1>8. /\ job'[s] \in Jobs
        /\ job'[s].active = job[s].active - 1
        /\ job[s].active = Cardinality(HelpersOf(s))
    BY <1>2, <1>3, <1>7 DEF Jobs, ActiveCount
  <1>9. \A r \in Callers : /\ job'[r].n = job[r].n
                           /\ job'[r].next = job[r].next
                           /\ job'[r].ran = job[r].ran
    BY <1>2, <1>3 DEF Jobs
  <1>10. TypeOK'
    <2>1. job' \in [Callers -> Jobs]
      BY <1>1, <1>3, <1>8 DEF TypeOK
    <2>2. on' \in [Threads -> Callers \cup {None}]
      BY <1>1 DEF TypeOK
    <2>3. phase' \in [Threads -> CallerPhases \cup WorkerPhases]
      BY <1>1 DEF TypeOK, WorkerPhases, CallerPhases, Woken
    <2>4. /\ \A r \in Callers : phase'[r] \in CallerPhases
          /\ \A v \in Workers : phase'[v] \in WorkerPhases
      BY <1>4 DEF TypeOK, WorkerPhases, CallerPhases
    <2> QED
      BY <1>1, <2>1, <2>2, <2>3, <2>4 DEF TypeOK
  <1>11. ActiveCount'
    BY <1>3, <1>6, <1>7, <1>8 DEF ActiveCount
  <1>12. \A t \in Threads \ {w} : on'[t] = on[t] /\ Harmless(phase[t], phase'[t])
    BY <1>3, <1>4 DEF Harmless
  <1>13. UNCHANGED <<jobs, item>> /\ phase[w] # "run"
    BY <1>1
  <1>14. phase'[w] = "look" /\ on'[w] = None
    BY <1>3, <1>4
  <1> QED
    BY <1>2, <1>9, <1>10, <1>11, <1>12, <1>13, <1>14, CountedMove

(***************************************************************************)
(* The theorems.                                                           *)
(***************************************************************************)
\* Every step keeps the invariant.
LEMMA NextIInv == IInv /\ [Next]_vars => IInv'
  <1> SUFFICES ASSUME IInv, [Next]_vars PROVE IInv'
    OBVIOUS
  <1>1. CASE \E s \in Callers, n \in 1 .. MaxItems : CallSerial(s, n) \/ Publish(s, n)
    BY <1>1, EnterStep
  <1>2. ASSUME NEW s \in Callers, CallerStep(s) PROVE IInv'
    <2>1. CASE Retire(s)
      BY <2>1, RetireStep
    <2>2. CASE Return(s)
      BY <2>2, ReturnStep
    <2>3. CASE Notify(s) \/ StartDrain(s) \/ WaitDone(s)
      BY <2>3, QuietCallerSteps
    <2> QED
      BY <1>2, <2>1, <2>2, <2>3 DEF CallerStep
  <1>3. ASSUME NEW t \in Threads, DrainStep(t) \/ SpuriousWakeup(t) PROVE IInv'
    BY <1>3, ClaimStep, RunStep, QuietThreadSteps DEF DrainStep
  <1>4. ASSUME NEW w \in Workers, WorkerStep(w) PROVE IInv'
    BY <1>4, HelpStep, ClearStep, QuietWorkerSteps DEF WorkerStep
  <1>5. CASE Shutdown \/ NotifyAll
    BY <1>5, QuietDropSteps
  <1>6. CASE UNCHANGED vars
    BY <1>6 DEF vars, IInv, TypeOK, ListDistinct, ListedOpen, OnCaller, OnWorker, HeldIsLive,
                ActiveCount, HelpersOf, InFlight, OneRunner, RanCount, Running, Exhausted
  <1> QED
    BY <1>1, <1>2, <1>3, <1>4, <1>5, <1>6 DEF Next

\* The inductive invariant holds in every reachable state.
THEOREM IInvHolds == Spec => []IInv
  <1>1. Init => IInv
    BY InitIInv
  <1>2. IInv /\ [Next]_vars => IInv'
    BY NextIInv
  <1> QED
    BY <1>1, <1>2, PTL DEF Spec

\* Type correctness of the pool, for any number of threads and items.
THEOREM TypeCorrect == Spec => []TypeOK
  <1>1. IInv => TypeOK
    BY DEF IInv
  <1> QED
    BY <1>1, IInvHolds, PTL

\* No thread reaches a job whose frame is gone (Pool::run, "Why the borrow is
\* sound"): listed and held jobs belong to calls in progress.
THEOREM NoDangling == Spec => []NoDanglingJob
  <1>1. IInv => NoDanglingJob
    BY DEF IInv, NoDanglingJob, HeldIsLive, ListedOpen
  <1> QED
    BY <1>1, IInvHolds, PTL

\* A call that returns has run every index once (Job::drain, Pool::map): no
\* index is left, and nobody is running one any more.
THEOREM IndicesOnce == Spec => []EachIndexOnce
  <1>1. IInv => EachIndexOnce
    <2> SUFFICES ASSUME IInv, NEW s \in Callers, phase[s] = "retired", Quiet(s),
                        NEW i \in 0 .. (job[s].n - 1)
                 PROVE  job[s].ran[i] = 1
      BY DEF EachIndexOnce
    <2> USE Roles DEF IInv
    <2>1. \A w \in Workers : on[w] # s
      BY QuietMeansNobody
    <2>2. \A t \in Threads : ~Running(t, s, i)
      BY <2>1 DEF Running, OnCaller
    <2>3. job[s] \in Jobs /\ job[s].next >= job[s].n
      BY DEF TypeOK, Exhausted
    <2>4. i \in Indices /\ i < job[s].next /\ i < job[s].n
      BY <2>3, PoolAssumption DEF Jobs, Indices
    <2> QED
      BY <2>2, <2>4 DEF RanCount
  <1> QED
    BY <1>1, IInvHolds, PTL

-----------------------------------------------------------------------------
(***************************************************************************)
(* Budget.  The counter is raised before it is compared, so the limit is   *)
(* not an invariant of the counter.  What makes it one of the bytes held   *)
(* is the promise: a worker whose fetch_add answered no more than the      *)
(* limit will be granted its bytes, and what is held and what is promised  *)
(* are together within the limit.                                          *)
(***************************************************************************)

CONSTANT Plans
VARIABLES plan, src, op, out, status

B == INSTANCE Budget

\* Budget counts with the same operators.
LEMMA SameCount == \A S : B!Cardinality(S) = Cardinality(S) /\ (B!IsFiniteSet(S) <=> IsFiniteSet(S))
<1>1. \A S : B!Cardinality(S) = Cardinality(S)
  BY Zenon DEF B!Cardinality, Cardinality
<1>2. \A S : B!IsFiniteSet(S) <=> IsFiniteSet(S)
  BY Zenon DEF B!IsFiniteSet, IsFiniteSet
<1> QED
  BY <1>1, <1>2

\* The bytes of everyone but w.
Others(f, w) == UNION {{v} \X (1..f[v]) : v \in DOMAIN f \ {w}}

LEMMA OthersFinite ==
    ASSUME NEW W, IsFiniteSet(W), NEW f \in [W -> Nat], NEW w
    PROVE  IsFiniteSet(Others(f, w)) /\ Cardinality(Others(f, w)) \in Nat
<1> DEFINE V == W \ {w}
           F == {{v} \X (1..f[v]) : v \in V}
           g == [v \in V |-> {v} \X (1..f[v])]
<1>1. IsFiniteSet(V)
  BY FS_RemoveElement
<1>2. ASSUME NEW v \in V PROVE IsFiniteSet({v} \X (1..f[v]))
  <2>1. f[v] \in Nat
    OBVIOUS
  <2>2. IsFiniteSet(1..f[v])
    BY <2>1, FS_Interval
  <2> QED
    BY <2>2, FS_Singleton, FS_Product
<1>3. g \in Surjection(V, F)
  BY DEF Surjection
<1>4. \A T \in F : IsFiniteSet(T)
  BY <1>2
<1>5. Others(f, w) = UNION F
  BY DEF Others
<1> HIDE DEF V, F, g
<1>6. IsFiniteSet(F)
  BY <1>1, <1>3, FS_Surjection
<1>7. IsFiniteSet(UNION F)
  BY <1>4, <1>6, FS_UNION
<1> QED
  BY <1>5, <1>7, FS_CardinalityType

\* A sum is one's share and the others'.
LEMMA TotalSplit ==
    ASSUME NEW W, IsFiniteSet(W), NEW f \in [W -> Nat], NEW w \in W
    PROVE  B!Total(f) = Cardinality(Others(f, w)) + f[w] /\ IsFiniteSet(B!Bytes(f)) /\ B!Total(f) \in Nat
<1> DEFINE R == Others(f, w)
           X == {w} \X (1..f[w])
<1>1. IsFiniteSet(R) /\ Cardinality(R) \in Nat
  BY OthersFinite
<1>2. B!Bytes(f) = R \cup X
  BY DEF B!Bytes, Others
<1>3. R \cap X = {}
  <2>1. \A z \in R : z[1] # w
    BY DEF Others
  <2>2. \A z \in X : z[1] = w
    OBVIOUS
  <2> HIDE DEF R, X
  <2> QED
    BY <2>1, <2>2
<1>4. f[w] \in Nat
  OBVIOUS
<1>5. IsFiniteSet(X) /\ Cardinality(X) = f[w]
  <2>1. IsFiniteSet(1..f[w]) /\ Cardinality(1..f[w]) = f[w]
    BY <1>4, FS_Interval
  <2>2. IsFiniteSet({w}) /\ Cardinality({w}) = 1
    BY FS_Singleton
  <2>3. IsFiniteSet(X) /\ Cardinality(X) = 1 * Cardinality(1..f[w])
    BY <2>1, <2>2, FS_Product
  <2> HIDE DEF X
  <2> QED
    BY <1>4, <2>1, <2>3
<1> HIDE DEF R, X
<1>6. IsFiniteSet(R \cup X) /\ Cardinality(R \cup X) = Cardinality(R) + Cardinality(X) - Cardinality(R \cap X)
  BY <1>1, <1>5, FS_Union
<1>7. Cardinality(R \cap X) = 0
  BY <1>3, FS_EmptySet
<1> QED
  BY <1>1, <1>2, <1>4, <1>5, <1>6, <1>7, SameCount DEF R, B!Total

\* Changing one share.
LEMMA TotalChange ==
    ASSUME NEW W, IsFiniteSet(W), NEW f \in [W -> Nat], NEW w \in W, NEW n \in Nat
    PROVE  /\ [f EXCEPT ![w] = n] \in [W -> Nat] /\ B!Total(f) \in Nat /\ B!Total(f) >= f[w]
           /\ B!Total([f EXCEPT ![w] = n]) = B!Total(f) - f[w] + n
<1> DEFINE g == [f EXCEPT ![w] = n]
<1>1. g \in [W -> Nat] /\ g[w] = n /\ f[w] \in Nat
  OBVIOUS
<1>2. Others(g, w) = Others(f, w)
  <2>1. DOMAIN g \ {w} = DOMAIN f \ {w} /\ \A v \in DOMAIN f \ {w} : g[v] = f[v]
    OBVIOUS
  <2> HIDE DEF g
  <2> QED
    BY <2>1 DEF Others
<1> HIDE DEF g
<1>3. B!Total(f) = Cardinality(Others(f, w)) + f[w] /\ B!Total(g) = Cardinality(Others(f, w)) + n
  BY <1>1, <1>2, TotalSplit
<1>4. Cardinality(Others(f, w)) \in Nat /\ B!Total(f) \in Nat
  BY OthersFinite, TotalSplit
<1>5. PICK c \in Nat, k \in Nat : c = Cardinality(Others(f, w)) /\ k = f[w]
  BY <1>1, <1>4
<1> QED
  BY <1>1, <1>3, <1>4, <1>5 DEF g

\* Smaller shares, a smaller sum.
LEMMA TotalLess ==
    ASSUME NEW W, IsFiniteSet(W), NEW f \in [W -> Nat], NEW g \in [W -> Nat], \A w \in W : f[w] <= g[w]
    PROVE  B!Total(f) <= B!Total(g) /\ B!Total(f) \in Nat /\ B!Total(g) \in Nat
<1>1. B!Bytes(f) \subseteq B!Bytes(g)
  <2>1. ASSUME NEW w \in W PROVE 1..f[w] \subseteq 1..g[w]
    OBVIOUS
  <2> QED
    BY <2>1 DEF B!Bytes
<1>2. IsFiniteSet(B!Bytes(g)) /\ IsFiniteSet(B!Bytes(f))
  <2>1. CASE W = {}
    BY <2>1, FS_EmptySet DEF B!Bytes
  <2>2. CASE W # {}
    BY <2>2, TotalSplit
  <2> QED
    BY <2>1, <2>2
<1> QED
  BY <1>1, <1>2, FS_Subset, FS_CardinalityType, SameCount DEF B!Total

\* Nothing adds up to nothing.
LEMMA TotalNothing ==
    ASSUME NEW W, NEW f \in [W -> Nat], \A w \in W : f[w] = 0
    PROVE  B!Total(f) = 0
<1>1. ASSUME NEW w \in W PROVE 1..f[w] = {}
  OBVIOUS
<1>2. B!Bytes(f) = {}
  BY <1>1 DEF B!Bytes
<1> QED
  BY <1>2, FS_EmptySet, SameCount DEF B!Total

-----------------------------------------------------------------------------

\* The bytes under judgement that will be granted: a worker compares what it
\* saw when it added, whatever the counter says by then.
Promised(o, limit) == [w \in DOMAIN o.pend |-> IF o.seen[w] <= limit THEN o.pend[w] ELSE 0]

Shape ==
    /\ plan \in Plans
    /\ DOMAIN op = {"used", "held", "pend", "seen", "spilled", "cancel"}
    /\ op.held \in [B!Workers -> Nat] /\ op.pend \in [B!Workers -> Nat] /\ op.seen \in [B!Workers -> Nat]
    /\ op.used \in Nat /\ op.spilled \in Nat
    /\ DOMAIN src = B!Workers /\ \A w \in B!Workers : src[w] \in Seq(Nat)
    /\ DOMAIN out = B!Workers

\* The counter is the bytes held and those under judgement; what is held and
\* what is promised is within the limit.
Counted == op.used = B!Total(op.held) + B!Total(op.pend)
Within == B!Total(op.held) + B!Total(Promised(op, plan.limit)) <= plan.limit

\* A worker under judgement has the block it asked for; one that has ended
\* has nothing; and the query has ended when all have.
Asking == \A w \in B!Workers : op.pend[w] # 0 => src[w] # <<>>
Ended == /\ \A w \in B!Workers : out[w] # "running" => op.held[w] = 0 /\ op.pend[w] = 0
         /\ status = "done" => \A w \in B!Workers : out[w] # "running"
Spilled == plan.disk # 0 /\ op.spilled > plan.disk => \E w \in B!Workers : out[w] = "failed"

BudgetInv == plan.op = "budget" => Shape /\ Counted /\ Within /\ Asking /\ Ended /\ Spilled

\* What every step of a worker starts from.
LEMMA Numbers ==
    ASSUME B!PlansOK, plan.op = "budget", Shape
    PROVE  /\ IsFiniteSet(B!Workers) /\ plan.limit \in Nat /\ plan.disk \in Nat
           /\ Promised(op, plan.limit) \in [B!Workers -> Nat]
           /\ \A w \in B!Workers : Promised(op, plan.limit)[w] = IF op.seen[w] <= plan.limit THEN op.pend[w] ELSE 0
           /\ B!Workers # {} => B!Total(op.held) \in Nat /\ B!Total(op.pend) \in Nat /\ B!Total(Promised(op, plan.limit)) \in Nat
<1>1. IsFiniteSet(B!Workers) /\ plan.limit \in Nat /\ plan.disk \in Nat
  BY SameCount DEF B!PlansOK, Shape, B!Workers
<1>2. /\ Promised(op, plan.limit) \in [B!Workers -> Nat]
      /\ \A w \in B!Workers : Promised(op, plan.limit)[w] = IF op.seen[w] <= plan.limit THEN op.pend[w] ELSE 0
  BY DEF Promised, Shape
<1>3. ASSUME NEW f \in [B!Workers -> Nat], B!Workers # {} PROVE B!Total(f) \in Nat
  BY <1>1, <1>3, TotalSplit
<1> QED
  BY <1>1, <1>2, <1>3 DEF Shape

\* Every guard starts empty (MemTracker::new, MemGuard::new).
LEMMA BudgetInit ==
    ASSUME B!PlansOK, B!Init
    PROVE  BudgetInv
<1> SUFFICES ASSUME plan.op = "budget" PROVE Shape /\ Counted /\ Within /\ Asking /\ Ended /\ Spilled
  BY DEF BudgetInv
<1> DEFINE zero == [w \in B!Workers |-> 0]
<1>1. /\ op = [used |-> 0, held |-> zero, pend |-> zero, seen |-> zero, spilled |-> 0, cancel |-> FALSE]
      /\ plan \in Plans /\ src = plan.asks /\ out = [w \in B!Workers |-> "running"] /\ status = "running"
  BY DEF B!Init, B!Workers
<1>2. zero \in [B!Workers -> Nat] /\ \A w \in B!Workers : zero[w] = 0
  OBVIOUS
<1> HIDE DEF zero
<1>3. Shape
  BY <1>1, <1>2 DEF Shape, B!PlansOK, B!Workers
<1>4. Promised(op, plan.limit) \in [B!Workers -> Nat] /\ \A w \in B!Workers : Promised(op, plan.limit)[w] = 0
  BY <1>1, <1>2, <1>3, Numbers
<1>5. B!Total(zero) = 0 /\ B!Total(Promised(op, plan.limit)) = 0
  BY <1>2, <1>4, TotalNothing
<1>6. plan.limit \in Nat /\ plan.disk \in Nat
  BY <1>3, Numbers
<1> QED
  BY <1>1, <1>2, <1>3, <1>5, <1>6 DEF Counted, Within, Asking, Ended, Spilled

\* A guard is dropped with its worker.
LEMMA DropStep ==
    ASSUME B!PlansOK, plan.op = "budget", BudgetInv, NEW w \in B!Workers, B!Check(w) \/ B!WorkerEnd(w)
    PROVE  BudgetInv'
<1>1. Shape /\ Counted /\ Within /\ Asking /\ Ended /\ Spilled
  BY DEF BudgetInv
<1> DEFINE h == [op.held EXCEPT ![w] = 0]
<1>2. PICK end \in {"stopped", "done"} :
        /\ plan' = plan /\ src' = src /\ status' = status /\ status = "running"
        /\ op.pend[w] = 0 /\ out[w] = "running" /\ out' = [out EXCEPT ![w] = end]
        /\ op' = [op EXCEPT !.used = op.used - op.held[w], !.held = h]
  BY DEF B!Check, B!WorkerEnd, B!Dropped, B!Idle, B!Running
<1>3. /\ DOMAIN op' = DOMAIN op /\ op'.held = h /\ op'.pend = op.pend /\ op'.seen = op.seen
      /\ op'.used = op.used - op.held[w] /\ op'.spilled = op.spilled /\ B!Workers' = B!Workers
  BY <1>1, <1>2 DEF Shape, B!Workers
<1>4. /\ IsFiniteSet(B!Workers) /\ plan.limit \in Nat /\ B!Total(op.pend) \in Nat /\ B!Total(Promised(op, plan.limit)) \in Nat
      /\ op.held \in [B!Workers -> Nat]
  BY <1>1, Numbers DEF Shape
<1>5. h \in [B!Workers -> Nat] /\ B!Total(op.held) \in Nat /\ B!Total(op.held) >= op.held[w] /\ B!Total(h) = B!Total(op.held) - op.held[w] + 0
  BY <1>4, TotalChange
<1>6. op.held[w] \in Nat /\ h[w] = 0 /\ \A v \in B!Workers : v # w => h[v] = op.held[v]
  BY <1>4
<1> HIDE DEF h
<1>7. Promised(op', plan'.limit) = Promised(op, plan.limit)
  BY <1>2, <1>3 DEF Promised
<1>8. PICK a \in Nat, b \in Nat, c \in Nat, d \in Nat :
        a = B!Total(op.held) /\ b = B!Total(op.pend) /\ c = op.held[w] /\ d = B!Total(Promised(op, plan.limit))
  BY <1>4, <1>5, <1>6
<1>9. op'.used \in Nat /\ Counted' /\ Within'
  <2>1. B!Total(h) = a - c /\ a >= c /\ op.used = a + b /\ a + d <= plan.limit
    BY <1>1, <1>5, <1>8 DEF Counted, Within
  <2>2. op'.used = (a - c) + b /\ op'.used \in Nat /\ (a - c) + d <= plan.limit
    BY <1>3, <1>4, <1>8, <2>1
  <2> QED
    BY <1>2, <1>3, <1>7, <1>8, <2>1, <2>2 DEF Counted, Within
<1>10. Shape'
  BY <1>1, <1>2, <1>3, <1>5, <1>9 DEF Shape
<1>11. Asking'
  BY <1>1, <1>2, <1>3 DEF Asking
<1>12. Ended'
  BY <1>1, <1>2, <1>3, <1>6 DEF Ended, Shape
<1>13. Spilled'
  BY <1>1, <1>2, <1>3 DEF Spilled, Shape
<1> QED
  BY <1>9, <1>10, <1>11, <1>12, <1>13 DEF BudgetInv

\* A block that needs nothing more.
LEMMA NothingStep ==
    ASSUME B!PlansOK, plan.op = "budget", BudgetInv, NEW w \in B!Workers, B!GrowNothing(w)
    PROVE  BudgetInv'
<1>1. Shape /\ Counted /\ Within /\ Asking /\ Ended /\ Spilled
  BY DEF BudgetInv
<1>2. /\ plan' = plan /\ op' = op /\ out' = out /\ status' = status
      /\ src[w] # <<>> /\ src' = [src EXCEPT ![w] = Tail(src[w])] /\ op.pend[w] = 0
  BY DEF B!GrowNothing, B!Idle
<1>3. Shape'
  <2>1. src[w] \in Seq(Nat)
    BY <1>1 DEF Shape
  <2>2. Tail(src[w]) \in Seq(Nat)
    BY <1>2, <2>1
  <2> QED
    BY <1>1, <1>2, <2>2 DEF Shape, B!Workers
<1>4. Asking'
  BY <1>1, <1>2 DEF Asking, Shape, B!Workers
<1> QED
  BY <1>1, <1>2, <1>3, <1>4 DEF BudgetInv, Counted, Within, Ended, Spilled, B!Workers

\* fetch_add.
LEMMA AddStep ==
    ASSUME B!PlansOK, plan.op = "budget", BudgetInv, NEW w \in B!Workers, B!Add(w)
    PROVE  BudgetInv'
<1>1. Shape /\ Counted /\ Within /\ Asking /\ Ended /\ Spilled
  BY DEF BudgetInv
<1> DEFINE n == Head(src[w]) - op.held[w]
           p == [op.pend EXCEPT ![w] = n]
           s == [op.seen EXCEPT ![w] = op.used + n]
<1>2. /\ plan' = plan /\ src' = src /\ out' = out /\ status' = status
      /\ src[w] # <<>> /\ Head(src[w]) > op.held[w] /\ op.pend[w] = 0 /\ out[w] = "running"
      /\ op' = [op EXCEPT !.used = op.used + n, !.pend = p, !.seen = s]
  BY DEF B!Add, B!Idle
<1>3. n \in Nat /\ n # 0
  <2>1. Head(src[w]) \in Nat /\ op.held[w] \in Nat
    BY <1>1, <1>2 DEF Shape
  <2> QED
    BY <1>2, <2>1
<1> HIDE DEF n
<1>4. /\ DOMAIN op' = DOMAIN op /\ op'.held = op.held /\ op'.pend = p /\ op'.seen = s
      /\ op'.used = op.used + n /\ op'.spilled = op.spilled /\ B!Workers' = B!Workers
  BY <1>1, <1>2 DEF Shape, B!Workers
<1>5. /\ IsFiniteSet(B!Workers) /\ plan.limit \in Nat /\ B!Total(op.held) \in Nat /\ B!Total(Promised(op, plan.limit)) \in Nat
      /\ op.pend \in [B!Workers -> Nat] /\ op.seen \in [B!Workers -> Nat] /\ op.used \in Nat
  BY <1>1, Numbers DEF Shape
<1>6. p \in [B!Workers -> Nat] /\ B!Total(op.pend) \in Nat /\ B!Total(p) = B!Total(op.pend) - op.pend[w] + n
  <2>1. IsFiniteSet(B!Workers) /\ op.pend \in [B!Workers -> Nat] /\ w \in B!Workers /\ n \in Nat
    BY <1>3, <1>5
  <2> QED
    BY ONLY <2>1, TotalChange
<1>7. s \in [B!Workers -> Nat] /\ s[w] = op.used + n /\ \A v \in B!Workers : v # w => s[v] = op.seen[v]
  BY <1>3, <1>5
<1>8. p[w] = n /\ \A v \in B!Workers : v # w => p[v] = op.pend[v]
  BY <1>5
<1> HIDE DEF p, s
<1>9. PICK a \in Nat, b \in Nat : a = B!Total(op.held) /\ b = B!Total(op.pend)
  BY <1>5, <1>6
<1>10. B!Total(p) = b + n /\ op.used = a + b /\ op.used + n = a + (b + n)
  BY <1>1, <1>2, <1>3, <1>6, <1>9 DEF Counted
<1>11. Shape' /\ Counted'
  <2>1. op'.used \in Nat
    BY <1>3, <1>4, <1>5
  <2>2. Shape'
    BY <1>1, <1>2, <1>4, <1>6, <1>7, <2>1 DEF Shape
  <2>3. Counted'
    BY <1>4, <1>9, <1>10 DEF Counted
  <2> QED
    BY <2>2, <2>3
<1>12. Within'
  <2> DEFINE q == Promised(op', plan'.limit)
  <2>1. q = [v \in B!Workers |-> IF s[v] <= plan.limit THEN p[v] ELSE 0]
    BY <1>2, <1>4, <1>6 DEF Promised
  <2>2. CASE s[w] <= plan.limit
    <3>1. q \in [B!Workers -> Nat] /\ \A v \in B!Workers : q[v] <= p[v]
      BY <1>6, <2>1
    <3> HIDE DEF q
    <3>2. B!Total(q) <= B!Total(p) /\ B!Total(q) \in Nat
      BY <1>5, <1>6, <3>1, TotalLess
    <3>3. a + B!Total(q) <= plan.limit
      BY <1>3, <1>5, <1>7, <1>10, <2>2, <3>2
    <3> QED
      BY <1>2, <1>4, <1>9, <3>3 DEF Within, q
  <2>3. CASE ~(s[w] <= plan.limit)
    <3>1. Promised(op, plan.limit) = [v \in B!Workers |-> IF op.seen[v] <= plan.limit THEN op.pend[v] ELSE 0]
      BY <1>5 DEF Promised
    <3>2. ASSUME NEW v \in B!Workers
          PROVE  (IF s[v] <= plan.limit THEN p[v] ELSE 0) = (IF op.seen[v] <= plan.limit THEN op.pend[v] ELSE 0)
      <4>1. CASE v = w
        BY <1>2, <2>3, <4>1
      <4>2. CASE v # w
        BY <1>7, <1>8, <4>2
      <4> QED
        BY <4>1, <4>2
    <3>3. q = Promised(op, plan.limit)
      BY <2>1, <3>1, <3>2
    <3> QED
      BY <1>1, <1>2, <1>4, <3>3 DEF Within
  <2> QED
    BY <2>2, <2>3
<1>13. Asking'
  BY <1>1, <1>2, <1>4, <1>8 DEF Asking
<1>14. Ended'
  BY <1>1, <1>2, <1>4, <1>8 DEF Ended
<1>15. Spilled'
  BY <1>1, <1>2, <1>4 DEF Spilled
<1> QED
  BY <1>11, <1>12, <1>13, <1>14, <1>15 DEF BudgetInv

\* The comparison succeeds.
LEMMA GrantStep ==
    ASSUME B!PlansOK, plan.op = "budget", BudgetInv, NEW w \in B!Workers, B!Granted(w)
    PROVE  BudgetInv'
<1>1. Shape /\ Counted /\ Within /\ Asking /\ Ended /\ Spilled
  BY DEF BudgetInv
<1> DEFINE n == op.pend[w]
           h == [op.held EXCEPT ![w] = op.held[w] + n]
           p == [op.pend EXCEPT ![w] = 0]
<1>2. /\ plan' = plan /\ out' = out /\ status' = status
      /\ n # 0 /\ op.seen[w] <= plan.limit
      /\ op' = [op EXCEPT !.held = h, !.pend = p]
      /\ src' = [src EXCEPT ![w] = Tail(src[w])]
  BY DEF B!Granted
<1>3. /\ IsFiniteSet(B!Workers) /\ plan.limit \in Nat /\ Promised(op, plan.limit) \in [B!Workers -> Nat]
      /\ op.held \in [B!Workers -> Nat] /\ op.pend \in [B!Workers -> Nat] /\ n \in Nat /\ op.held[w] \in Nat
      /\ Promised(op, plan.limit)[w] = n
  BY <1>1, <1>2, Numbers DEF Shape
<1>4. src[w] # <<>> /\ src[w] \in Seq(Nat) /\ Tail(src[w]) \in Seq(Nat)
  BY <1>1, <1>2 DEF Asking, Shape
<1>5. /\ DOMAIN op' = DOMAIN op /\ op'.held = h /\ op'.pend = p /\ op'.seen = op.seen
      /\ op'.used = op.used /\ op'.spilled = op.spilled /\ B!Workers' = B!Workers
  BY <1>1, <1>2 DEF Shape, B!Workers
<1>6. out[w] = "running"
  BY <1>1, <1>2 DEF Ended
<1> DEFINE q == [Promised(op, plan.limit) EXCEPT ![w] = 0]
<1>7. h \in [B!Workers -> Nat] /\ B!Total(op.held) \in Nat /\ B!Total(h) = B!Total(op.held) - op.held[w] + (op.held[w] + n)
  BY <1>3, TotalChange
<1>8. /\ p \in [B!Workers -> Nat] /\ B!Total(op.pend) \in Nat /\ B!Total(op.pend) >= n
      /\ B!Total(p) = B!Total(op.pend) - n + 0
  <2>1. IsFiniteSet(B!Workers) /\ op.pend \in [B!Workers -> Nat] /\ w \in B!Workers /\ 0 \in Nat
    BY <1>3
  <2> QED
    BY ONLY <2>1, TotalChange
<1>9. /\ B!Total(Promised(op, plan.limit)) \in Nat /\ B!Total(Promised(op, plan.limit)) >= n
      /\ B!Total(q) = B!Total(Promised(op, plan.limit)) - n + 0
  BY <1>3, TotalChange
<1>10. p[w] = 0 /\ \A v \in B!Workers : v # w => p[v] = op.pend[v] /\ h[v] = op.held[v]
  BY <1>3
<1>11. Promised(op', plan'.limit) = q
  <2>1. Promised(op, plan.limit) = [v \in B!Workers |-> IF op.seen[v] <= plan.limit THEN op.pend[v] ELSE 0]
    BY <1>3 DEF Promised
  <2>2. Promised(op', plan'.limit) = [v \in B!Workers |-> IF op.seen[v] <= plan.limit THEN p[v] ELSE 0]
    BY <1>2, <1>5, <1>8 DEF Promised
  <2>3. q = [v \in B!Workers |-> IF v = w THEN 0 ELSE Promised(op, plan.limit)[v]]
    BY <1>3
  <2>4. ASSUME NEW v \in B!Workers
        PROVE  (IF op.seen[v] <= plan.limit THEN p[v] ELSE 0) = (IF v = w THEN 0 ELSE Promised(op, plan.limit)[v])
    BY <1>10, <2>1
  <2> HIDE DEF q, p
  <2> QED
    BY <2>2, <2>3, <2>4
<1> HIDE DEF h, p, q, n
<1>12. PICK a \in Nat, b \in Nat, c \in Nat, d \in Nat :
         a = B!Total(op.held) /\ b = B!Total(op.pend) /\ c = op.held[w] /\ d = B!Total(Promised(op, plan.limit))
  BY <1>3, <1>7, <1>8, <1>9
<1>13. B!Total(h) = a + n /\ B!Total(p) = b - n /\ B!Total(q) = d - n
  BY <1>3, <1>7, <1>8, <1>9, <1>12
<1>14. Shape'
  BY <1>1, <1>2, <1>4, <1>5, <1>7, <1>8 DEF Shape
<1>15. Counted' /\ Within'
  <2>1. op.used = a + b /\ a + d <= plan.limit
    BY <1>1, <1>12 DEF Counted, Within
  <2>2. op.used = (a + n) + (b - n) /\ (a + n) + (d - n) <= plan.limit
    BY <1>3, <2>1
  <2> QED
    BY <1>2, <1>5, <1>11, <1>13, <2>2 DEF Counted, Within
<1>16. Asking'
  BY <1>1, <1>2, <1>4, <1>5, <1>10 DEF Asking, Shape
<1>17. Ended'
  BY <1>1, <1>2, <1>5, <1>6, <1>10 DEF Ended
<1>18. Spilled'
  BY <1>1, <1>2, <1>5 DEF Spilled
<1> QED
  BY <1>14, <1>15, <1>16, <1>17, <1>18 DEF BudgetInv

\* The comparison fails: fetch_sub, and the spill.
LEMMA RefuseStep ==
    ASSUME B!PlansOK, plan.op = "budget", BudgetInv, NEW w \in B!Workers, B!Refused(w)
    PROVE  BudgetInv'
<1>1. Shape /\ Counted /\ Within /\ Asking /\ Ended /\ Spilled
  BY DEF BudgetInv
<1> DEFINE n == op.pend[w]
           h == [op.held EXCEPT ![w] = 0]
           p == [op.pend EXCEPT ![w] = 0]
           bytes == Head(src[w])
           fits == plan.disk = 0 \/ op.spilled + bytes <= plan.disk
           disk == IF plan.disk = 0 THEN op.spilled ELSE op.spilled + bytes
<1>2. /\ plan' = plan /\ status' = status
      /\ n # 0 /\ ~(op.seen[w] <= plan.limit)
      /\ op' = [op EXCEPT !.held = h, !.used = op.used - n - op.held[w], !.pend = p, !.spilled = disk]
      /\ out' = [out EXCEPT ![w] = IF fits THEN out[w] ELSE "failed"]
      /\ src' = [src EXCEPT ![w] = Tail(src[w])]
  <2>1. op.seen[w] > plan.limit => ~(op.seen[w] <= plan.limit)
    BY <1>1, Numbers DEF Shape
  <2>2. [B!Dropped(op, w) EXCEPT !.used = op.used - n - op.held[w], !.pend = p, !.spilled = disk]
          = [op EXCEPT !.held = h, !.used = op.used - n - op.held[w], !.pend = p, !.spilled = disk]
    BY <1>1 DEF B!Dropped, Shape
  <2>3. B!Dropped(op, w).pend = op.pend /\ B!Dropped(op, w).spilled = op.spilled
    BY <1>1 DEF B!Dropped, Shape
  <2>4. /\ plan' = plan /\ status' = status /\ op.pend[w] # 0 /\ op.seen[w] > plan.limit
        /\ src' = [src EXCEPT ![w] = Tail(src[w])]
        /\ out' = [out EXCEPT ![w] = IF fits THEN out[w] ELSE "failed"]
    BY DEF B!Refused
  <2>5. op' = [B!Dropped(op, w) EXCEPT !.used = op.used - n - op.held[w], !.pend = p, !.spilled = disk]
    BY <2>3 DEF B!Refused
  <2> QED
    BY <2>1, <2>2, <2>4, <2>5
<1>3. /\ IsFiniteSet(B!Workers) /\ plan.limit \in Nat /\ plan.disk \in Nat /\ Promised(op, plan.limit) \in [B!Workers -> Nat]
      /\ op.held \in [B!Workers -> Nat] /\ op.pend \in [B!Workers -> Nat] /\ n \in Nat /\ op.held[w] \in Nat
      /\ B!Total(Promised(op, plan.limit)) \in Nat
  BY <1>1, <1>2, Numbers DEF Shape
<1>4. src[w] # <<>> /\ src[w] \in Seq(Nat) /\ Tail(src[w]) \in Seq(Nat) /\ bytes \in Nat
  BY <1>1, <1>2 DEF Asking, Shape
<1>5. /\ DOMAIN op' = DOMAIN op /\ op'.held = h /\ op'.pend = p /\ op'.seen = op.seen
      /\ op'.used = op.used - n - op.held[w] /\ op'.spilled = disk /\ B!Workers' = B!Workers
  BY <1>1, <1>2 DEF Shape, B!Workers
<1>6. out[w] = "running"
  BY <1>1, <1>2 DEF Ended
<1>7. h \in [B!Workers -> Nat] /\ B!Total(op.held) \in Nat /\ B!Total(op.held) >= op.held[w] /\ B!Total(h) = B!Total(op.held) - op.held[w] + 0
  <2>1. IsFiniteSet(B!Workers) /\ op.held \in [B!Workers -> Nat] /\ w \in B!Workers /\ 0 \in Nat
    BY <1>3
  <2> QED
    BY ONLY <2>1, TotalChange
<1>8. /\ p \in [B!Workers -> Nat] /\ B!Total(op.pend) \in Nat /\ B!Total(op.pend) >= n
      /\ B!Total(p) = B!Total(op.pend) - n + 0
  <2>1. IsFiniteSet(B!Workers) /\ op.pend \in [B!Workers -> Nat] /\ w \in B!Workers /\ 0 \in Nat
    BY <1>3
  <2> QED
    BY ONLY <2>1, TotalChange
<1>9. p[w] = 0 /\ h[w] = 0 /\ \A v \in B!Workers : v # w => p[v] = op.pend[v] /\ h[v] = op.held[v]
  BY <1>3
<1>10. Promised(op', plan'.limit) = Promised(op, plan.limit)
  <2>1. Promised(op, plan.limit) = [v \in B!Workers |-> IF op.seen[v] <= plan.limit THEN op.pend[v] ELSE 0]
    BY <1>3 DEF Promised
  <2>2. Promised(op', plan'.limit) = [v \in B!Workers |-> IF op.seen[v] <= plan.limit THEN p[v] ELSE 0]
    BY <1>2, <1>5, <1>8 DEF Promised
  <2>3. ASSUME NEW v \in B!Workers
        PROVE  (IF op.seen[v] <= plan.limit THEN p[v] ELSE 0) = (IF op.seen[v] <= plan.limit THEN op.pend[v] ELSE 0)
    BY <1>2, <1>9
  <2> HIDE DEF p
  <2> QED
    BY <2>1, <2>2, <2>3
<1> HIDE DEF h, p, n
<1>11. PICK a \in Nat, b \in Nat, c \in Nat, d \in Nat :
         a = B!Total(op.held) /\ b = B!Total(op.pend) /\ c = op.held[w] /\ d = B!Total(Promised(op, plan.limit))
  BY <1>3, <1>7, <1>8
<1>12. op'.used \in Nat /\ Counted' /\ Within'
  <2>1. B!Total(h) = a - c /\ B!Total(p) = b - n /\ a >= c /\ b >= n /\ op.used = a + b /\ a + d <= plan.limit
    BY <1>1, <1>3, <1>7, <1>8, <1>11 DEF Counted, Within
  <2>2. op'.used = (a - c) + (b - n) /\ op'.used \in Nat /\ (a - c) + d <= plan.limit
    BY <1>3, <1>5, <1>11, <2>1
  <2> QED
    BY <1>2, <1>5, <1>10, <1>11, <2>1, <2>2 DEF Counted, Within
<1>13. disk \in Nat /\ op.spilled \in Nat
  BY <1>1, <1>4 DEF Shape
<1>14. Shape'
  <2>1. plan' \in Plans /\ DOMAIN out' = B!Workers /\ DOMAIN src' = B!Workers /\ \A v \in B!Workers : src'[v] \in Seq(Nat)
    BY <1>1, <1>2, <1>4 DEF Shape
  <2> HIDE DEF disk
  <2> QED
    BY <1>1, <1>5, <1>7, <1>8, <1>12, <1>13, <2>1 DEF Shape
<1>15. Asking'
  BY <1>1, <1>2, <1>4, <1>5, <1>9 DEF Asking, Shape
<1>16. Ended'
  <2>1. ASSUME NEW v \in B!Workers, out'[v] # "running" PROVE h[v] = 0 /\ p[v] = 0
    <3>1. CASE v = w
      BY <1>9, <3>1
    <3>2. CASE v # w
      <4>1. out'[v] = out[v]
        BY <1>1, <1>2, <3>2 DEF Shape
      <4> QED
        BY <1>1, <1>9, <2>1, <3>2, <4>1 DEF Ended
    <3> QED
      BY <3>1, <3>2
  <2>2. status' # "done"
    <3>1. status # "done"
      BY <1>1, <1>6 DEF Ended
    <3> QED
      BY <1>2, <3>1
  <2> QED
    BY <1>5, <2>1, <2>2 DEF Ended
<1>17. Spilled'
  <2>1. ASSUME plan.disk # 0, disk > plan.disk PROVE out'[w] = "failed"
    <3>1. ~fits
      BY <1>3, <1>4, <1>13, <2>1
    <3> QED
      BY <1>1, <1>2, <3>1 DEF Shape
  <2> HIDE DEF disk, fits
  <2> QED
    BY <1>2, <1>5, <2>1 DEF Spilled
<1> QED
  BY <1>12, <1>14, <1>15, <1>16, <1>17 DEF BudgetInv

\* Every step of every worker, QueryContext::stop and the end of the query.
LEMMA BudgetNext ==
    ASSUME B!PlansOK, BudgetInv, [B!Next]_B!vars
    PROVE  BudgetInv'
<1>1. CASE UNCHANGED B!vars
  BY <1>1 DEF B!vars, BudgetInv, Shape, Counted, Within, Asking, Ended, Spilled, B!Workers
<1>2. CASE plan.op # "budget"
  <2>1. ASSUME B!Next PROVE FALSE
    BY <1>2, <2>1 DEF B!Next, B!Step, B!Check, B!GrowNothing, B!Add, B!Granted, B!Refused, B!WorkerEnd, B!Stop, B!End, B!Idle, B!Running
  <2> QED
    BY <1>1, <2>1
<1>3. CASE plan.op = "budget" /\ B!Next
  <2>1. ASSUME NEW w \in B!Workers, B!Step(w) PROVE BudgetInv'
    BY <1>3, <2>1, DropStep, NothingStep, AddStep, GrantStep, RefuseStep DEF B!Step
  <2>2. CASE B!Stop
    <3>1. /\ plan' = plan /\ src' = src /\ out' = out /\ status' = status /\ op' = [op EXCEPT !.cancel = TRUE]
      BY <2>2 DEF B!Stop
    <3>2. Shape
      BY <1>3 DEF BudgetInv
    <3>3. /\ DOMAIN op' = DOMAIN op /\ op'.held = op.held /\ op'.pend = op.pend /\ op'.seen = op.seen
          /\ op'.used = op.used /\ op'.spilled = op.spilled /\ B!Workers' = B!Workers
      BY <3>1, <3>2 DEF Shape, B!Workers
    <3>4. Promised(op', plan'.limit) = Promised(op, plan.limit)
      BY <3>1, <3>3 DEF Promised
    <3> QED
      BY <1>3, <3>1, <3>3, <3>4 DEF BudgetInv, Shape, Counted, Within, Asking, Ended, Spilled
  <2>3. CASE B!End
    <3>1. plan' = plan /\ src' = src /\ op' = op /\ out' = out /\ \A w \in B!Workers : out[w] # "running"
      BY <2>3 DEF B!End
    <3> QED
      BY <1>3, <3>1 DEF BudgetInv, Shape, Counted, Within, Asking, Ended, Spilled, B!Workers
  <2> QED
    BY <1>3, <2>1, <2>2, <2>3 DEF B!Next
<1> QED
  BY <1>1, <1>2, <1>3

\* The guards of a query hold no more than its limit whatever the order in which
\* its workers reserve, are refused and spill (MemTracker::reserve, MemGuard,
\* SpillBudget): the counter is what is held or under judgement, a query that
\* has ended has given every byte back, and the disk budget is passed only by a
\* query that fails.
THEOREM BudgetIsKept ==
    ASSUME B!PlansOK
    PROVE  B!Spec => []B!BudgetKept
<1>1. B!Init => BudgetInv
  BY BudgetInit
<1>2. BudgetInv /\ [B!Next]_B!vars => BudgetInv'
  BY BudgetNext
<1>3. BudgetInv => B!BudgetKept
  <2> SUFFICES ASSUME BudgetInv, plan.op = "budget" PROVE B!BudgetKept
    BY DEF B!BudgetKept
  <2>1. Shape /\ Counted /\ Within /\ Ended /\ Spilled
    BY DEF BudgetInv
  <2>2. /\ IsFiniteSet(B!Workers) /\ plan.limit \in Nat /\ Promised(op, plan.limit) \in [B!Workers -> Nat]
        /\ op.held \in [B!Workers -> Nat] /\ op.pend \in [B!Workers -> Nat]
    BY <2>1, Numbers DEF Shape
  <2>3. B!Total(op.held) <= plan.limit
    <3>1. B!Total(op.held) \in Nat /\ B!Total(Promised(op, plan.limit)) \in Nat
      BY <2>2, TotalLess
    <3> QED
      BY <2>1, <2>2, <3>1 DEF Within
  <2>4. ASSUME status = "done" PROVE op.used = 0
    <3>1. \A w \in B!Workers : op.held[w] = 0 /\ op.pend[w] = 0
      BY <2>1, <2>4 DEF Ended
    <3>2. B!Total(op.held) = 0 /\ B!Total(op.pend) = 0
      BY <2>2, <3>1, TotalNothing
    <3> QED
      BY <2>1, <3>2 DEF Counted
  <2> QED
    BY <2>1, <2>3, <2>4 DEF B!BudgetKept, Counted, Spilled
<1> QED
  BY <1>1, <1>2, <1>3, PTL DEF B!Spec
=============================================================================
