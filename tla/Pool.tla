-------------------------------- MODULE Pool --------------------------------
(***************************************************************************)
(* The worker pool of common/pool.rs: for_each and map publish a job that  *)
(* lives on the caller's stack, parked workers and the caller itself claim *)
(* its indices from one counter, and the caller returns when no worker can *)
(* still reach the job.                                                    *)
(*                                                                         *)
(* A job is named by its caller, since a caller has one job at a time.     *)
(* Everything done under the pool's mutex is one step; the counter, the    *)
(* items and the notifications are outside it and are steps of their own.  *)
(* A condition variable is the set of threads in its waiting phase: a      *)
(* notification without a waiter is lost, and a waiter may wake for no     *)
(* reason.  A nested call runs inline on its own frame (in_pool) and       *)
(* touches none of this state: it is part of the item that makes it.  A    *)
(* call with no items returns at once and is left out.                     *)
(***************************************************************************)
EXTENDS Naturals, Sequences, FiniteSets

CONSTANTS
    Workers,    \* the threads of the pool
    Callers,    \* the threads that call for_each or map
    MaxItems,   \* bound on the items of a job
    MaxCalls,   \* bound on the calls of a caller
    None        \* no value

ASSUME PoolAssumption ==
    /\ IsFiniteSet(Workers)
    /\ Workers \cap Callers = {}
    /\ MaxItems \in Nat
    /\ MaxCalls \in Nat
    /\ None \notin Callers
    /\ None \notin Nat

VARIABLES
    jobs,       \* State::jobs, the published jobs, oldest first
    job,        \* each caller's Job; ran counts the executions of an index
    phase,      \* where each thread is
    on,         \* the job whose indices a thread is claiming
    item,       \* the index a thread is running
    wakes,      \* notify_one calls a caller still has to make
    calls,      \* calls made so far
    shutdown    \* State::shutdown, and whether the broadcast followed

vars == <<jobs, job, phase, on, item, wakes, calls, shutdown>>

Threads == Workers \cup Callers
Indices == 0 .. (MaxItems - 1)

\* Job::new
NewJob(n) ==
    [n |-> n, next |-> 0, active |-> 0, ran |-> [i \in Indices |-> 0], failed |-> {}]

Least(a, b) == IF a < b THEN a ELSE b

Goto(t, p) == phase' = [phase EXCEPT ![t] = p]

Init ==
    /\ jobs = <<>>
    /\ job = [s \in Callers |-> NewJob(0)]
    /\ phase = [t \in Threads |-> IF t \in Workers THEN "look" ELSE "idle"]
    /\ on = [t \in Threads |-> None]
    /\ item = [t \in Threads |-> None]
    /\ wakes = [s \in Callers |-> 0]
    /\ calls = [s \in Callers |-> 0]
    /\ shutdown = "no"

(***************************************************************************)
(* The caller: Pool::run.                                                  *)
(***************************************************************************)
Enter(s, n) ==
    /\ phase[s] = "idle"
    /\ shutdown = "no"
    /\ calls[s] < MaxCalls
    /\ calls' = [calls EXCEPT ![s] = @ + 1]
    /\ job' = [job EXCEPT ![s] = NewJob(n)]
    /\ on' = [on EXCEPT ![s] = s]

\* One item, or nobody to wake: no publishing.
CallSerial(s, n) ==
    /\ n = 1 \/ Workers = {}
    /\ Enter(s, n)
    /\ Goto(s, "claim")
    /\ UNCHANGED <<jobs, item, wakes, shutdown>>

Publish(s, n) ==
    /\ n > 1 /\ Workers # {}
    /\ Enter(s, n)
    /\ jobs' = Append(jobs, s)
    /\ wakes' = [wakes EXCEPT ![s] = Least(n - 1, Cardinality(Workers))]
    /\ Goto(s, "wake")
    /\ UNCHANGED <<item, shutdown>>

Parked == {w \in Workers : phase[w] = "parked"}

\* notify_one: some parked worker, if there is one.
Notify(s) ==
    /\ phase[s] = "wake"
    /\ wakes[s] > 0
    /\ wakes' = [wakes EXCEPT ![s] = @ - 1]
    /\ IF Parked = {} THEN UNCHANGED phase ELSE \E w \in Parked : Goto(w, "look")
    /\ UNCHANGED <<jobs, job, on, item, calls, shutdown>>

StartDrain(s) ==
    /\ phase[s] = "wake"
    /\ wakes[s] = 0
    /\ Goto(s, "claim")
    /\ UNCHANGED <<jobs, job, on, item, wakes, calls, shutdown>>

Listed(s) == \E k \in 1 .. Len(jobs) : jobs[k] = s

\* jobs.retain(not this one); a job is on the list at most once.
Remaining(s) ==
    IF Listed(s)
    THEN LET k == CHOOSE k \in 1 .. Len(jobs) : jobs[k] = s
         IN  [i \in 1 .. (Len(jobs) - 1) |-> IF i < k THEN jobs[i] ELSE jobs[i + 1]]
    ELSE jobs

\* Retire::drop takes the lock: off the list first, then wait for the helpers.
Retire(s) ==
    /\ phase[s] = "retire"
    /\ jobs' = Remaining(s)
    /\ Goto(s, "retired")
    /\ UNCHANGED <<job, on, item, wakes, calls, shutdown>>

\* Mutant of Quiet: the caller does not wait for its helpers.
NobodyAsked(s) == TRUE

Quiet(s) == job[s].active = 0

WaitDone(s) ==
    /\ phase[s] = "retired"
    /\ ~Quiet(s)
    /\ Goto(s, "waiting")
    /\ UNCHANGED <<jobs, job, on, item, wakes, calls, shutdown>>

\* The frame that owns the job is gone after this step.
Return(s) ==
    /\ phase[s] = "retired"
    /\ Quiet(s)
    /\ Goto(s, "idle")
    /\ on' = [on EXCEPT ![s] = None]
    /\ UNCHANGED <<jobs, job, item, wakes, calls, shutdown>>

(***************************************************************************)
(* Job::drain, run by the caller and by its helpers.                       *)
(***************************************************************************)
\* Mutant of Claimed: a load and a store, so that a racing claim is lost.
ClaimLost(s, i) ==
    IF \E t \in Workers : on[t] = s /\ phase[t] = "claim" THEN i ELSE i + 1

\* fetch_add
Claimed(s, i) == i + 1

Claim(t) ==
    /\ phase[t] = "claim"
    /\ LET s == on[t]
           i == job[s].next
       IN  /\ job' = [job EXCEPT ![s].next = Claimed(s, i)]
           /\ IF i < job[s].n
              THEN Goto(t, "run") /\ item' = [item EXCEPT ![t] = i]
              ELSE /\ Goto(t, IF t \in Callers THEN "retire" ELSE "clear")
                   /\ UNCHANGED item
    /\ UNCHANGED <<jobs, on, wakes, calls, shutdown>>

\* An item runs to its end or panics; a panic is recorded and the job goes on.
Run(t, panics) ==
    /\ phase[t] = "run"
    /\ LET s == on[t]
           i == item[t]
       IN  job' = [job EXCEPT ![s].ran[i] = @ + 1,
                              ![s].failed = IF panics THEN @ \cup {i} ELSE @]
    /\ item' = [item EXCEPT ![t] = None]
    /\ Goto(t, "claim")
    /\ UNCHANGED <<jobs, on, wakes, calls, shutdown>>

(***************************************************************************)
(* The worker loop.                                                        *)
(***************************************************************************)
HasWork(s) == job[s].next < job[s].n

\* The oldest job with work left.
Oldest(k) ==
    /\ HasWork(jobs[k])
    /\ \A j \in 1 .. (k - 1) : ~HasWork(jobs[j])

\* Mutant of Help: the helper does not announce itself.
HelpUnannounced(w) ==
    /\ phase[w] = "look"
    /\ shutdown = "no"
    /\ \E k \in 1 .. Len(jobs) : Oldest(k) /\ on' = [on EXCEPT ![w] = jobs[k]]
    /\ Goto(w, "claim")
    /\ UNCHANGED <<jobs, job, item, wakes, calls, shutdown>>

\* active is incremented before the mutex is released.
Help(w) ==
    /\ phase[w] = "look"
    /\ shutdown = "no"
    /\ \E k \in 1 .. Len(jobs) :
        /\ Oldest(k)
        /\ job' = [job EXCEPT ![jobs[k]].active = @ + 1]
        /\ on' = [on EXCEPT ![w] = jobs[k]]
    /\ Goto(w, "claim")
    /\ UNCHANGED <<jobs, item, wakes, calls, shutdown>>

Park(w) ==
    /\ phase[w] = "look"
    /\ shutdown = "no"
    /\ \A k \in 1 .. Len(jobs) : ~HasWork(jobs[k])
    /\ Goto(w, "parked")
    /\ UNCHANGED <<jobs, job, on, item, wakes, calls, shutdown>>

Exit(w) ==
    /\ phase[w] = "look"
    /\ shutdown # "no"
    /\ Goto(w, "exited")
    /\ UNCHANGED <<jobs, job, on, item, wakes, calls, shutdown>>

\* Mutant of Woken: the helpers leave without a word.
NobodyWoken(w) == [phase EXCEPT ![w] = "look"]

\* done.notify_all, and on to the next look.
Woken(w) ==
    [t \in Threads |->
        IF t = w THEN "look" ELSE IF phase[t] = "waiting" THEN "retired" ELSE phase[t]]

\* Clear::drop: the decrement and the broadcast, under the mutex.
Clear(w) ==
    /\ phase[w] = "clear"
    /\ job' = [job EXCEPT ![on[w]].active = @ - 1]
    /\ on' = [on EXCEPT ![w] = None]
    /\ phase' = Woken(w)
    /\ UNCHANGED <<jobs, item, wakes, calls, shutdown>>

SpuriousWakeup(t) ==
    /\ phase[t] \in {"parked", "waiting"}
    /\ Goto(t, IF phase[t] = "parked" THEN "look" ELSE "retired")
    /\ UNCHANGED <<jobs, job, on, item, wakes, calls, shutdown>>

(***************************************************************************)
(* Pool::drop.  Nobody is inside a call: every call borrows the pool.      *)
(***************************************************************************)
Shutdown ==
    /\ shutdown = "no"
    /\ \A s \in Callers : phase[s] = "idle" /\ calls[s] = MaxCalls
    /\ shutdown' = "set"
    /\ UNCHANGED <<jobs, job, phase, on, item, wakes, calls>>

\* Mutant of NotifyAll: the drop wakes one worker.
NotifyOneWorker ==
    /\ shutdown = "set"
    /\ shutdown' = "notified"
    /\ IF Parked = {} THEN UNCHANGED phase ELSE \E w \in Parked : Goto(w, "look")
    /\ UNCHANGED <<jobs, job, on, item, wakes, calls>>

NotifyAll ==
    /\ shutdown = "set"
    /\ shutdown' = "notified"
    /\ phase' = [t \in Threads |-> IF phase[t] = "parked" THEN "look" ELSE phase[t]]
    /\ UNCHANGED <<jobs, job, on, item, wakes, calls>>

CallerStep(s) ==
    \/ Notify(s)
    \/ StartDrain(s)
    \/ Retire(s)
    \/ WaitDone(s)
    \/ Return(s)

DrainStep(t) == Claim(t) \/ \E panics \in BOOLEAN : Run(t, panics)

WorkerStep(w) == Help(w) \/ Park(w) \/ Exit(w) \/ Clear(w)

Next ==
    \/ \E s \in Callers, n \in 1 .. MaxItems : CallSerial(s, n) \/ Publish(s, n)
    \/ \E s \in Callers : CallerStep(s)
    \/ \E t \in Threads : DrainStep(t) \/ SpuriousWakeup(t)
    \/ \E w \in Workers : WorkerStep(w)
    \/ Shutdown
    \/ NotifyAll

\* Every thread that can take a step takes one in the end.
Fairness ==
    /\ \A s \in Callers : WF_vars(CallerStep(s) \/ DrainStep(s))
    /\ \A w \in Workers : WF_vars(WorkerStep(w) \/ DrainStep(w))
    /\ WF_vars(NotifyAll)

Spec == Init /\ [][Next]_vars /\ Fairness

(***************************************************************************)
(* Properties.                                                             *)
(***************************************************************************)
CallerPhases == {"idle", "wake", "claim", "run", "retire", "retired", "waiting"}
WorkerPhases == {"look", "parked", "claim", "run", "clear", "exited"}

Jobs == [n : 0 .. MaxItems, next : Nat, active : Nat,
         ran : [Indices -> Nat], failed : SUBSET Indices]

\* Types; the list holds callers, and the phases are those of the role.
TypeOK ==
    /\ jobs \in Seq(Callers)
    /\ job \in [Callers -> Jobs]
    /\ phase \in [Threads -> CallerPhases \cup WorkerPhases]
    /\ \A s \in Callers : phase[s] \in CallerPhases
    /\ \A w \in Workers : phase[w] \in WorkerPhases
    /\ on \in [Threads -> Callers \cup {None}]
    /\ item \in [Threads -> Indices \cup {None}]
    /\ wakes \in [Callers -> Nat]
    /\ calls \in [Callers -> Nat]
    /\ shutdown \in {"no", "set", "notified"}

\* No thread reaches a job whose frame is gone: the borrow that Pool::run
\* launders to 'static is sound ("Why the borrow is sound").
NoDanglingJob ==
    /\ \A w \in Workers : on[w] # None => phase[on[w]] # "idle"
    /\ \A k \in 1 .. Len(jobs) : phase[jobs[k]] # "idle"

\* A call that is about to return has run every index exactly once, so that
\* every slot map hands out was written, and written by one thread
\* (Job::drain, Pool::map).
EachIndexOnce ==
    \A s \in Callers :
        phase[s] = "retired" /\ Quiet(s) =>
            \A i \in 0 .. (job[s].n - 1) : job[s].ran[i] = 1

\* Every call returns (Pool::run, Retire::drop, the worker loop).
EveryCallReturns ==
    \A s \in Callers : (phase[s] # "idle") ~> (phase[s] = "idle")

\* A dropped pool joins all of its workers (Pool::drop).
EveryWorkerExits ==
    (shutdown # "no") ~> (\A w \in Workers : phase[w] = "exited")
=============================================================================
