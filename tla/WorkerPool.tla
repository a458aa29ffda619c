----------------------------- MODULE WorkerPool -----------------------------
(***************************************************************************)
(* A thread pool with a bounded backlog (helpers/Workers.cc): handlers     *)
(* push jobs, the threads sleep on a condition variable and pop them, and  *)
(* stop() drains what was accepted before it joins the threads.            *)
(***************************************************************************)
EXTENDS Integers, Sequences

CONSTANTS
    Threads,   \* BLOG_AUTH_WORKERS, BLOG_MEDIA_WORKERS
    Jobs,      \* each is submitted at most once
    Capacity,  \* the backlog, 64 or 16
    None

ASSUME PoolAssumption ==
    /\ Capacity \in Nat \ {0}
    /\ Threads # {}
    /\ None \notin Jobs

VARIABLES
    queue,
    rejected,   \* jobs push() refused
    notifying,  \* jobs pushed whose notify_one has not run yet
    ran,        \* jobs that ran, to a return or an exception
    thread,     \* where each worker is
    job,        \* what it holds
    stopping,
    stopper     \* where stop() is

work == <<queue, rejected, notifying, ran>>
crew == <<thread, job>>
vars == <<work, crew, stopping, stopper>>

Awake == {"free", "running"}

Busy == {t \in Threads : thread[t] = "running"}
Queued == {queue[i] : i \in DOMAIN queue}
Held == {job[t] : t \in Busy}
Accepted == Queued \cup Held \cup ran

(* start() has returned: nothing submits before.                            *)
Init ==
    /\ queue = <<>> /\ rejected = {} /\ notifying = {} /\ ran = {}
    /\ thread = [t \in Threads |-> "free"]
    /\ job = [t \in Threads |-> None]
    /\ stopping = FALSE /\ stopper = "idle"

-----------------------------------------------------------------------------
New(j) == j \notin Accepted \cup rejected

(* Mutant: the backlog is checked as if it were one longer.                 *)
HasRoomForOneMore == Len(queue) <= Capacity

(* push(), under the lock.                                                  *)
HasRoom == Len(queue) < Capacity

Submit(j) ==
    /\ New(j)
    /\ ~stopping /\ HasRoom
    /\ queue' = Append(queue, j)
    /\ notifying' = notifying \cup {j}
    /\ UNCHANGED <<rejected, ran, crew, stopping, stopper>>

(* submit() or push() says no; offload() answers 503.                       *)
Refuse(j) ==
    /\ New(j)
    /\ stopping \/ ~HasRoom
    /\ rejected' = rejected \cup {j}
    /\ UNCHANGED <<queue, notifying, ran, crew, stopping, stopper>>

Wake(t) == thread' = [thread EXCEPT ![t] = "free"]

Sleeping == {t \in Threads : thread[t] = "waiting"}

(* Mutant: nobody is woken.                                                 *)
NotifyNobody(j) ==
    /\ j \in notifying
    /\ notifying' = notifying \ {j}
    /\ UNCHANGED <<queue, rejected, ran, crew, stopping, stopper>>

(* notify_one, after the lock was released.                                 *)
Notify(j) ==
    /\ j \in notifying
    /\ notifying' = notifying \ {j}
    /\ \/ Sleeping = {} /\ UNCHANGED thread
       \/ \E t \in Sleeping : Wake(t)
    /\ UNCHANGED <<queue, rejected, ran, job, stopping, stopper>>

-----------------------------------------------------------------------------
(* Mutant: a thread that was woken does not look again.                     *)
PopBlindly(t) ==
    /\ thread[t] = "free"
    /\ job' = [job EXCEPT ![t] = IF queue = <<>> THEN "moved-from" ELSE Head(queue)]
    /\ queue' = IF queue = <<>> THEN <<>> ELSE Tail(queue)
    /\ thread' = [thread EXCEPT ![t] = "running"]
    /\ UNCHANGED <<rejected, notifying, ran, stopping, stopper>>

(* Mutant: the job is copied and stays in the queue until it has run.       *)
PeekOnly(t) ==
    /\ thread[t] = "free" /\ queue # <<>>
    /\ job' = [job EXCEPT ![t] = Head(queue)]
    /\ thread' = [thread EXCEPT ![t] = "running"]
    /\ UNCHANGED <<queue, rejected, notifying, ran, stopping, stopper>>

(* workerLoop, from the wait's predicate to the pop.                        *)
Pop(t) ==
    /\ thread[t] = "free" /\ queue # <<>>
    /\ job' = [job EXCEPT ![t] = Head(queue)]
    /\ queue' = Tail(queue)
    /\ thread' = [thread EXCEPT ![t] = "running"]
    /\ UNCHANGED <<rejected, notifying, ran, stopping, stopper>>

Wait(t) ==
    /\ thread[t] = "free" /\ queue = <<>> /\ ~stopping
    /\ thread' = [thread EXCEPT ![t] = "waiting"]
    /\ UNCHANGED <<work, job, stopping, stopper>>

SpuriousWakeup(t) ==
    /\ thread[t] = "waiting"
    /\ Wake(t)
    /\ UNCHANGED <<work, job, stopping, stopper>>

(* Mutant: a stopping pool leaves its queue.                                *)
ExitWithoutDraining(t) ==
    /\ thread[t] = "free" /\ stopping
    /\ thread' = [thread EXCEPT ![t] = "exited"]
    /\ UNCHANGED <<work, job, stopping, stopper>>

Exit(t) ==
    /\ thread[t] = "free" /\ queue = <<>> /\ stopping
    /\ thread' = [thread EXCEPT ![t] = "exited"]
    /\ UNCHANGED <<work, job, stopping, stopper>>

(* The job returns or throws: the thread goes on (and --active).            *)
Run(t) ==
    /\ thread[t] = "running"
    /\ ran' = ran \cup {job[t]}
    /\ job' = [job EXCEPT ![t] = None]
    /\ Wake(t)
    /\ UNCHANGED <<queue, rejected, notifying, stopping, stopper>>

-----------------------------------------------------------------------------
(* shutdown(): the flag under the lock, ...                                 *)
Stop ==
    /\ stopper = "idle"
    /\ stopping' = TRUE
    /\ stopper' = "flagged"
    /\ UNCHANGED <<work, crew>>

(* Mutant: one thread is told.                                              *)
NotifyOneOnStop ==
    /\ stopper = "flagged"
    /\ \/ Sleeping = {} /\ UNCHANGED thread
       \/ \E t \in Sleeping : Wake(t)
    /\ stopper' = "joining"
    /\ UNCHANGED <<work, job, stopping>>

(* ... notify_all, ...                                                      *)
NotifyAll ==
    /\ stopper = "flagged"
    /\ thread' = [t \in Threads |-> IF thread[t] = "waiting" THEN "free" ELSE thread[t]]
    /\ stopper' = "joining"
    /\ UNCHANGED <<work, job, stopping>>

(* ... and the join; stop() then clears g_started, which hides nothing new. *)
Join ==
    /\ stopper = "joining"
    /\ \A t \in Threads : thread[t] = "exited"
    /\ stopper' = "joined"
    /\ UNCHANGED <<work, crew, stopping>>

Stopped == stopper = "joined" /\ notifying = {} /\ UNCHANGED vars

Work(t) == Pop(t) \/ Wait(t) \/ Exit(t) \/ Run(t)

Next ==
    \/ \E j \in Jobs : Submit(j) \/ Refuse(j) \/ Notify(j)
    \/ \E t \in Threads : Work(t) \/ SpuriousWakeup(t)
    \/ Stop \/ NotifyAll \/ Join \/ Stopped

Spec == Init /\ [][Next]_vars

-----------------------------------------------------------------------------
TypeOK ==
    /\ queue \in Seq(Jobs)
    /\ rejected \in SUBSET Jobs /\ notifying \in SUBSET Jobs /\ ran \in SUBSET Jobs
    /\ thread \in [Threads -> {"free", "waiting", "running", "exited"}]
    /\ job \in [Threads -> Jobs \cup {None}]
    /\ stopping \in BOOLEAN
    /\ stopper \in {"idle", "flagged", "joining", "joined"}

(* Workers.h:74-76: the backlog never exceeds its capacity.                 *)
BacklogBounded == Len(queue) <= Capacity

(* A job that was accepted is in one place, and runs once: it is queued     *)
(* once, or held by one thread, or has run.                                 *)
AcceptedOnce ==
    /\ \A i, k \in DOMAIN queue : queue[i] = queue[k] => i = k
    /\ \A t \in Busy : job[t] \notin Queued \cup ran
    /\ \A s, t \in Busy : job[s] = job[t] => s = t
    /\ Queued \cap ran = {}
    /\ rejected \cap Accepted = {}

(* Workers.cc:60-62: once stop() has joined the threads, no accepted job    *)
(* is left unanswered.                                                      *)
StopDrains == stopper = "joined" => queue = <<>> /\ Busy = {}

(* No lost wake-up: while a job is queued, a thread is awake or about to be *)
(* woken.                                                                   *)
NoJobSleeps ==
    queue # <<>> => notifying # {} \/ \E t \in Threads : thread[t] \in Awake

(* stop() returns.                                                          *)
StopReturns == stopping ~> stopper = "joined"

=============================================================================
