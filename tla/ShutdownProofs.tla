--------------------------- MODULE ShutdownProofs ---------------------------
(***************************************************************************)
(* What WorkerPool promises for any number of threads, jobs and places,    *)
(* what EmailQueue promises for any mails, and what the two, stopped in    *)
(* main.cc's order, promise for the mails of the jobs.                     *)
(***************************************************************************)
EXTENDS Shutdown, TLAPS

HandsOn ==
    \A t \in Threads : IF thread[t] = "running" THEN job[t] \in Jobs ELSE job[t] = None

ExitIsLast ==
    \A t \in Threads : thread[t] = "exited" => stopping /\ queue = <<>>

StopSteps ==
    /\ stopper # "idle" => stopping
    /\ stopper = "joined" => \A t \in Threads : thread[t] = "exited"

(* The invariant: nothing but WorkerPool's own, and where a thread ends.    *)
PoolInv ==
    /\ TypeOK /\ HandsOn /\ ExitIsLast /\ StopSteps
    /\ BacklogBounded /\ AcceptedOnce /\ NoJobSleeps

-----------------------------------------------------------------------------
Elements(s) == {s[i] : i \in DOMAIN s}
Distinct(s) == \A i, k \in DOMAIN s : s[i] = s[k] => i = k

(* push_back adds its job, and one that is new leaves the queue distinct.   *)
LEMMA AppendNew ==
    ASSUME NEW S, NEW s \in Seq(S), NEW x \in S, x \notin Elements(s), Distinct(s)
    PROVE /\ Append(s, x) \in Seq(S)
          /\ Len(Append(s, x)) = Len(s) + 1
          /\ Elements(Append(s, x)) = Elements(s) \cup {x}
          /\ Distinct(Append(s, x))
<1> DEFINE a == Append(s, x)
<1>1. /\ a \in Seq(S) /\ Len(a) = Len(s) + 1 /\ Len(s) \in Nat
      /\ DOMAIN a = 1 .. Len(s) + 1 /\ DOMAIN s = 1 .. Len(s)
      /\ a[Len(s) + 1] = x
      /\ \A i \in DOMAIN s : a[i] = s[i]
    OBVIOUS
<1>2. Elements(a) = Elements(s) \cup {x}
    <2>1. Elements(a) \subseteq Elements(s) \cup {x}
        <3> SUFFICES ASSUME NEW i \in DOMAIN a PROVE a[i] \in Elements(s) \cup {x}
            BY DEF Elements
        <3>1. i \in DOMAIN s \/ i = Len(s) + 1
            BY <1>1
        <3> QED
            BY <1>1, <3>1 DEF Elements
    <2>2. Elements(s) \cup {x} \subseteq Elements(a)
        BY <1>1 DEF Elements
    <2> QED
        BY <2>1, <2>2
<1>3. Distinct(a)
    <2> SUFFICES ASSUME NEW i \in DOMAIN a, NEW k \in DOMAIN a, a[i] = a[k]
                 PROVE i = k
        BY DEF Distinct
    <2>1. CASE i \in DOMAIN s /\ k \in DOMAIN s
        BY <1>1, <2>1 DEF Distinct
    <2>2. CASE i = Len(s) + 1 \/ k = Len(s) + 1
        BY <1>1, <2>2 DEF Elements
    <2> QED
        BY <1>1, <2>1, <2>2
<1> QED
    BY <1>1, <1>2, <1>3

(* pop_front takes the first job, and no other job with it.                 *)
LEMMA TailOfDistinct ==
    ASSUME NEW S, NEW s \in Seq(S), s # <<>>, Distinct(s)
    PROVE /\ Head(s) \in S /\ Head(s) \in Elements(s)
          /\ Tail(s) \in Seq(S) /\ Len(Tail(s)) <= Len(s)
          /\ Elements(Tail(s)) = Elements(s) \ {Head(s)}
          /\ Distinct(Tail(s))
<1> DEFINE r == Tail(s)
<1>1. /\ Len(s) \in Nat \ {0} /\ DOMAIN s = 1 .. Len(s)
      /\ r \in Seq(S) /\ Len(r) = Len(s) - 1 /\ DOMAIN r = 1 .. Len(s) - 1
      /\ Head(s) = s[1] /\ s[1] \in S
      /\ \A i \in DOMAIN r : r[i] = s[i + 1]
    OBVIOUS
<1>2. Elements(r) \subseteq Elements(s) \ {Head(s)}
    <2> SUFFICES ASSUME NEW i \in DOMAIN r PROVE r[i] \in Elements(s) \ {s[1]}
        BY <1>1 DEF Elements
    <2>1. i + 1 \in DOMAIN s /\ i + 1 # 1 /\ 1 \in DOMAIN s
        BY <1>1
    <2> QED
        BY <1>1, <2>1 DEF Elements, Distinct
<1>3. Elements(s) \ {Head(s)} \subseteq Elements(r)
    <2> SUFFICES ASSUME NEW i \in DOMAIN s, s[i] # s[1] PROVE s[i] \in Elements(r)
        BY <1>1 DEF Elements
    <2>1. i - 1 \in DOMAIN r /\ r[i - 1] = s[i]
        BY <1>1
    <2> QED
        BY <2>1 DEF Elements
<1>4. Distinct(r)
    <2> SUFFICES ASSUME NEW i \in DOMAIN r, NEW k \in DOMAIN r, r[i] = r[k]
                 PROVE i = k
        BY DEF Distinct
    <2>1. i + 1 \in DOMAIN s /\ k + 1 \in DOMAIN s /\ s[i + 1] = s[k + 1]
        BY <1>1
    <2> QED
        BY <1>1, <2>1 DEF Distinct
<1>5. Head(s) \in Elements(s)
    BY <1>1 DEF Elements
<1> QED
    BY <1>1, <1>2, <1>3, <1>4, <1>5

-----------------------------------------------------------------------------
LEMMA PoolInit == Init => PoolInv
<1> SUFFICES ASSUME Init PROVE PoolInv
    OBVIOUS
<1> USE DEF Init
<1>1. queue = <<>> /\ queue \in Seq(Jobs) /\ Len(queue) = 0 /\ Queued = {} /\ Busy = {}
    BY DEF Queued, Busy
<1>2. TypeOK /\ HandsOn /\ ExitIsLast /\ StopSteps
    BY <1>1 DEF TypeOK, HandsOn, ExitIsLast, StopSteps
<1>3. BacklogBounded /\ NoJobSleeps
    BY <1>1, PoolAssumption DEF BacklogBounded, NoJobSleeps
<1>4. AcceptedOnce
    BY <1>1 DEF AcceptedOnce
<1> QED
    BY <1>2, <1>3, <1>4 DEF PoolInv

(* A push: the job is new, so it is nowhere else.                           *)
LEMMA SubmitKeeps ==
    ASSUME NEW j \in Jobs, PoolInv, Submit(j)
    PROVE PoolInv'
<1> USE DEF PoolInv, Submit, crew
<1>1. /\ queue' \in Seq(Jobs) /\ Len(queue') = Len(queue) + 1
      /\ Queued' = Queued \cup {j}
      /\ Distinct(queue')
    BY AppendNew DEF TypeOK, AcceptedOnce, New, Accepted, Queued, Elements, Distinct
<1>2. Busy' = Busy /\ Held' = Held /\ j \notin Queued \cup Held \cup ran \cup rejected
    BY DEF Busy, Held, New, Accepted
<1>3. TypeOK' /\ HandsOn' /\ StopSteps'
    BY <1>1 DEF TypeOK, HandsOn, StopSteps
<1>4. ExitIsLast' /\ NoJobSleeps'
    BY DEF ExitIsLast, NoJobSleeps
<1>5. BacklogBounded'
    BY <1>1, PoolAssumption DEF BacklogBounded, HasRoom, TypeOK
<1>6. AcceptedOnce'
    <2>1. \A t \in Busy' : job'[t] \notin Queued' \cup ran'
        BY <1>1, <1>2 DEF AcceptedOnce, Held
    <2>2. \A t1, t2 \in Busy' : job'[t1] = job'[t2] => t1 = t2
        BY <1>2 DEF AcceptedOnce
    <2>3. Queued' \cap ran' = {} /\ rejected' \cap Accepted' = {}
        BY <1>1, <1>2 DEF AcceptedOnce, Accepted
    <2> QED
        BY <1>1, <2>1, <2>2, <2>3 DEF AcceptedOnce, Distinct
<1> QED
    BY <1>3, <1>4, <1>5, <1>6

(* A pop: the job moves from the queue into one pair of hands.              *)
LEMMA PopKeeps ==
    ASSUME NEW t \in Threads, PoolInv, Pop(t)
    PROVE PoolInv'
<1> USE DEF PoolInv, Pop
<1> DEFINE j == Head(queue)
<1>1. /\ j \in Jobs /\ j \in Queued
      /\ queue' \in Seq(Jobs) /\ Len(queue') <= Len(queue)
      /\ Queued' = Queued \ {j}
      /\ Distinct(queue')
    <2>1. queue \in Seq(Jobs) /\ queue # <<>> /\ Distinct(queue) /\ queue' = Tail(queue)
        BY DEF TypeOK, AcceptedOnce, Distinct
    <2>2. Queued = Elements(queue) /\ Queued' = Elements(queue')
        BY DEF Queued, Elements
    <2> QED
        BY <2>1, <2>2, TailOfDistinct
<1>2. /\ Busy' = Busy \cup {t} /\ t \notin Busy
      /\ job'[t] = j
      /\ \A u \in Threads \ {t} : job'[u] = job[u] /\ thread'[u] = thread[u]
      /\ thread'[t] = "running"
    BY DEF Busy, TypeOK
<1>3. TypeOK'
    BY <1>1 DEF TypeOK
<1>4. HandsOn'
    BY <1>1, <1>2 DEF HandsOn
<1>5. ExitIsLast' /\ StopSteps'
    BY <1>2 DEF ExitIsLast, StopSteps
<1>6. BacklogBounded' /\ NoJobSleeps'
    BY <1>1, <1>2, PoolAssumption DEF BacklogBounded, NoJobSleeps, Awake, TypeOK
<1>7. AcceptedOnce'
    <2>1. j \notin ran \cup rejected /\ \A u \in Busy : job[u] # j
        BY <1>1 DEF AcceptedOnce, Accepted
    <2>2. \A u \in Busy' : job'[u] \notin Queued' \cup ran'
        BY <1>1, <1>2, <2>1 DEF AcceptedOnce, Busy
    <2>3. \A u, v \in Busy' : job'[u] = job'[v] => u = v
        BY <1>1, <1>2, <2>1 DEF AcceptedOnce, Busy
    <2>4. Held' = Held \cup {j}
        BY <1>2 DEF Held, Busy
    <2>5. Queued' \cap ran' = {} /\ rejected' \cap Accepted' = {}
        BY <1>1, <2>1, <2>4 DEF AcceptedOnce, Accepted
    <2> QED
        BY <1>1, <2>2, <2>3, <2>5 DEF AcceptedOnce, Distinct
<1> QED
    BY <1>3, <1>4, <1>5, <1>6, <1>7

(* The end of a job: it has run, and its thread looks at the queue again.   *)
LEMMA RunKeeps ==
    ASSUME NEW t \in Threads, PoolInv, Run(t)
    PROVE PoolInv'
<1> USE DEF PoolInv, Run, Wake
<1>1. /\ Busy' = Busy \ {t} /\ t \in Busy
      /\ job'[t] = None /\ thread'[t] = "free" /\ job[t] \in Jobs
      /\ \A u \in Threads \ {t} : job'[u] = job[u] /\ thread'[u] = thread[u]
      /\ Queued' = Queued
    BY DEF Busy, TypeOK, HandsOn, Queued
<1>2. TypeOK'
    BY <1>1 DEF TypeOK
<1>3. HandsOn'
    BY <1>1 DEF HandsOn
<1>4. ExitIsLast' /\ StopSteps'
    BY <1>1 DEF ExitIsLast, StopSteps, Busy
<1>5. BacklogBounded' /\ NoJobSleeps'
    BY <1>1 DEF BacklogBounded, NoJobSleeps, Awake
<1>6. AcceptedOnce'
    <2>1. \A u \in Busy' : job'[u] = job[u] /\ job[u] # job[t]
        BY <1>1 DEF AcceptedOnce, Busy
    <2>2. Accepted' = Accepted
        BY <1>1 DEF Accepted, Held, Busy
    <2>3. Queued' \cap ran' = {}
        BY <1>1 DEF AcceptedOnce
    <2> QED
        BY <1>1, <2>1, <2>2, <2>3 DEF AcceptedOnce, Busy
<1> QED
    BY <1>2, <1>3, <1>4, <1>5, <1>6

(* Steps that only move threads that hold nothing.                          *)
LEMMA IdleKeeps ==
    ASSUME PoolInv, UNCHANGED <<queue, rejected, ran, job>>,
           Busy' = Busy, TypeOK', ExitIsLast', StopSteps', NoJobSleeps'
    PROVE PoolInv'
<1>1. Queued' = Queued /\ Held' = Held /\ Accepted' = Accepted
    BY DEF Queued, Held, Accepted
<1>2. HandsOn'
    BY DEF PoolInv, HandsOn, Busy
<1>3. AcceptedOnce' /\ BacklogBounded'
    BY <1>1 DEF PoolInv, AcceptedOnce, BacklogBounded
<1> QED
    BY <1>2, <1>3 DEF PoolInv

LEMMA PoolStep == PoolInv /\ [Next]_vars => PoolInv'
<1> SUFFICES ASSUME PoolInv, [Next]_vars PROVE PoolInv'
    OBVIOUS
<1> USE DEF PoolInv
<1>1. ASSUME NEW j \in Jobs, Submit(j) PROVE PoolInv'
    BY <1>1, SubmitKeeps
<1>2. ASSUME NEW j \in Jobs, Refuse(j) PROVE PoolInv'
    <2> USE <1>2 DEF Refuse, crew
    <2>1. Queued' = Queued /\ Held' = Held /\ Busy' = Busy /\ Accepted' = Accepted
        BY DEF Queued, Held, Busy, Accepted
    <2>2. TypeOK' /\ HandsOn' /\ ExitIsLast' /\ StopSteps' /\ BacklogBounded' /\ NoJobSleeps'
        BY DEF TypeOK, HandsOn, ExitIsLast, StopSteps, BacklogBounded, NoJobSleeps
    <2>3. AcceptedOnce'
        BY <2>1 DEF AcceptedOnce, New
    <2> QED
        BY <2>2, <2>3
<1>3. ASSUME NEW j \in Jobs, Notify(j) PROVE PoolInv'
    <2> USE <1>3 DEF Notify, Wake, Sleeping
    <2>1. TypeOK'
        BY DEF TypeOK
    <2>2. Busy' = Busy /\ ExitIsLast' /\ StopSteps'
        BY DEF TypeOK, Busy, ExitIsLast, StopSteps
    <2>3. NoJobSleeps'
        <3> SUFFICES ASSUME queue # <<>> PROVE \E t \in Threads : thread'[t] \in Awake
            BY DEF NoJobSleeps
        <3>1. CASE Sleeping = {} /\ UNCHANGED thread
            <4>1. PICK t \in Threads : TRUE
                BY PoolAssumption
            <4>2. thread[t] \in {"free", "running"}
                BY <3>1 DEF TypeOK, ExitIsLast
            <4> QED
                BY <3>1, <4>2 DEF Awake
        <3>2. CASE \E t \in Sleeping : Wake(t)
            BY <3>2 DEF TypeOK, Awake
        <3> QED
            BY <3>1, <3>2
    <2> QED
        BY <2>1, <2>2, <2>3, IdleKeeps
<1>4. ASSUME NEW t \in Threads, Pop(t) PROVE PoolInv'
    BY <1>4, PopKeeps
<1>5. ASSUME NEW t \in Threads, Wait(t) PROVE PoolInv'
    <2>1. TypeOK' /\ Busy' = Busy /\ ExitIsLast' /\ StopSteps' /\ NoJobSleeps'
        BY <1>5 DEF Wait, work, TypeOK, Busy, ExitIsLast, StopSteps, NoJobSleeps
    <2> QED
        BY <1>5, <2>1, IdleKeeps DEF Wait, work
<1>6. ASSUME NEW t \in Threads, Exit(t) PROVE PoolInv'
    <2>1. TypeOK' /\ Busy' = Busy /\ ExitIsLast' /\ StopSteps' /\ NoJobSleeps'
        BY <1>6 DEF Exit, work, TypeOK, Busy, ExitIsLast, StopSteps, NoJobSleeps
    <2> QED
        BY <1>6, <2>1, IdleKeeps DEF Exit, work
<1>7. ASSUME NEW t \in Threads, Run(t) PROVE PoolInv'
    BY <1>7, RunKeeps
<1>8. ASSUME NEW t \in Threads, SpuriousWakeup(t) PROVE PoolInv'
    <2>1. TypeOK' /\ Busy' = Busy /\ ExitIsLast' /\ StopSteps' /\ NoJobSleeps'
        BY <1>8 DEF SpuriousWakeup, Wake, work, TypeOK, Busy, ExitIsLast, StopSteps,
                    NoJobSleeps, Awake
    <2> QED
        BY <1>8, <2>1, IdleKeeps DEF SpuriousWakeup, work
<1>9. ASSUME Stop PROVE PoolInv'
    <2>1. TypeOK' /\ Busy' = Busy /\ ExitIsLast' /\ StopSteps' /\ NoJobSleeps'
        BY <1>9 DEF Stop, work, crew, TypeOK, Busy, ExitIsLast, StopSteps, NoJobSleeps
    <2> QED
        BY <1>9, <2>1, IdleKeeps DEF Stop, work, crew
<1>10. ASSUME NotifyAll PROVE PoolInv'
    <2>1. TypeOK' /\ Busy' = Busy /\ ExitIsLast' /\ StopSteps' /\ NoJobSleeps'
        BY <1>10 DEF NotifyAll, work, TypeOK, Busy, ExitIsLast, StopSteps, NoJobSleeps, Awake
    <2> QED
        BY <1>10, <2>1, IdleKeeps DEF NotifyAll, work
<1>11. ASSUME Join PROVE PoolInv'
    <2>1. TypeOK' /\ Busy' = Busy /\ ExitIsLast' /\ StopSteps' /\ NoJobSleeps'
        BY <1>11 DEF Join, work, crew, TypeOK, Busy, ExitIsLast, StopSteps, NoJobSleeps
    <2> QED
        BY <1>11, <2>1, IdleKeeps DEF Join, work, crew
<1>12. ASSUME UNCHANGED vars PROVE PoolInv'
    <2>1. TypeOK' /\ Busy' = Busy /\ ExitIsLast' /\ StopSteps' /\ NoJobSleeps'
        BY <1>12 DEF vars, work, crew, TypeOK, Busy, ExitIsLast, StopSteps, NoJobSleeps
    <2> QED
        BY <1>12, <2>1, IdleKeeps DEF vars, work, crew
<1> QED
    BY <1>1, <1>2, <1>3, <1>4, <1>5, <1>6, <1>7, <1>8, <1>9, <1>10, <1>11, <1>12
    DEF Next, Work, Stopped

LEMMA PoolInvariant == Spec => []PoolInv
BY PoolInit, PoolStep, PTL DEF Spec

-----------------------------------------------------------------------------
(* workerLoop and push: the types of the pool's state.                      *)
THEOREM PoolTypeCorrect == Spec => []TypeOK
<1>1. PoolInv => TypeOK
    BY DEF PoolInv
<1> QED
    BY <1>1, PoolInvariant, PTL

(* push(): the backlog keeps to its capacity, whoever submits at once.      *)
THEOREM BacklogKeepsToCapacity == Spec => []BacklogBounded
<1>1. PoolInv => BacklogBounded
    BY DEF PoolInv
<1> QED
    BY <1>1, PoolInvariant, PTL

(* push and workerLoop: a job is refused, or it is in one place at a time   *)
(* and runs once.                                                           *)
THEOREM AcceptedJobRunsOnce == Spec => []AcceptedOnce
<1>1. PoolInv => AcceptedOnce
    BY DEF PoolInv
<1> QED
    BY <1>1, PoolInvariant, PTL

(* The notification after the unlock is never lost on a queued job.         *)
THEOREM NoLostWakeup == Spec => []NoJobSleeps
<1>1. PoolInv => NoJobSleeps
    BY DEF PoolInv
<1> QED
    BY <1>1, PoolInvariant, PTL

(* shutdown(): after the join every accepted job has run.                   *)
THEOREM StopLeavesNothing == Spec => []StopDrains
<1>1. PoolInv => StopDrains
    BY PoolAssumption DEF PoolInv, StopSteps, ExitIsLast, StopDrains, Busy
<1> QED
    BY <1>1, PoolInvariant, PTL

-----------------------------------------------------------------------------
(* The two together take the steps of each, and no other.                   *)
LEMMA PoolSteps == [ShutdownNext]_shutdownVars => [Next]_vars
BY DEF ShutdownNext, shutdownVars, Enqueue, PoolWork, PoolNotify, PoolCalls, MailWork, MailCalls,
       Quit, PoolNotifyAll, PoolJoin, MailStop, MailNotifyAll, MailJoin, Over, Next

LEMMA MailSteps == [ShutdownNext]_shutdownVars => [Mail!Next]_(Mail!vars)
BY DEF ShutdownNext, shutdownVars, mailVars, Enqueue, PoolWork, PoolNotify, PoolCalls, MailWork,
       MailCalls, Quit, PoolNotifyAll, PoolJoin, MailStop, MailNotifyAll, MailJoin, Over,
       Mail!Next, Mail!vars

(* main.cc: the pool in the server is the pool alone, ...                   *)
THEOREM ShutdownRunsThePool == ShutdownSpec => Spec
BY PoolSteps, PTL DEF ShutdownSpec, ShutdownInit, Spec

(* ... and the mail queue is the mail queue, with the jobs among its callers.*)
THEOREM ShutdownRunsTheMailQueue == ShutdownSpec => Mail!Spec
BY MailSteps, PTL DEF ShutdownSpec, ShutdownInit, Mail!Spec

-----------------------------------------------------------------------------
(* A mail moves along sent \o Sending \o queue, and one that is pushed ends it. *)
LEMMA AppendElements ==
    ASSUME NEW S, NEW s \in Seq(S), NEW x \in S
    PROVE /\ Append(s, x) \in Seq(S) /\ Elements(s) \subseteq S
          /\ Elements(Append(s, x)) = Elements(s) \cup {x}
<1> DEFINE a == Append(s, x)
<1>1. /\ a \in Seq(S) /\ Len(s) \in Nat /\ a[Len(s) + 1] = x
      /\ DOMAIN a = 1 .. Len(s) + 1 /\ DOMAIN s = 1 .. Len(s)
      /\ \A i \in DOMAIN s : a[i] = s[i] /\ s[i] \in S
    OBVIOUS
<1> HIDE DEF a
<1>2. \A i \in DOMAIN a : i \in DOMAIN s \/ i = Len(s) + 1
    BY <1>1
<1>3. Len(s) + 1 \in DOMAIN a /\ DOMAIN s \subseteq DOMAIN a
    BY <1>1
<1>4. Elements(a) = Elements(s) \cup {x} /\ Elements(s) \subseteq S
    BY <1>1, <1>2, <1>3 DEF Elements
<1> QED
    BY <1>1, <1>4 DEF a

LEMMA PushedLast ==
    ASSUME NEW S, NEW s \in Seq(S), NEW b \in Seq(S), NEW q \in Seq(S), NEW x \in S
    PROVE s \o b \o Append(q, x) = Append(s \o b \o q, x)
OBVIOUS

LEMMA HeadTaken ==
    ASSUME NEW S, NEW s \in Seq(S), NEW q \in Seq(S), q # <<>>
    PROVE /\ Head(q) \in S /\ Tail(q) \in Seq(S)
          /\ s \o <<Head(q)>> \o Tail(q) = s \o <<>> \o q
OBVIOUS

LEMMA HeldSent ==
    ASSUME NEW S, NEW s \in Seq(S), NEW q \in Seq(S), NEW x \in S
    PROVE /\ Append(s, x) \o <<>> \o q = s \o <<x>> \o q
          /\ s \o <<>> \o <<>> = s
OBVIOUS

(* stop() of the queue: the flag falls with it, the worker leaves last, and  *)
(* leaves with everything sent that was pushed in time.                      *)
MailStops ==
    /\ running <=> mailStopper = "idle"
    /\ clerk = "exited" => ~running /\ inTime \subseteq Elements(sent)
    /\ mailStopper = "joined" => clerk = "exited"
    /\ inTime \subseteq Elements(pushed)

MailInv == Mail!TypeOK /\ Mail!SentInOrder /\ MailStops

LEMMA NoneIsNoMail == None \notin Jobs \cup Loose
BY PoolAssumption, LooseAssumption

LEMMA MailInit == Mail!Init => MailInv
<1> SUFFICES ASSUME Mail!Init PROVE MailInv
    OBVIOUS
<1>1. <<>> \in Seq(Jobs \cup Loose) /\ <<>> \o <<>> \o <<>> = <<>> /\ Elements(<<>>) = {}
    BY DEF Elements
<1> QED
    BY <1>1, NoneIsNoMail DEF Mail!Init, MailInv, Mail!TypeOK, Mail!SentInOrder, Mail!Sending,
                              MailStops

LEMMA MailStep == MailInv /\ [Mail!Next]_(Mail!vars) => MailInv'
<1> SUFFICES ASSUME MailInv, [Mail!Next]_(Mail!vars) PROVE MailInv'
    OBVIOUS
<1> DEFINE Mails == Jobs \cup Loose
<1>0. /\ mail \in [Mails -> {"new", "checked", "dropped", "pushed", "notified"}]
      /\ outbox \in Seq(Mails) /\ sent \in Seq(Mails) /\ pushed \in Seq(Mails)
      /\ clerk \in {"free", "blocking", "waiting", "sending", "exited"}
      /\ sending \in Mails \cup {None} /\ (clerk = "sending") = (sending # None)
      /\ sent \o Mail!Sending \o outbox = pushed
    BY DEF MailInv, Mail!TypeOK, Mail!SentInOrder
<1>s. Mail!Sending \in Seq(Mails)
    <2>1. CASE sending = None
        BY <2>1 DEF Mail!Sending
    <2>2. CASE sending # None
        BY <1>0, <2>2 DEF Mail!Sending
    <2> QED
        BY <2>1, <2>2
<1>n. None \notin Mails
    BY NoneIsNoMail
(* A step that moves no mail between the callers and the server.             *)
<1>q. ASSUME UNCHANGED <<outbox, inTime, sent, sending, pushed>>, Mail!TypeOK', MailStops'
      PROVE MailInv'
    BY <1>q DEF MailInv, Mail!SentInOrder, Mail!Sending
<1>1. ASSUME NEW m \in Mails, Mail!CheckRunning(m) PROVE MailInv'
    BY <1>1, <1>q DEF Mail!CheckRunning, MailInv, Mail!TypeOK, MailStops
<1>2. ASSUME NEW m \in Mails, Mail!Push(m) PROVE MailInv'
    <2>1. /\ outbox' = Append(outbox, m) /\ pushed' = Append(pushed, m)
          /\ inTime' \in {inTime, inTime \cup {m}}
          /\ mailStopper # "idle" => inTime' = inTime
          /\ UNCHANGED <<clerk, sending, sent, running, mailStopper>>
        BY <1>2 DEF Mail!Push
    <2>2. /\ outbox' \in Seq(Mails) /\ pushed' \in Seq(Mails)
          /\ Elements(pushed') = Elements(pushed) \cup {m}
        BY <1>0, <2>1, AppendElements
    <2>3. sent' \o Mail!Sending' \o outbox' = pushed'
        <3>1. Mail!Sending' = Mail!Sending
            BY <2>1 DEF Mail!Sending
        <3>2. sent \o Mail!Sending \o Append(outbox, m) = Append(sent \o Mail!Sending \o outbox, m)
            BY <1>0, <1>s, PushedLast, SMTT(40)
        <3> QED
            BY <1>0, <2>1, <3>1, <3>2
    <2>4. Mail!TypeOK'
        BY <1>0, <1>2, <2>1, <2>2 DEF Mail!Push, MailInv, Mail!TypeOK
    <2>5. MailStops'
        BY <2>1, <2>2 DEF MailInv, MailStops
    <2> QED
        BY <2>3, <2>4, <2>5 DEF MailInv, Mail!SentInOrder
<1>3. ASSUME NEW m \in Mails, Mail!Notify(m) PROVE MailInv'
    BY <1>3, <1>q DEF Mail!Notify, Mail!WakeWorker, MailInv, Mail!TypeOK, MailStops
<1>4. CASE Mail!Look \/ Mail!Block \/ Mail!SpuriousWakeup
    BY <1>4, <1>q DEF Mail!Look, Mail!Block, Mail!SpuriousWakeup, MailInv, Mail!TypeOK, MailStops
<1>5. CASE Mail!Pop
    <2>1. /\ clerk = "free" /\ outbox # <<>> /\ sending = None
          /\ sending' = Head(outbox) /\ outbox' = Tail(outbox) /\ clerk' = "sending"
          /\ UNCHANGED <<mail, inTime, sent, pushed, running, mailStopper>>
        BY <1>0, <1>5 DEF Mail!Pop
    <2>2. /\ sending' \in Mails /\ outbox' \in Seq(Mails)
          /\ sent \o <<sending'>> \o outbox' = sent \o <<>> \o outbox
        BY <1>0, <2>1, HeadTaken, SMTT(40)
    <2>3. Mail!Sending = <<>> /\ Mail!Sending' = <<sending'>>
        BY <1>n, <2>1, <2>2 DEF Mail!Sending
    <2>4. sent' \o Mail!Sending' \o outbox' = pushed'
        BY <1>0, <2>1, <2>2, <2>3
    <2>5. Mail!TypeOK' /\ MailStops'
        BY <1>0, <1>n, <2>1, <2>2 DEF MailInv, Mail!TypeOK, MailStops
    <2> QED
        BY <2>4, <2>5 DEF MailInv, Mail!SentInOrder
<1>6. CASE Mail!SendSync
    <2>1. /\ clerk = "sending" /\ sending \in Mails
          /\ sending' = None /\ sent' = Append(sent, sending) /\ clerk' = "free"
          /\ UNCHANGED <<mail, outbox, inTime, pushed, running, mailStopper>>
        BY <1>0, <1>6 DEF Mail!SendSync
    <2>2. /\ sent' \in Seq(Mails) /\ Elements(sent) \subseteq Elements(sent')
        BY <1>0, <2>1, AppendElements
    <2>3. sent' \o <<>> \o outbox = sent \o <<sending>> \o outbox
        BY <1>0, <2>1, HeldSent
    <2>4. Mail!Sending = <<sending>> /\ Mail!Sending' = <<>>
        BY <1>n, <2>1 DEF Mail!Sending
    <2>5. sent' \o Mail!Sending' \o outbox' = pushed'
        BY <1>0, <2>1, <2>3, <2>4
    <2>6. Mail!TypeOK' /\ MailStops'
        BY <1>0, <2>1, <2>2 DEF MailInv, Mail!TypeOK, MailStops
    <2> QED
        BY <2>5, <2>6 DEF MailInv, Mail!SentInOrder
<1>7. CASE Mail!Exit
    <2>1. /\ outbox = <<>> /\ sending = None /\ ~running /\ clerk = "free" /\ clerk' = "exited"
          /\ UNCHANGED <<mail, outbox, inTime, sending, sent, pushed, running, mailStopper>>
        BY <1>0, <1>7 DEF Mail!Exit
    <2>2. sent = pushed
        BY <1>0, <2>1, <1>n, HeldSent DEF Mail!Sending
    <2>3. Mail!TypeOK' /\ MailStops'
        BY <1>0, <2>1, <2>2 DEF MailInv, Mail!TypeOK, MailStops
    <2> QED
        BY <1>q, <2>1, <2>3
<1>8. CASE Mail!Stop
    BY <1>8, <1>q DEF Mail!Stop, MailInv, Mail!TypeOK, MailStops
<1>9. CASE Mail!NotifyAll
    BY <1>9, <1>q DEF Mail!NotifyAll, Mail!WakeWorker, MailInv, Mail!TypeOK, MailStops
<1>10. CASE Mail!Join
    BY <1>10, <1>q DEF Mail!Join, MailInv, Mail!TypeOK, MailStops
<1>11. CASE UNCHANGED Mail!vars
    BY <1>11, <1>q DEF Mail!vars, MailInv, Mail!TypeOK, MailStops
<1> QED
    BY <1>1, <1>2, <1>3, <1>4, <1>5, <1>6, <1>7, <1>8, <1>9, <1>10, <1>11
    DEF Mail!Next, Mail!Work, Mail!Rest

(* EmailHelper: the queue loses nothing between the push and the server,     *)
(* and sends in the order of the pushes, none twice, before and after stop().*)
THEOREM MailsGoOutInOrder == Mail!Spec => [](Mail!TypeOK /\ Mail!SentInOrder)
<1>1. MailInv => Mail!TypeOK /\ Mail!SentInOrder
    BY DEF MailInv
<1> QED
    BY <1>1, MailInit, MailStep, PTL DEF Mail!Spec

(* EmailHelper.h:11: what was pushed before stop() has been sent when it     *)
(* returns, whatever is pushed after it.                                     *)
THEOREM StopDrainsTheMail == Mail!Spec => []Mail!StopDrains
<1>1. MailInv => Mail!StopDrains
    BY DEF MailInv, MailStops, Mail!StopDrains, Elements
<1> QED
    BY <1>1, MailInit, MailStep, PTL DEF Mail!Spec

-----------------------------------------------------------------------------
(* "Workers first" (main.cc:294): while a job runs the queue takes its mail, *)
(* so what it pushes is in time, and it ends with no call under way.         *)
WorkersFirst ==
    /\ mailStopper # "idle" => stopper = "joined"
    /\ \A j \in Jobs :
          /\ mail[j] # "dropped"
          /\ mail[j] \in {"checked", "pushed"} => j \in Held
          /\ mail[j] \in {"pushed", "notified"} => j \in inTime

QuitInv == PoolInv /\ MailInv /\ WorkersFirst

LEMMA NoJobAfterTheStop == PoolInv /\ stopper = "joined" => Held = {} /\ Busy = {} /\ queue = <<>>
BY PoolAssumption DEF PoolInv, StopSteps, ExitIsLast, Busy, Held

(* A step of the pool keeps every job in its hands but the one that ends.    *)
LEMMA HandsKeep ==
    ASSUME PoolInv, [Next]_vars, NEW j \in Held,
           \A t \in Threads : Run(t) => job[t] # j
    PROVE j \in Held'
<1>1. PICK t \in Busy : job[t] = j
    BY DEF Held
<1>2. t \in Threads /\ thread[t] = "running" /\ TypeOK
    BY <1>1 DEF Busy, PoolInv
<1>3. job'[t] = j /\ thread'[t] = "running"
    <2>1. CASE \E u \in Threads : Run(u)
        BY <1>1, <1>2, <2>1 DEF Run, Wake, TypeOK
    <2>2. CASE \E u \in Threads : Pop(u) \/ Wait(u) \/ Exit(u) \/ SpuriousWakeup(u)
        BY <1>1, <1>2, <2>2 DEF Pop, Wait, Exit, SpuriousWakeup, Wake, TypeOK
    <2>3. CASE \E i \in Jobs : Submit(i) \/ Refuse(i)
        BY <1>1, <1>2, <2>3 DEF Submit, Refuse, crew
    <2>4. CASE \E i \in Jobs : Notify(i)
        BY <1>1, <1>2, <2>4 DEF Notify, Wake, Sleeping, TypeOK
    <2>5. CASE Stop \/ Join \/ UNCHANGED vars
        BY <1>1, <1>2, <2>5 DEF Stop, Join, vars, crew
    <2>6. CASE NotifyAll
        BY <1>1, <1>2, <2>6 DEF NotifyAll
    <2> QED
        BY <2>1, <2>2, <2>3, <2>4, <2>5, <2>6 DEF Next, Work, Stopped
<1> QED
    BY <1>2, <1>3 DEF Held, Busy

LEMMA StopIsLast == [Next]_vars /\ stopper = "joined" => stopper' = "joined"
BY DEF Next, vars, Work, Submit, Refuse, Notify, Pop, Wait, Exit, Run, SpuriousWakeup, Stop,
       NotifyAll, Join, Stopped

LEMMA QuitInit == ShutdownInit => QuitInv
<1> SUFFICES ASSUME ShutdownInit PROVE QuitInv
    OBVIOUS
<1>1. WorkersFirst
    BY DEF ShutdownInit, Mail!Init, WorkersFirst
<1> QED
    BY <1>1, PoolInit, MailInit DEF ShutdownInit, QuitInv

LEMMA QuitStep == QuitInv /\ [ShutdownNext]_shutdownVars => QuitInv'
<1> SUFFICES ASSUME QuitInv, [ShutdownNext]_shutdownVars PROVE QuitInv'
    OBVIOUS
<1>1. PoolInv' /\ MailInv' /\ [Next]_vars
    BY PoolStep, MailStep, PoolSteps, MailSteps DEF QuitInv
<1>2. /\ PoolInv /\ MailStops /\ WorkersFirst
      /\ mail \in [Jobs \cup Loose -> {"new", "checked", "dropped", "pushed", "notified"}]
    BY DEF QuitInv, MailInv, Mail!TypeOK
<1>3. mailStopper = "idle" \/ Held = {}
    BY <1>2, NoJobAfterTheStop DEF WorkersFirst
<1>p. ASSUME UNCHANGED mailVars, \A t \in Threads : Run(t) => MayEnd(t) PROVE WorkersFirst'
    <2>1. ASSUME NEW j \in Jobs, mail[j] \in {"checked", "pushed"} PROVE j \in Held'
        <3>1. j \in Held
            BY <1>2, <2>1 DEF WorkersFirst
        <3>2. \A t \in Threads : Run(t) => job[t] # j
            BY <1>p, <2>1 DEF MayEnd
        <3> QED
            BY <1>1, <1>2, <3>1, <3>2, HandsKeep
    <2>2. mailStopper' # "idle" => stopper' = "joined"
        BY <1>p, <1>1, <1>2, StopIsLast DEF WorkersFirst, mailVars
    <2> QED
        BY <1>p, <1>2, <2>1, <2>2 DEF WorkersFirst, mailVars
<1>m. ASSUME UNCHANGED vars PROVE Held' = Held /\ stopper' = stopper
    BY <1>m DEF vars, crew, Held, Busy
<1>4. ASSUME NEW m \in Jobs \cup Loose, Enqueue(m) PROVE WorkersFirst'
    <2>0. Held' = Held /\ stopper' = stopper
        BY <1>4, <1>m DEF Enqueue
    <2>1. m \in Jobs => m \in Held /\ mailStopper = "idle" /\ running
        BY <1>2, <1>3, <1>4, LooseAssumption DEF Enqueue, Enqueues, MailStops
    <2>2. CASE Mail!CheckRunning(m)
        BY <1>2, <2>0, <2>1, <2>2 DEF Mail!CheckRunning, WorkersFirst
    <2>3. CASE Mail!Push(m)
        BY <1>2, <2>0, <2>1, <2>3 DEF Mail!Push, WorkersFirst
    <2>4. CASE Mail!Notify(m)
        BY <1>2, <2>0, <2>1, <2>4 DEF Mail!Notify, WorkersFirst
    <2> QED
        BY <1>4, <2>2, <2>3, <2>4 DEF Enqueue
<1>5. ASSUME NEW t \in Threads, PoolWork(t) PROVE WorkersFirst'
    <2>1. CASE Run(t)
        <3>1. \A u \in Threads : Run(u) => u = t
            BY <1>2, <2>1 DEF Run, Wake, PoolInv, TypeOK
        <3> QED
            BY <1>5, <1>p, <2>1, <3>1 DEF PoolWork, Run
    <2>2. CASE Pop(t) \/ Wait(t) \/ Exit(t)
        <3>1. \A u \in Threads : ~Run(u)
            BY <1>2, <2>2 DEF Pop, Wait, Exit, work, Run, Wake, PoolInv, TypeOK
        <3> QED
            BY <1>5, <1>p, <3>1 DEF PoolWork
    <2> QED
        BY <1>5, <2>1, <2>2 DEF PoolWork, Work
<1>6. ASSUME UNCHANGED job, UNCHANGED mailVars PROVE WorkersFirst'
    <2>1. \A u \in Threads : ~Run(u)
        BY <1>2, <1>6, PoolAssumption DEF Run, PoolInv, TypeOK, HandsOn
    <2> QED
        BY <1>6, <1>p, <2>1
<1>7. ASSUME PoolCalls \/ PoolNotifyAll \/ PoolJoin \/ \E j \in Jobs : PoolNotify(j)
      PROVE WorkersFirst'
    BY <1>6, <1>7 DEF PoolCalls, PoolNotifyAll, PoolJoin, PoolNotify, Submit, Refuse,
                      SpuriousWakeup, Stop, NotifyAll, Join, Notify, work, crew
(* A step that is no caller's and no job's.                                  *)
<1>c. ASSUME Held' = Held, mail' = mail, inTime' = inTime,
             mailStopper' # "idle" => stopper' = "joined"
      PROVE WorkersFirst'
    <2>1. ASSUME NEW j \in Jobs
          PROVE /\ mail'[j] # "dropped"
                /\ mail'[j] \in {"checked", "pushed"} => j \in Held'
                /\ mail'[j] \in {"pushed", "notified"} => j \in inTime'
        BY <1>2, <1>c DEF WorkersFirst
    <2> QED
        BY <1>c, <2>1 DEF WorkersFirst
<1>8. ASSUME MailStop PROVE WorkersFirst'
    BY <1>8, <1>m, <1>c DEF MailStop, StopsMail, Mail!Stop
<1>9. ASSUME MailWork \/ MailCalls \/ MailNotifyAll \/ MailJoin PROVE WorkersFirst'
    <2>1. /\ Held' = Held /\ stopper' = stopper /\ UNCHANGED <<mail, inTime>>
          /\ mailStopper = "idle" => mailStopper' = "idle"
        BY <1>9, <1>m DEF MailWork, MailCalls, MailNotifyAll, MailJoin, Mail!Work, Mail!Look,
                          Mail!Block, Mail!Pop, Mail!SendSync, Mail!Exit, Mail!SpuriousWakeup,
                          Mail!NotifyAll, Mail!Join
    <2>2. mailStopper' # "idle" => stopper' = "joined"
        BY <1>2, <2>1 DEF WorkersFirst
    <2> QED
        BY <1>c, <2>1, <2>2
<1>10. ASSUME UNCHANGED shutdownVars PROVE WorkersFirst'
    <2>1. /\ Held' = Held /\ stopper' = stopper /\ mail' = mail /\ inTime' = inTime
          /\ mailStopper' = mailStopper
        BY <1>10, <1>m DEF shutdownVars, mailVars
    <2> QED
        BY <1>2, <1>c, <2>1 DEF WorkersFirst
<1>11. WorkersFirst'
    BY <1>4, <1>5, <1>7, <1>8, <1>9, <1>10 DEF ShutdownNext, Quit, Over
<1> QED
    BY <1>1, <1>11 DEF QuitInv

LEMMA QuitInvariant == ShutdownSpec => []QuitInv
BY QuitInit, QuitStep, PTL DEF ShutdownSpec

(* The pool's own promises, AcceptedOnce, NoJobSleeps and StopDrains, in the *)
(* server that stops it and then the queue.                                  *)
THEOREM PoolKeepsItsPromises == ShutdownSpec => [](AcceptedOnce /\ NoJobSleeps /\ StopDrains)
BY ShutdownRunsThePool, AcceptedJobRunsOnce, NoLostWakeup, StopLeavesNothing, PTL

(* ShutdownTypeOK: the two components' states, and the pool's bound.         *)
THEOREM QuitIsWellTyped == ShutdownSpec => []ShutdownTypeOK
<1>1. QuitInv => ShutdownTypeOK
    BY DEF QuitInv, PoolInv, MailInv, ShutdownTypeOK
<1> QED
    BY <1>1, QuitInvariant, PTL

(* JobsMailGoesOut (main.cc:294): no mail of a job is refused, whenever the  *)
(* quit comes, and all have been sent when the process is over.              *)
THEOREM JobsMailAlwaysGoesOut == ShutdownSpec => []JobsMailGoesOut
<1>1. QuitInv => JobsMailGoesOut
    <2> SUFFICES ASSUME QuitInv PROVE JobsMailGoesOut
        OBVIOUS
    <2>1. /\ PoolInv /\ WorkersFirst /\ Mail!SentInOrder
          /\ mail \in [Jobs \cup Loose -> {"new", "checked", "dropped", "pushed", "notified"}]
        BY DEF QuitInv, MailInv, Mail!TypeOK
    <2>2. Mail!StopDrains
        BY DEF QuitInv, MailInv, MailStops, Mail!StopDrains, Elements
    <2>3. ASSUME mailStopper = "joined", NEW j \in Jobs, mail[j] # "new"
          PROVE \E i \in DOMAIN sent : sent[i] = j
        <3>1. Held = {}
            BY <2>1, <2>3, NoJobAfterTheStop DEF WorkersFirst
        <3>2. j \in inTime
            BY <2>1, <2>3, <3>1 DEF WorkersFirst
        <3> QED
            BY <2>2, <2>3, <3>2 DEF Mail!StopDrains
    <2> QED
        BY <2>1, <2>2, <2>3 DEF JobsMailGoesOut, WorkersFirst
<1> QED
    BY <1>1, QuitInvariant, PTL

=============================================================================
