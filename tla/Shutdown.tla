------------------------------ MODULE Shutdown ------------------------------
(***************************************************************************)
(* Worker pool and mail queue together, as main.cc stops them: jobs of the *)
(* pool enqueue mails while they run, and runOnQuit stops the pool before  *)
(* the queue.  Mails also come from callbacks that are no job of a pool.   *)
(***************************************************************************)
EXTENDS WorkerPool

CONSTANT Loose   \* mails that no job enqueues

ASSUME LooseAssumption == Loose \cap Jobs = {} /\ None \notin Loose

VARIABLES
    mail, outbox, inTime, clerk, sending, sent, pushed, running,
    mailStopper   \* where EmailHelper::stop is

\* The mail of a job has the job's name.
Mail == INSTANCE EmailQueue WITH
    Mails <- Jobs \cup Loose,
    queue <- outbox, worker <- clerk, stopper <- mailStopper

mailVars == <<mail, outbox, inTime, clerk, sending, sent, pushed, running, mailStopper>>
shutdownVars == <<vars, mailVars>>

ShutdownInit == Init /\ Mail!Init

-----------------------------------------------------------------------------
\* A handler enqueues while it runs, one call at a time.
Enqueues(m) == m \in Loose \cup Held

Enqueue(m) ==
    /\ Enqueues(m)
    /\ Mail!CheckRunning(m) \/ Mail!Push(m) \/ Mail!Notify(m)
    /\ UNCHANGED vars

\* A job ends with no call under way; whether it mails is its own affair.
MayEnd(t) == mail[job[t]] \in {"new", "dropped", "notified"}

PoolWork(t) == Work(t) /\ (thread[t] = "running" => MayEnd(t)) /\ UNCHANGED mailVars

PoolCalls ==
    /\ \/ \E j \in Jobs : Submit(j) \/ Refuse(j)
       \/ \E t \in Threads : SpuriousWakeup(t)
       \/ Stop
    /\ UNCHANGED mailVars

PoolNotify(j) == Notify(j) /\ UNCHANGED mailVars
PoolNotifyAll == NotifyAll /\ UNCHANGED mailVars
PoolJoin == Join /\ UNCHANGED mailVars

\* Mutant: the queue is stopped first.
StopsMailFirst == stopping

\* "Workers first": runOnQuit calls them in this order.
StopsMail == stopper = "joined"

MailStop == StopsMail /\ Mail!Stop /\ UNCHANGED vars

MailWork == Mail!Work /\ UNCHANGED vars
MailCalls == Mail!SpuriousWakeup /\ UNCHANGED vars
MailNotifyAll == Mail!NotifyAll /\ UNCHANGED vars
MailJoin == Mail!Join /\ UNCHANGED vars

\* The steps of the main loop, which stops the two.
Quit == PoolNotifyAll \/ PoolJoin \/ MailStop \/ MailNotifyAll \/ MailJoin

\* The process is over.
Over == mailStopper = "joined" /\ UNCHANGED shutdownVars

ShutdownNext ==
    \/ \E m \in Jobs \cup Loose : Enqueue(m)
    \/ \E t \in Threads : PoolWork(t)
    \/ \E j \in Jobs : PoolNotify(j)
    \/ PoolCalls \/ MailWork \/ MailCalls
    \/ Quit \/ Over

\* Threads run, a call that was begun goes on, and so does the quit.  The
\* worker's wait gives the queue's lock up again and again: who wants it gets it.
ShutdownFairness ==
    /\ \A t \in Threads : WF_shutdownVars(PoolWork(t))
    /\ \A j \in Jobs : WF_shutdownVars(PoolNotify(j)) /\ SF_shutdownVars(mail[j] # "new" /\ Enqueue(j))
    /\ WF_shutdownVars(MailWork) /\ WF_shutdownVars(Quit)

ShutdownSpec == ShutdownInit /\ [][ShutdownNext]_shutdownVars /\ ShutdownFairness

-----------------------------------------------------------------------------
(* Properties.  Those of the pool are its own; with the mail queue:        *)

\* The type invariants of the two, and the bound of the pool's backlog.
ShutdownTypeOK == TypeOK /\ Mail!TypeOK /\ BacklogBounded

\* "An in-flight job may still be talking" (main.cc:294): what a job mails,
\* also one that was accepted just before the stop, is not refused, and has
\* gone out when the process is over; and the queue sends once each, in order,
\* whatever was pushed before it was stopped.
JobsMailGoesOut ==
    /\ Mail!SentInOrder /\ Mail!StopDrains
    /\ \A j \in Jobs : mail[j] # "dropped"
    /\ mailStopper = "joined" => \A j \in Jobs : mail[j] # "new" => \E i \in DOMAIN sent : sent[i] = j

\* Once begun, the stop of the pool returns; and an accepted job runs and its
\* mail goes out, whenever the quit comes.
JobsDone ==
    /\ StopReturns
    /\ \A j \in Jobs : j \in Queued ~> j \in ran /\ (mail[j] = "new" \/ \E i \in DOMAIN sent : sent[i] = j)

\* The same for the mails of others.  Does not hold: enqueue() drops them, or
\* leaves them in a queue nobody reads (EmailHelper.cc:148).
LooseMailGoesOut ==
    mailStopper = "joined" => \A m \in Loose : mail[m] # "new" => \E i \in DOMAIN sent : sent[i] = m

\* "Blocks until joined" (EmailHelper.h:11): once begun, the quit comes to its
\* end.  Does not hold: the flag is cleared, and the notification given, while
\* the worker is between its look and its wait (EmailHelper.cc:170).
QuitEnds == stopping ~> mailStopper = "joined"

=============================================================================
