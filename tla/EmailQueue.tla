----------------------------- MODULE EmailQueue -----------------------------
(***************************************************************************)
(* The mail queue (helpers/EmailHelper.cc): handlers enqueue, one worker   *)
(* sends.  Unlike the worker pools' flag, g_running is no part of what the *)
(* mutex guards: it is read before the lock is taken and cleared without.  *)
(***************************************************************************)
EXTENDS Integers, Sequences

CONSTANTS
    Mails,     \* each is enqueued at most once
    None

VARIABLES
    mail,       \* where the caller of each enqueue() is
    queue,
    inTime,     \* mails pushed before stop() was called
    worker,     \* where the worker is
    sending,    \* the mail it holds
    sent,       \* mails it tried to send, in order
    pushed,     \* mails in the order of their pushes
    running,    \* g_running
    stopper     \* where stop() is

vars == <<mail, queue, inTime, worker, sending, sent, pushed, running, stopper>>

LockFree == worker # "blocking"

(* start() has returned.                                                    *)
Init ==
    /\ mail = [m \in Mails |-> "new"]
    /\ queue = <<>> /\ inTime = {} /\ sent = <<>> /\ pushed = <<>>
    /\ worker = "free" /\ sending = None
    /\ running = TRUE /\ stopper = "idle"

-----------------------------------------------------------------------------
(* enqueue(): the flag is read without the lock, ...                        *)
CheckRunning(m) ==
    /\ mail[m] = "new"
    /\ mail' = [mail EXCEPT ![m] = IF running THEN "checked" ELSE "dropped"]
    /\ UNCHANGED <<queue, inTime, worker, sending, sent, pushed, running, stopper>>

(* Mutant: the new mail goes to the front.                                  *)
PushFront(m) ==
    /\ mail[m] = "checked" /\ LockFree
    /\ mail' = [mail EXCEPT ![m] = "pushed"]
    /\ queue' = <<m>> \o queue
    /\ pushed' = Append(pushed, m)
    /\ inTime' = IF stopper = "idle" THEN inTime \cup {m} ELSE inTime
    /\ UNCHANGED <<worker, sending, sent, running, stopper>>

(* ... the mail is pushed under it, ...                                     *)
Push(m) ==
    /\ mail[m] = "checked" /\ LockFree
    /\ mail' = [mail EXCEPT ![m] = "pushed"]
    /\ queue' = Append(queue, m)
    /\ pushed' = Append(pushed, m)
    /\ inTime' = IF stopper = "idle" THEN inTime \cup {m} ELSE inTime
    /\ UNCHANGED <<worker, sending, sent, running, stopper>>

WakeWorker == worker' = IF worker = "waiting" THEN "free" ELSE worker

(* Mutant: the worker is left asleep.                                       *)
NotifyNobody(m) ==
    /\ mail[m] = "pushed"
    /\ mail' = [mail EXCEPT ![m] = "notified"]
    /\ UNCHANGED <<worker, queue, inTime, sending, sent, pushed, running, stopper>>

(* ... and notify_one follows.                                              *)
Notify(m) ==
    /\ mail[m] = "pushed"
    /\ mail' = [mail EXCEPT ![m] = "notified"]
    /\ WakeWorker
    /\ UNCHANGED <<queue, inTime, sending, sent, pushed, running, stopper>>

-----------------------------------------------------------------------------
(* workerLoop: the predicate of the wait, with the lock held, ...           *)
Look ==
    /\ worker = "free"
    /\ queue = <<>> /\ running
    /\ worker' = "blocking"
    /\ UNCHANGED <<mail, queue, inTime, sending, sent, pushed, running, stopper>>

(* ... and the wait itself, which gives it up.                              *)
Block ==
    /\ worker = "blocking"
    /\ worker' = "waiting"
    /\ UNCHANGED <<mail, queue, inTime, sending, sent, pushed, running, stopper>>

SpuriousWakeup ==
    /\ worker = "waiting"
    /\ worker' = "free"
    /\ UNCHANGED <<mail, queue, inTime, sending, sent, pushed, running, stopper>>

Pop ==
    /\ worker = "free" /\ queue # <<>>
    /\ sending' = Head(queue)
    /\ queue' = Tail(queue)
    /\ worker' = "sending"
    /\ UNCHANGED <<mail, inTime, sent, pushed, running, stopper>>

(* Mutant: the mail is sent and kept.                                       *)
SendSyncKeepsMail ==
    /\ worker = "sending"
    /\ sent' = Append(sent, sending)
    /\ worker' = "free"
    /\ UNCHANGED <<mail, queue, inTime, sending, pushed, running, stopper>>

(* sendSync, whether or not the server takes it: there is no retry.         *)
SendSync ==
    /\ worker = "sending"
    /\ sent' = Append(sent, sending)
    /\ sending' = None
    /\ worker' = "free"
    /\ UNCHANGED <<mail, queue, inTime, pushed, running, stopper>>

(* Mutant: the worker leaves as soon as it is told to.                      *)
ExitAtOnce ==
    /\ worker = "free" /\ ~running
    /\ worker' = "exited"
    /\ UNCHANGED <<mail, queue, inTime, sending, sent, pushed, running, stopper>>

Exit ==
    /\ worker = "free" /\ ~running /\ queue = <<>>
    /\ worker' = "exited"
    /\ UNCHANGED <<mail, queue, inTime, sending, sent, pushed, running, stopper>>

-----------------------------------------------------------------------------
(* stop(): the flag is cleared without the lock, ...                        *)
Stop ==
    /\ stopper = "idle"
    /\ running' = FALSE
    /\ stopper' = "flagged"
    /\ UNCHANGED <<mail, queue, inTime, worker, sending, sent, pushed>>

NotifyAll ==
    /\ stopper = "flagged"
    /\ WakeWorker
    /\ stopper' = "joining"
    /\ UNCHANGED <<mail, queue, inTime, sending, sent, pushed, running>>

Join ==
    /\ stopper = "joining" /\ worker = "exited"
    /\ stopper' = "joined"
    /\ UNCHANGED <<mail, queue, inTime, worker, sending, sent, pushed, running>>

(* A system without mail rests.                                             *)
Rest ==
    /\ \A m \in Mails : mail[m] \in {"notified", "dropped"}
    /\ stopper = "joined"
    /\ UNCHANGED vars

Work == Look \/ Block \/ Pop \/ SendSync \/ Exit

Next ==
    \/ \E m \in Mails : CheckRunning(m) \/ Push(m) \/ Notify(m)
    \/ Work \/ SpuriousWakeup
    \/ Stop \/ NotifyAll \/ Join \/ Rest

Spec == Init /\ [][Next]_vars

-----------------------------------------------------------------------------
TypeOK ==
    /\ mail \in [Mails -> {"new", "checked", "dropped", "pushed", "notified"}]
    /\ queue \in Seq(Mails) /\ sent \in Seq(Mails) /\ pushed \in Seq(Mails)
    /\ inTime \subseteq Mails
    /\ worker \in {"free", "blocking", "waiting", "sending", "exited"}
    /\ sending \in Mails \cup {None} /\ (worker = "sending") = (sending # None)
    /\ running \in BOOLEAN
    /\ stopper \in {"idle", "flagged", "joining", "joined"}

Sending == IF sending = None THEN <<>> ELSE <<sending>>

(* Mails go out once each, in the order they were pushed, and nothing       *)
(* falls out between the queue, the worker and the server.                  *)
SentInOrder == sent \o Sending \o queue = pushed

(* EmailHelper.h:11, "Signal the worker to drain and exit": a mail that was *)
(* pushed before the stop has been sent when the worker is joined.          *)
StopDrains ==
    stopper = "joined" => \A m \in inTime : \E i \in DOMAIN sent : sent[i] = m

=============================================================================
