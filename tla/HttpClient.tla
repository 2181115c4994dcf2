----------------------------- MODULE HttpClient -----------------------------
(***************************************************************************)
(* CHttpClient (client/updater/http_client.cpp): one worker thread runs    *)
(* the queued requests one after another, the main thread issues them and, *)
(* once per frame, runs the callbacks of the finished ones.                *)
(*                                                                         *)
(* Each critical section of m_Mutex is one step, except RunFrame's, which  *)
(* holds the mutex over any number of callbacks: while main = "callbacks"  *)
(* nobody else can take it.                                                *)
(***************************************************************************)
EXTENDS Naturals, Sequences

CONSTANTS
    Request,    \* the Request objects passed to Get, each of them once
    NoRequest   \* the worker holds no request

ASSUME NoRequestAssumption == NoRequest \notin Request

VARIABLES
    m_RequestQueue,             \* requests waiting for the worker
    m_ResponseQueue,            \* responses waiting for RunFrame
    m_bShutdown,
    m_bAbortCurrentDownload,
    worker,         \* where the worker thread is
    current,        \* the request the worker has taken out of the queue
    success,        \* what will be the IsSuccess() of its response
    main,           \* where the main thread is
    issued,         \* history: the requests Get was called with
    delivered,      \* history: the responses whose callback has run
    abortTarget     \* history: what the worker held at the last abort

http == <<m_RequestQueue, m_ResponseQueue, m_bShutdown,
          m_bAbortCurrentDownload, worker, current, success, main,
          issued, delivered, abortTarget>>

Response == [req : Request, ok : BOOLEAN]

WorkerState ==
    { "check",    \* about to lock m_Mutex and evaluate the wait's predicate
      "asleep",   \* blocked in m_CondVar.wait
      "prepare",  \* owns a request, curl is not running yet
      "perform",  \* inside curl_easy_perform
      "respond",  \* about to queue the response
      "exited" }

MainState == {"idle", "callbacks", "joining", "stopped"}

\* The requests the worker holds: at most one.
InFlight == IF current = NoRequest THEN <<>> ELSE <<current>>

TypeOK ==
    /\ m_RequestQueue \in Seq(Request)
    /\ m_ResponseQueue \in Seq(Response)
    /\ m_bShutdown \in BOOLEAN
    /\ m_bAbortCurrentDownload \in BOOLEAN
    /\ worker \in WorkerState
    /\ current \in Request \cup {NoRequest}
    /\ success \in BOOLEAN
    /\ main \in MainState
    /\ issued \in SUBSET Request
    /\ delivered \in Seq(Response)
    /\ abortTarget \in Request \cup {NoRequest}

-----------------------------------------------------------------------------
MutexFree == main # "callbacks"

\* Mutant: the notification is forgotten.
NotifyNobody == worker

\* m_CondVar.notify_all: a sleeping worker goes back to the predicate.
NotifyAll == IF worker = "asleep" THEN "check" ELSE worker

Init ==
    /\ m_RequestQueue = <<>>
    /\ m_ResponseQueue = <<>>
    /\ m_bShutdown = FALSE
    /\ m_bAbortCurrentDownload = FALSE
    /\ worker = "check"
    /\ current = NoRequest
    /\ success = FALSE
    /\ main = "idle"
    /\ issued = {}
    /\ delivered = <<>>
    /\ abortTarget = NoRequest

-----------------------------------------------------------------------------
(* The main thread. *)

\* Mutant: the newest request is served first.
GetInFront(r) ==
    /\ main = "idle"
    /\ r \notin issued
    /\ m_RequestQueue' = <<r>> \o m_RequestQueue
    /\ worker' = NotifyAll
    /\ issued' = issued \cup {r}
    /\ UNCHANGED <<m_ResponseQueue, m_bShutdown, m_bAbortCurrentDownload,
                   current, success, main, delivered, abortTarget>>

Get(r) ==
    /\ main = "idle"
    /\ r \notin issued
    /\ m_RequestQueue' = Append(m_RequestQueue, r)
    /\ worker' = NotifyAll
    /\ issued' = issued \cup {r}
    /\ UNCHANGED <<m_ResponseQueue, m_bShutdown, m_bAbortCurrentDownload,
                   current, success, main, delivered, abortTarget>>

AbortCurrentDownload ==
    /\ main = "idle"
    /\ m_bAbortCurrentDownload' = TRUE
    /\ abortTarget' = current
    /\ UNCHANGED <<m_RequestQueue, m_ResponseQueue, m_bShutdown, worker,
                   current, success, main, issued, delivered>>

\* RunFrame locks the mutex ...
FrameBegin ==
    /\ main = "idle"
    /\ main' = "callbacks"
    /\ UNCHANGED <<m_RequestQueue, m_ResponseQueue, m_bShutdown,
                   m_bAbortCurrentDownload, worker, current, success,
                   issued, delivered, abortTarget>>

\* Mutant: the response stays at the front of the queue.
FrameCallbackWithoutPop ==
    /\ main = "callbacks"
    /\ m_ResponseQueue # <<>>
    /\ delivered' = Append(delivered, Head(m_ResponseQueue))
    /\ UNCHANGED <<m_RequestQueue, m_ResponseQueue, m_bShutdown,
                   m_bAbortCurrentDownload, worker, current, success, main,
                   issued, abortTarget>>

\* ... runs the callback of every queued response and drops it ...
FrameCallback ==
    /\ main = "callbacks"
    /\ m_ResponseQueue # <<>>
    /\ delivered' = Append(delivered, Head(m_ResponseQueue))
    /\ m_ResponseQueue' = Tail(m_ResponseQueue)
    /\ UNCHANGED <<m_RequestQueue, m_bShutdown, m_bAbortCurrentDownload,
                   worker, current, success, main, issued, abortTarget>>

\* ... and unlocks it when none is left.
FrameEnd ==
    /\ main = "callbacks"
    /\ m_ResponseQueue = <<>>
    /\ main' = "idle"
    /\ UNCHANGED <<m_RequestQueue, m_ResponseQueue, m_bShutdown,
                   m_bAbortCurrentDownload, worker, current, success,
                   issued, delivered, abortTarget>>

ShutdownBegin ==
    /\ main = "idle"
    /\ m_bShutdown' = TRUE
    /\ worker' = NotifyAll
    /\ main' = "joining"
    /\ UNCHANGED <<m_RequestQueue, m_ResponseQueue, m_bAbortCurrentDownload,
                   current, success, issued, delivered, abortTarget>>

ShutdownJoin ==
    /\ main = "joining"
    /\ worker = "exited"
    /\ main' = "stopped"
    /\ UNCHANGED <<m_RequestQueue, m_ResponseQueue, m_bShutdown,
                   m_bAbortCurrentDownload, worker, current, success,
                   issued, delivered, abortTarget>>

-----------------------------------------------------------------------------
(* The worker thread. *)

\* The wait's predicate under the lock; shutdown wins over queued requests.
WorkerCheck ==
    /\ worker = "check"
    /\ MutexFree
    /\ \/ /\ m_bShutdown
          /\ worker' = "exited"
          /\ UNCHANGED <<m_RequestQueue, current>>
       \/ /\ ~m_bShutdown
          /\ m_RequestQueue = <<>>
          /\ worker' = "asleep"
          /\ UNCHANGED <<m_RequestQueue, current>>
       \/ /\ ~m_bShutdown
          /\ m_RequestQueue # <<>>
          /\ worker' = "prepare"
          /\ current' = Head(m_RequestQueue)
          /\ m_RequestQueue' = Tail(m_RequestQueue)
    /\ UNCHANGED <<m_ResponseQueue, m_bShutdown, m_bAbortCurrentDownload,
                   success, main, issued, delivered, abortTarget>>

\* A condition variable may wake up without having been notified.
SpuriousWakeup ==
    /\ worker = "asleep"
    /\ worker' = "check"
    /\ UNCHANGED <<m_RequestQueue, m_ResponseQueue, m_bShutdown,
                   m_bAbortCurrentDownload, current, success, main,
                   issued, delivered, abortTarget>>

\* Mutant: the flag of an earlier abort survives.
WorkerPrepareKeepsAbort ==
    /\ worker = "prepare"
    /\ worker' \in {"perform", "respond"}
    /\ success' = FALSE
    /\ UNCHANGED <<m_RequestQueue, m_ResponseQueue, m_bShutdown,
                   m_bAbortCurrentDownload, current, main, issued, delivered,
                   abortTarget>>

\* The headers are set and the abort flag is cleared for the new transfer;
\* when a header cannot be added the request has failed already.
WorkerPrepare ==
    /\ worker = "prepare"
    /\ \/ /\ m_bAbortCurrentDownload' = FALSE
          /\ worker' = "perform"
       \/ /\ worker' = "respond"
          /\ UNCHANGED m_bAbortCurrentDownload
    /\ success' = FALSE
    /\ UNCHANGED <<m_RequestQueue, m_ResponseQueue, m_bShutdown, current,
                   main, issued, delivered, abortTarget>>

\* Mutant: the progress callback does not look at m_bShutdown.
WorkerAbortIgnoresShutdown ==
    /\ worker = "perform"
    /\ m_bAbortCurrentDownload
    /\ m_bAbortCurrentDownload' = FALSE
    /\ worker' = "respond"
    /\ success' = FALSE
    /\ UNCHANGED <<m_RequestQueue, m_ResponseQueue, m_bShutdown, current,
                   main, issued, delivered, abortTarget>>

\* ProgressCallback gives the transfer up.
WorkerAbort ==
    /\ worker = "perform"
    /\ m_bAbortCurrentDownload \/ m_bShutdown
    /\ m_bAbortCurrentDownload' = FALSE
    /\ worker' = "respond"
    /\ success' = FALSE
    /\ UNCHANGED <<m_RequestQueue, m_ResponseQueue, m_bShutdown, current,
                   main, issued, delivered, abortTarget>>

\* curl_easy_perform returns by itself, CURLE_OK or not.
WorkerFinish(ok) ==
    /\ worker = "perform"
    /\ worker' = "respond"
    /\ success' = ok
    /\ UNCHANGED <<m_RequestQueue, m_ResponseQueue, m_bShutdown,
                   m_bAbortCurrentDownload, current, main,
                   issued, delivered, abortTarget>>

\* Mutant: the response is built from the request after it was given up.
WorkerRespondAfterMove ==
    /\ worker = "respond"
    /\ MutexFree
    /\ m_ResponseQueue' =
          Append(m_ResponseQueue, [req |-> NoRequest, ok |-> success])
    /\ worker' = "check"
    /\ current' = NoRequest
    /\ UNCHANGED <<m_RequestQueue, m_bShutdown, m_bAbortCurrentDownload,
                   success, main, issued, delivered, abortTarget>>

WorkerRespond ==
    /\ worker = "respond"
    /\ MutexFree
    /\ m_ResponseQueue' =
          Append(m_ResponseQueue, [req |-> current, ok |-> success])
    /\ worker' = "check"
    /\ current' = NoRequest
    /\ UNCHANGED <<m_RequestQueue, m_bShutdown, m_bAbortCurrentDownload,
                   success, main, issued, delivered, abortTarget>>

-----------------------------------------------------------------------------
MainThread ==
    \/ \E r \in Request : Get(r)
    \/ AbortCurrentDownload
    \/ FrameBegin
    \/ FrameCallback
    \/ FrameEnd
    \/ ShutdownBegin
    \/ ShutdownJoin

Worker ==
    \/ WorkerCheck
    \/ SpuriousWakeup
    \/ WorkerPrepare
    \/ WorkerAbort
    \/ \E ok \in BOOLEAN : WorkerFinish(ok)
    \/ WorkerRespond

\* The program has stopped; nothing happens any more.
Stopped ==
    /\ main = "stopped"
    /\ UNCHANGED http

Next == MainThread \/ Worker \/ Stopped

Spec == Init /\ [][Next]_http

(***************************************************************************)
(* Fairness.  The operating system keeps running the worker thread, curl   *)
(* keeps calling the progress callback of a transfer, RunFrame's loop goes *)
(* on once it has started and Shutdown's join returns when the worker has  *)
(* ended.                                                                  *)
(***************************************************************************)
ThreadFairness ==
    /\ WF_http(WorkerCheck)
    /\ WF_http(WorkerPrepare)
    /\ WF_http(WorkerAbort)
    /\ WF_http(WorkerRespond)
    /\ WF_http(FrameCallback)
    /\ WF_http(FrameEnd)
    /\ WF_http(ShutdownJoin)

FairSpec == Spec /\ ThreadFairness

\* What the answer to a request needs besides: every transfer ends one day and
\* the engine keeps drawing frames.  RunFrame holds the mutex for a moment of
\* each frame, so a worker that waits for it finds it free again and again: it
\* is strongly fair that it gets it.
NetFairness ==
    /\ SF_http(WorkerCheck)
    /\ SF_http(WorkerRespond)
    /\ WF_http(\E ok \in BOOLEAN : WorkerFinish(ok))
    /\ WF_http(FrameBegin)

-----------------------------------------------------------------------------
(* Properties. *)

\* The worker never sleeps while there is work: with the predicate of the
\* wait evaluated under the mutex and Get and Shutdown notifying under it, no
\* wake-up is lost.
NoLostWakeup ==
    worker = "asleep" => m_RequestQueue = <<>> /\ ~m_bShutdown

\* An abort only ever hits the transfer that was running when it was asked
\* for: the flag a running transfer will see was set while that very request
\* was in the worker's hands, not left over from an earlier one.
AbortHitsItsTarget ==
    worker = "perform" /\ m_bAbortCurrentDownload => abortTarget = current

\* The responses of a sequence, as the requests they answer.
RequestsOf(responses) == [i \in DOMAIN responses |-> responses[i].req]

\* CHttpClient keeps RequestChannel's promise: what is queued, in the worker's
\* hands or waiting for RunFrame is the channel's pending sequence.
Channel == INSTANCE RequestChannel
    WITH pending <- RequestsOf(m_ResponseQueue) \o InFlight \o m_RequestQueue,
         open <- ~m_bShutdown

ChannelSpec == Channel!Spec

\* Shutdown returns: the worker never blocks the main thread for good, whether
\* it sleeps, transfers or has requests left in its queue.
ShutdownCompletes == main = "joining" ~> main = "stopped"

\* If transfers end and frames go on, every request is answered through its
\* callback unless the client is shut down first.
EveryRequestAnswered ==
    NetFairness =>
        \A r \in Request :
            r \in issued ~> \/ \E i \in DOMAIN delivered : delivered[i].req = r
                            \/ m_bShutdown

=============================================================================
