--------------------------- MODULE UpdaterProofs ---------------------------
(***************************************************************************)
(* The safety properties of the HTTP client and of the self-updater built  *)
(* on it, for every set of requests. The client, first: its type, no lost  *)
(* wake-up, aborts that hit their target, and that it implements           *)
(* RequestChannel. Then the updater: neither downloads nor checks are      *)
(* mixed up, the status, the flags and the exit commands agree, and        *)
(* CleanUp runs only when nobody is at work. Every step of the updater is  *)
(* one of the client or leaves the client alone, so the client's invariant *)
(* holds in the updater too.                                               *)
(***************************************************************************)
EXTENDS Updater, SequenceTheorems, FiniteSetTheorems, TLAPS

(* The HTTP client. *)

\* What makes the invariants inductive: the worker holds a request exactly
\* while it works on one, and the shutdown flag is up exactly once the main
\* thread has gone to join the worker.
Control ==
    /\ current = NoRequest <=> worker \in {"check", "asleep", "exited"}
    /\ m_bShutdown <=> main \in {"joining", "stopped"}

IInv == TypeOK /\ Control /\ NoLostWakeup /\ AbortHitsItsTarget

LEMMA InitEstablishes == Init => IInv
<1>1. <<>> \in Seq(Request) /\ <<>> \in Seq(Response)
  BY EmptySeq
<1> QED
BY <1>1, NoRequestAssumption
   DEF Init, IInv, TypeOK, Control, NoLostWakeup, AbortHitsItsTarget,
       WorkerState, MainState, Response

\* Every step of either thread keeps the inductive invariant.
LEMMA NextPreserves == IInv /\ [Next]_http => IInv'
<1> SUFFICES ASSUME IInv, [Next]_http PROVE IInv'
    OBVIOUS
<1> USE NoRequestAssumption
    DEF IInv, TypeOK, Control, NoLostWakeup, AbortHitsItsTarget,
        WorkerState, MainState, Response
<1>1. ASSUME NEW r \in Request, Get(r) PROVE IInv'
  BY <1>1 DEF Get, NotifyAll
<1>2. CASE AbortCurrentDownload
  BY <1>2 DEF AbortCurrentDownload
<1>3. CASE FrameBegin
  BY <1>3 DEF FrameBegin
<1>4. CASE FrameCallback
  <2>1. Head(m_ResponseQueue) \in Response /\ Tail(m_ResponseQueue) \in Seq(Response)
    BY <1>4, HeadTailProperties DEF FrameCallback
  <2> QED BY <1>4, <2>1 DEF FrameCallback
<1>5. CASE FrameEnd
  BY <1>5 DEF FrameEnd
<1>6. CASE ShutdownBegin
  BY <1>6 DEF ShutdownBegin, NotifyAll
<1>7. CASE ShutdownJoin
  BY <1>7 DEF ShutdownJoin
<1>8. CASE WorkerCheck
  <2>1. m_RequestQueue # <<>> => /\ Head(m_RequestQueue) \in Request
                                 /\ Tail(m_RequestQueue) \in Seq(Request)
    BY HeadTailProperties
  <2> QED BY <1>8, <2>1 DEF WorkerCheck
<1>9. CASE SpuriousWakeup
  BY <1>9 DEF SpuriousWakeup
<1>10. CASE WorkerPrepare
  BY <1>10 DEF WorkerPrepare
<1>11. CASE WorkerAbort
  BY <1>11 DEF WorkerAbort
<1>12. ASSUME NEW ok \in BOOLEAN, WorkerFinish(ok) PROVE IInv'
  BY <1>12 DEF WorkerFinish
<1>13. CASE WorkerRespond
  <2>1. [req |-> current, ok |-> success] \in Response
    BY <1>13 DEF WorkerRespond
  <2> QED BY <1>13, <2>1 DEF WorkerRespond
<1>14. CASE Stopped \/ UNCHANGED http
  BY <1>14 DEF Stopped, http
<1> QED
  BY <1>1, <1>2, <1>3, <1>4, <1>5, <1>6, <1>7, <1>8, <1>9, <1>10, <1>11,
     <1>12, <1>13, <1>14 DEF Next, MainThread, Worker

\* The client's inductive invariant holds whatever is requested, and however the threads interleave.
THEOREM Invariance == Spec => []IInv
BY InitEstablishes, NextPreserves, PTL DEF Spec

\* The state of CHttpClient always has the type the module declares.
THEOREM TypeCorrect == Spec => []TypeOK
BY Invariance, PTL DEF IInv

\* No wake-up of the worker thread is ever lost.
THEOREM WakeupNotLost == Spec => []NoLostWakeup
BY Invariance, PTL DEF IInv

\* An abort never reaches a transfer other than the one it was meant for.
THEOREM AbortOnTarget == Spec => []AbortHitsItsTarget
BY Invariance, PTL DEF IInv

-----------------------------------------------------------------------------
(* The client implements the channel. *)

LEMMA RequestsOfType ==
    ASSUME NEW s \in Seq(Response)
    PROVE  /\ RequestsOf(s) \in Seq(Request)
           /\ Len(RequestsOf(s)) = Len(s)
           /\ \A i \in 1 .. Len(s) : RequestsOf(s)[i] = s[i].req
<1>1. DOMAIN s = 1 .. Len(s) /\ Len(s) \in Nat
  BY LenProperties
<1>2. \A i \in 1 .. Len(s) : s[i].req \in Request
  <2>1. \A i \in 1 .. Len(s) : s[i] \in Response
    BY ElementOfSeq
  <2> QED BY <2>1 DEF Response
<1>3. RequestsOf(s) \in [1 .. Len(s) -> Request]
  BY <1>1, <1>2 DEF RequestsOf
<1>4. RequestsOf(s) \in Seq(Request)
  BY <1>1, <1>3, SeqDef
<1>5. Len(RequestsOf(s)) = Len(s)
  BY <1>1, <1>3, <1>4, LenProperties
<1> QED BY <1>1, <1>4, <1>5 DEF RequestsOf

LEMMA RequestsOfAppend ==
    ASSUME NEW s \in Seq(Response), NEW e \in Response
    PROVE  RequestsOf(Append(s, e)) = RequestsOf(s) \o <<e.req>>
<1> DEFINE t == Append(s, e)
           R == RequestsOf(s)
<1>1. /\ t \in Seq(Response)
      /\ Len(t) = Len(s) + 1
      /\ \A i \in 1 .. Len(s) : t[i] = s[i]
      /\ t[Len(s) + 1] = e
  BY AppendProperties
<1>2. /\ RequestsOf(t) \in Seq(Request)
      /\ Len(RequestsOf(t)) = Len(t)
      /\ \A i \in 1 .. Len(t) : RequestsOf(t)[i] = t[i].req
  BY <1>1, RequestsOfType
<1>3. /\ R \in Seq(Request)
      /\ Len(R) = Len(s)
      /\ \A i \in 1 .. Len(s) : R[i] = s[i].req
  BY RequestsOfType
<1>4. e.req \in Request
  BY DEF Response
<1>5. /\ Append(R, e.req) \in Seq(Request)
      /\ Len(Append(R, e.req)) = Len(s) + 1
      /\ \A i \in 1 .. Len(s) : Append(R, e.req)[i] = R[i]
      /\ Append(R, e.req)[Len(s) + 1] = e.req
  BY <1>3, <1>4, AppendProperties
<1>6. Len(s) \in Nat
  BY LenProperties
<1>7. ASSUME NEW i \in 1 .. Len(s) + 1
      PROVE  RequestsOf(t)[i] = Append(R, e.req)[i]
  <2>1. i \in 1 .. Len(s) \/ i = Len(s) + 1
    BY <1>6
  <2> HIDE DEF t, R
  <2> QED BY <1>1, <1>2, <1>3, <1>5, <2>1
<1>8. RequestsOf(t) = Append(R, e.req)
  BY <1>1, <1>2, <1>5, <1>7, SeqEqual
<1> QED BY <1>3, <1>4, <1>8, AppendIsConcat

LEMMA RequestsOfHeadTail ==
    ASSUME NEW s \in Seq(Response), s # <<>>
    PROVE  /\ Head(s).req = Head(RequestsOf(s))
           /\ RequestsOf(s) # <<>>
           /\ RequestsOf(Tail(s)) = Tail(RequestsOf(s))
<1> DEFINE t == Tail(s)
           R == RequestsOf(s)
<1>1. Len(s) \in Nat \ {0}
  BY EmptySeq
<1>2. /\ R \in Seq(Request)
      /\ Len(R) = Len(s)
      /\ \A i \in 1 .. Len(s) : R[i] = s[i].req
  BY RequestsOfType
<1>3. R # <<>>
  BY <1>1, <1>2, EmptySeq
<1>4. /\ t \in Seq(Response)
      /\ Len(t) = Len(s) - 1
      /\ \A i \in 1 .. Len(t) : t[i] = s[i + 1]
  BY HeadTailProperties
<1>5. /\ RequestsOf(t) \in Seq(Request)
      /\ Len(RequestsOf(t)) = Len(t)
      /\ \A i \in 1 .. Len(t) : RequestsOf(t)[i] = t[i].req
  BY <1>4, RequestsOfType
<1>6. /\ Tail(R) \in Seq(Request)
      /\ Len(Tail(R)) = Len(R) - 1
      /\ \A i \in 1 .. Len(Tail(R)) : Tail(R)[i] = R[i + 1]
  BY <1>2, <1>3, HeadTailProperties
<1>7. ASSUME NEW i \in 1 .. Len(s) - 1
      PROVE  RequestsOf(t)[i] = Tail(R)[i]
  <2>1. i + 1 \in 1 .. Len(s)
    BY <1>1
  <2> HIDE DEF t, R
  <2> QED BY <1>2, <1>4, <1>5, <1>6, <2>1
<1>8. RequestsOf(t) = Tail(R)
  <2> HIDE DEF t, R
  <2> QED BY <1>2, <1>4, <1>5, <1>6, <1>7, SeqEqual
<1>9. Head(s) = s[1] /\ Head(R) = R[1]
  BY <1>2, <1>3
<1> QED BY <1>1, <1>2, <1>3, <1>8, <1>9

-----------------------------------------------------------------------------
LEMMA InitRefines == Init => Channel!Init
<1> SUFFICES ASSUME Init PROVE Channel!Init
    OBVIOUS
<1>1. RequestsOf(<<>>) = <<>>
  <2>1. <<>> \in Seq(Response) /\ Len(<<>>) = 0
    BY EmptySeq
  <2>2. RequestsOf(<<>>) \in Seq(Request) /\ Len(RequestsOf(<<>>)) = 0
    BY <2>1, RequestsOfType
  <2> QED BY <2>2, EmptySeq
<1>2. <<>> \o <<>> \o <<>> = <<>>
  BY EmptySeq, ConcatEmptySeq
<1>3. RequestsOf(m_ResponseQueue) = <<>> /\ InFlight = <<>>
  BY <1>1 DEF Init, InFlight
<1> QED BY <1>2, <1>3 DEF Init, Channel!Init

LEMMA HeadTailConcat ==
    ASSUME NEW S, NEW a \in Seq(S), NEW b \in Seq(S), a # <<>>
    PROVE  /\ a \o b # <<>>
           /\ Head(a \o b) = Head(a)
           /\ Tail(a \o b) = Tail(a) \o b
<1>1. Tail(a) \in Seq(S) /\ Len(Tail(a)) = Len(a) - 1
  BY HeadTailProperties
<1>2. a \o b \in Seq(S) /\ a \o b # <<>>
  OBVIOUS
<1>3. /\ Tail(a \o b) \in Seq(S)
      /\ Len(Tail(a \o b)) = Len(a) + Len(b) - 1
  BY <1>2, HeadTailProperties
<1>4. /\ Tail(a) \o b \in Seq(S)
      /\ Len(Tail(a) \o b) = Len(a) + Len(b) - 1
  BY <1>1
<1>5. ASSUME NEW i \in 1 .. Len(a) + Len(b) - 1
      PROVE  Tail(a \o b)[i] = (Tail(a) \o b)[i]
  BY <1>1, <1>2
<1>6. Tail(a \o b) = Tail(a) \o b
  BY <1>3, <1>4, <1>5, SeqEqual
<1> QED BY <1>2, <1>6

\* Every step of the client is a step of the channel or leaves it alone.
LEMMA NextRefines == IInv /\ [Next]_http => [Channel!Next]_(Channel!vars)
<1> SUFFICES ASSUME IInv, [Next]_http
             PROVE  [Channel!Next]_(Channel!vars)
    OBVIOUS
<1> DEFINE R == RequestsOf(m_ResponseQueue)
<1>0. /\ m_RequestQueue \in Seq(Request)
      /\ m_ResponseQueue \in Seq(Response)
      /\ R \in Seq(Request)
      /\ InFlight \in Seq(Request)
  BY RequestsOfType DEF IInv, TypeOK, InFlight
<1>s. ASSUME UNCHANGED <<m_RequestQueue, m_ResponseQueue, current, issued,
                         delivered, m_bShutdown>>
      PROVE  UNCHANGED Channel!vars
  BY <1>s DEF Channel!vars, InFlight, RequestsOf
<1>1. ASSUME NEW r \in Request, Get(r) PROVE Channel!Next
  <2>1. R \o InFlight \o Append(m_RequestQueue, r)
        = Append(R \o InFlight \o m_RequestQueue, r)
    <3>1. R \o InFlight \in Seq(Request)
      BY <1>0
    <3> HIDE DEF R
    <3> QED BY <3>1, <1>0
  <2>2. ~m_bShutdown
    BY <1>1 DEF Get, IInv, Control
  <2>3. Channel!Submit(r)
    BY <1>1, <2>1, <2>2 DEF Get, Channel!Submit, InFlight
  <2> QED BY <2>3 DEF Channel!Next
<1>2. CASE FrameCallback
  <2> DEFINE h == Head(m_ResponseQueue)
  <2>1. m_ResponseQueue # <<>> /\ main = "callbacks" /\ ~m_bShutdown
    BY <1>2 DEF FrameCallback, IInv, Control
  <2>2. /\ h.req = Head(R)
        /\ R # <<>>
        /\ RequestsOf(Tail(m_ResponseQueue)) = Tail(R)
    BY <1>0, <2>1, RequestsOfHeadTail
  <2>3. /\ R \o InFlight \o m_RequestQueue # <<>>
        /\ Head(R \o InFlight \o m_RequestQueue) = Head(R)
        /\ Tail(R \o InFlight \o m_RequestQueue)
           = Tail(R) \o InFlight \o m_RequestQueue
    <3> HIDE DEF R
    <3>3. R \o InFlight \in Seq(Request) /\ R \o InFlight # <<>>
      BY <1>0, <2>2
    <3>4. Head(R \o InFlight) = Head(R) /\ Tail(R \o InFlight) = Tail(R) \o InFlight
      BY <1>0, <2>2, HeadTailConcat
    <3> QED BY <1>0, <2>2, HeadTailConcat, <3>3, <3>4
  <2>4. h \in Response
    BY <1>0, <2>1, HeadTailProperties
  <2>5. h.ok \in BOOLEAN /\ h = [req |-> h.req, ok |-> h.ok]
    BY <2>4 DEF Response
  <2>6. delivered' = Append(delivered, [req |-> Head(R \o InFlight \o m_RequestQueue), ok |-> h.ok])
    BY <1>2, <2>2, <2>3, <2>5 DEF FrameCallback
  <2>7. (R \o InFlight \o m_RequestQueue)' = Tail(R \o InFlight \o m_RequestQueue)
    BY <1>2, <2>2, <2>3 DEF FrameCallback, InFlight
  <2>8. Channel!Deliver
    BY <1>2, <2>1, <2>3, <2>5, <2>6, <2>7 DEF FrameCallback, Channel!Deliver
  <2> QED BY <2>8 DEF Channel!Next
<1>3. CASE ShutdownBegin
  BY <1>3 DEF ShutdownBegin, Channel!Next, Channel!Close, InFlight, RequestsOf
<1>4. CASE WorkerCheck
  <2>1. CASE UNCHANGED <<m_RequestQueue, current>>
    BY <1>4, <2>1, <1>s DEF WorkerCheck
  <2>2. CASE /\ m_RequestQueue # <<>>
             /\ current' = Head(m_RequestQueue)
             /\ m_RequestQueue' = Tail(m_RequestQueue)
    <3>1. InFlight = <<>>
      BY <1>4 DEF WorkerCheck, IInv, Control, InFlight
    <3>2. InFlight' = <<Head(m_RequestQueue)>>
      BY <1>0, <2>2, NoRequestAssumption, HeadTailProperties DEF InFlight
    <3>3. <<Head(m_RequestQueue)>> \o Tail(m_RequestQueue) = m_RequestQueue
      BY <1>0, <2>2, HeadTailProperties
    <3>4. R' = R
      BY <1>4 DEF WorkerCheck, RequestsOf
    <3>5. (R \o InFlight \o m_RequestQueue)' = R \o InFlight \o m_RequestQueue
      <4>1. R \o <<Head(m_RequestQueue)>> \o Tail(m_RequestQueue)
            = R \o (<<Head(m_RequestQueue)>> \o Tail(m_RequestQueue))
        BY <1>0, <2>2, HeadTailProperties, ConcatAssociative
      <4> HIDE DEF R
      <4>2. R \o <<>> = R
        BY <1>0
      <4> QED BY <2>2, <3>1, <3>2, <3>3, <3>4, <4>1, <4>2
    <3> QED BY <1>4, <3>5 DEF WorkerCheck, Channel!vars
  <2> QED BY <1>4, <2>1, <2>2 DEF WorkerCheck
<1>5. CASE WorkerRespond
  <2> DEFINE e == [req |-> current, ok |-> success]
  <2>1. current \in Request /\ e \in Response /\ InFlight = <<current>>
    BY <1>5 DEF WorkerRespond, IInv, TypeOK, Control, Response, InFlight
  <2>2. R' = R \o <<current>>
    BY <1>0, <1>5, <2>1, RequestsOfAppend DEF WorkerRespond
  <2>3. InFlight' = <<>>
    BY <1>5 DEF WorkerRespond, InFlight
  <2>4. (R \o InFlight \o m_RequestQueue)' = R \o InFlight \o m_RequestQueue
    <3> HIDE DEF R
    <3>1. R \o <<current>> \o <<>> = R \o <<current>>
      BY <1>0, <2>1
    <3> QED BY <1>5, <2>1, <2>2, <2>3, <3>1 DEF WorkerRespond
  <2> QED BY <1>5, <2>4 DEF WorkerRespond, Channel!vars
<1>6. CASE \/ AbortCurrentDownload \/ FrameBegin \/ FrameEnd \/ ShutdownJoin
           \/ SpuriousWakeup \/ WorkerPrepare \/ WorkerAbort
           \/ (\E ok \in BOOLEAN : WorkerFinish(ok)) \/ Stopped
           \/ UNCHANGED http
  BY <1>6, <1>s
     DEF AbortCurrentDownload, FrameBegin, FrameEnd, ShutdownJoin,
         SpuriousWakeup, WorkerPrepare, WorkerAbort, WorkerFinish, Stopped,
         http
<1> QED
  BY <1>1, <1>2, <1>3, <1>4, <1>5, <1>6 DEF Next, MainThread, Worker

\* The client implements the channel: whatever the threads do, each request is
\* answered at most once, in the order of the calls of Get, and none after
\* Shutdown.
THEOREM ImplementsChannel == Spec => ChannelSpec
BY InitRefines, NextRefines, Invariance, PTL
   DEF Spec, ChannelSpec, Channel!Spec

-----------------------------------------------------------------------------
(* The updater. *)

\* The requests that are queued, in the worker's hands or answered by a
\* response whose callback has not run, in the order of the calls of Get.
pending == RequestsOf(m_ResponseQueue) \o InFlight \o m_RequestQueue

Waiting == {r \in issued : ~Answered(r)}

\* A request is pending as long as it is not answered, and only once.
Bookkeeping ==
    /\ \A i, j \in 1 .. Len(pending) : pending[i] = pending[j] => i = j
    /\ {pending[i] : i \in 1 .. Len(pending)} = Waiting
    /\ \A r : Answered(r) => r \in issued

\* The checker knows of the one list that is under way.
CheckKnown ==
    IF m_bInProgress
      THEN \E r \in Request : Waiting \cap ListRequest = {r}
      ELSE Waiting \cap ListRequest = {}

\* What holds of the flags whatever is typed.
Flags ==
    /\ m_bAbortRequested => call = "spin"
    /\ call # "none" => m_bIsInProcess
    /\ call \in {"none", "replace"} /\ m_bIsInProcess => m_Status # "None"
    /\ zipOpen => m_bIsInProcess /\ call # "finish"
    /\ chunk # "none" => worker = "perform" /\ current \in ZipRequest

\* Without a second check only one thing goes on at a time: a check, whose
\* list is then the last request, an offer, or an update, whose download is
\* then the only request.
OneAtATime ==
    /\ m_bInProgress =>
          /\ ~offer /\ ~m_bIsInProcess
          /\ pending # <<>> /\ pending[Len(pending)] \in ListRequest
    /\ offer => ~m_bIsInProcess /\ pending = <<>>
    /\ m_bIsInProcess =>
          /\ pending \in {<<>>, <<session>>}
          /\ m_Status \notin {"Downloading", "None"} => pending = <<>>
          /\ zipBytes \subseteq {session}

\* ... and at most one task runs, that of the status; whoever waits for it to
\* notice the abort finds it ended.
OneTask ==
    /\ tasks["old"] = NoTask /\ call # "replace"
    /\ Running("current") =>
          <<m_Status, tasks["current"].kind>> \in
              {<<"Extracting", "extract">>, <<"Hashing", "hash">>,
               <<"Installing", "install">>}
    /\ m_Status \in {"Downloading", "Confirming"} => tasks["current"] = NoTask
    /\ m_bAbortRequested => m_Status \in {"Extracting", "Hashing"}
    /\ call = "spin" /\ ~m_bAbortRequested => m_Status = "None"
    /\ call \in {"cleanUp", "finish"} \/ ~m_bIsInProcess => m_Status = "None"
    /\ call = "waitInstall" => m_Status = "Installing"

ExitCommands ==
    /\ exitCmd["quit"] = "stub" <=> m_Status = "Installing"
    /\ m_Status = "Installing" => exitCmd = [c \in {"quit", "_restart"} |-> "stub"]

Peace == ~rechecked => OneAtATime /\ OneTask /\ ExitCommands

UInv == IInv /\ UTypeOK /\ Bookkeeping /\ CheckKnown /\ Flags /\ Peace

-----------------------------------------------------------------------------
(* Every step is one of the HTTP client or leaves it alone. *)

\* The updater calls Get, AbortCurrentDownload and Shutdown of the client, or runs in its callbacks.
LEMMA HttpStep == [UNext]_vars => [Next]_http
<1> SUFFICES ASSUME [UNext]_vars PROVE [Next]_http
  OBVIOUS
<1> USE DEF Next, MainThread, Worker
<1>1. ASSUME NEW r \in Request, CheckForUpdates(r) \/ StartUpdate(r) PROVE Next
  BY <1>1 DEF CheckForUpdates, StartUpdate
<1>2. CASE OnDataLoaded \/ ZipResponse
  BY <1>2 DEF OnDataLoaded, ZipResponse
<1>3. CASE CancelDownload
  BY <1>3 DEF CancelDownload
<1>4. CASE InstallerShutdown
  BY <1>4 DEF InstallerShutdown
<1>5. CASE HttpShutdown
  BY <1>5 DEF HttpShutdown
<1>6. CASE TransferEnds
  BY <1>6 DEF TransferEnds
<1>7. CASE Frame \/ ClientStep \/ SpuriousStep
  BY <1>7 DEF Frame, ClientStep, SpuriousStep
<1>8. CASE \/ CloseOffer \/ StartUpdateFails \/ CancelTask \/ CancelConfirmation \/ SpinEnds
           \/ CleanUp \/ Finish \/ ReplaceEnds
  BY <1>8 DEF CloseOffer, StartUpdateFails, CancelTask, CancelConfirmation, SpinEnds, CleanUp,
              Finish, ReplaceEnds
<1>9. CASE \/ ExtractionDone \/ HashingDone \/ ConfirmationDone \/ InstallDone
           \/ WriteCheck \/ WriteData \/ Terminated \/ UNCHANGED vars
  BY <1>9 DEF ExtractionDone, HashingDone, ConfirmationDone, InstallDone, UpdateInstallStatus,
              WriteCheck, WriteData, Terminated, vars
<1>10. ASSUME NEW i \in {"current", "old"}, AsyncWork(i) \/ AsyncReturn(i) PROVE UNCHANGED http
  BY <1>10 DEF AsyncWork, AsyncReturn
<1> QED
  BY <1>1, <1>2, <1>3, <1>4, <1>5, <1>6, <1>7, <1>8, <1>9, <1>10 DEF UNext

\* What the steps of the client do to the pending requests.
LEMMA PendingType ==
  ASSUME IInv
  PROVE  /\ pending \in Seq(Request)
         /\ delivered \in Seq(Response)
         /\ m_ResponseQueue \in Seq(Response)
BY RequestsOfType DEF IInv, TypeOK, InFlight, pending

\* What a call of one of the client's functions, and a step of its worker, does to the pending requests.
LEMMA GetAppends ==
  ASSUME IInv, NEW r \in Request, Get(r)
  PROVE  /\ pending' = Append(pending, r) /\ delivered' = delivered
         /\ r \notin issued /\ issued' = issued \cup {r}
<1> DEFINE a == RequestsOf(m_ResponseQueue) \o InFlight
<1>1. a \in Seq(Request) /\ m_RequestQueue \in Seq(Request)
  BY RequestsOfType DEF IInv, TypeOK, InFlight
<1>2. a' = a
  BY DEF Get, InFlight, RequestsOf
<1> HIDE DEF a
<1>3. a \o Append(m_RequestQueue, r) = Append(a \o m_RequestQueue, r)
  BY <1>1
<1>4. pending' = a' \o m_RequestQueue' /\ pending = a \o m_RequestQueue
  BY DEF pending, a
<1> QED BY <1>2, <1>3, <1>4 DEF Get

LEMMA CallbackPops ==
  ASSUME IInv, FrameCallback
  PROVE  /\ pending # <<>>
         /\ Head(m_ResponseQueue) \in Response
         /\ Head(m_ResponseQueue).req = Head(pending)
         /\ pending' = Tail(pending)
         /\ delivered' = Append(delivered, Head(m_ResponseQueue))
         /\ issued' = issued
<1> DEFINE a == RequestsOf(m_ResponseQueue)
           b == InFlight
           c == m_RequestQueue
<1>1. a \in Seq(Request) /\ b \in Seq(Request) /\ c \in Seq(Request)
  BY RequestsOfType DEF IInv, TypeOK, InFlight
<1>2. m_ResponseQueue # <<>> /\ m_ResponseQueue \in Seq(Response)
  BY DEF FrameCallback, IInv, TypeOK
<1>3. /\ Head(m_ResponseQueue).req = Head(a)
      /\ a # <<>>
      /\ a' = Tail(a)
  BY <1>2, RequestsOfHeadTail DEF FrameCallback
<1>4. b' = b /\ c' = c
  BY DEF FrameCallback, InFlight
<1>5. pending = a \o b \o c /\ pending' = a' \o b' \o c'
  BY DEF pending
<1> HIDE DEF a, b, c
<1>6. a \o b \in Seq(Request) /\ a \o b # <<>>
  BY <1>1, <1>3
<1>7. Head(a \o b) = Head(a) /\ Tail(a \o b) = Tail(a) \o b
  BY <1>1, <1>3, HeadTailConcat
<1>8. /\ a \o b \o c # <<>>
      /\ Head(a \o b \o c) = Head(a)
      /\ Tail(a \o b \o c) = Tail(a) \o b \o c
  <2> DEFINE d == a \o b
  <2>1. d \in Seq(Request) /\ d # <<>> /\ Head(d) = Head(a) /\ Tail(d) = Tail(a) \o b
    BY <1>6, <1>7
  <2> HIDE DEF d
  <2>2. d \o c # <<>> /\ Head(d \o c) = Head(d) /\ Tail(d \o c) = Tail(d) \o c
    BY <1>1, <2>1, HeadTailConcat
  <2> QED BY <2>1, <2>2 DEF d
<1>9. Head(m_ResponseQueue) \in Response
  BY <1>2, HeadTailProperties
<1> QED BY <1>3, <1>4, <1>5, <1>8, <1>9 DEF FrameCallback

LEMMA OthersKeepPending ==
  ASSUME IInv, [Next]_http, issued' = issued, delivered' = delivered
  PROVE  pending' = pending
<1>1. [Channel!Next]_(Channel!vars)
  BY NextRefines
<1>2. ASSUME NEW r \in Request, Channel!Submit(r) PROVE FALSE
  BY <1>2 DEF Channel!Submit
<1>3. CASE Channel!Deliver
  <2>1. delivered \in Seq(Response)
    BY PendingType
  <2>2. PICK x : delivered' = Append(delivered, x)
    BY <1>3 DEF Channel!Deliver
  <2>3. Len(delivered) \in Nat /\ Len(Append(delivered, x)) = Len(delivered) + 1
    BY <2>1
  <2> QED BY <2>2, <2>3
<1>4. CASE Channel!Close \/ UNCHANGED Channel!vars
  BY <1>4 DEF Channel!Close, Channel!vars, pending
<1> QED BY <1>1, <1>2, <1>3, <1>4 DEF Channel!Next

LEMMA InFlightPending ==
  ASSUME IInv, current # NoRequest
  PROVE  \E i \in 1 .. Len(pending) : pending[i] = current
<1> DEFINE a == RequestsOf(m_ResponseQueue)
           c == m_RequestQueue
           n == Len(a) + 1
<1>1. a \in Seq(Request) /\ c \in Seq(Request) /\ current \in Request
  BY RequestsOfType DEF IInv, TypeOK
<1>2. pending = a \o <<current>> \o c
  BY DEF pending, InFlight
<1> HIDE DEF a, c
<1>3. n \in 1 .. Len(pending) /\ pending[n] = current
  BY <1>1, <1>2
<1> QED BY <1>3

-----------------------------------------------------------------------------
(* Requests and answers. *)

LEMMA AnsweredAppend ==
  ASSUME delivered \in Seq(Response), NEW e \in Response, delivered' = Append(delivered, e)
  PROVE  \A r : Answered(r)' <=> Answered(r) \/ r = e.req
<1>1. /\ DOMAIN delivered = 1 .. Len(delivered) /\ Len(delivered) \in Nat
      /\ DOMAIN delivered' = 1 .. Len(delivered) + 1
      /\ \A i \in 1 .. Len(delivered) : delivered'[i] = delivered[i]
      /\ delivered'[Len(delivered) + 1] = e
  BY AppendProperties
<1>2. 1 .. Len(delivered) + 1 = 1 .. Len(delivered) \cup {Len(delivered) + 1}
  BY <1>1
<1> QED BY <1>1, <1>2 DEF Answered

LEMMA GetWaits ==
  ASSUME IInv, Bookkeeping, NEW r \in Request, Get(r)
  PROVE  Waiting' = Waiting \cup {r} /\ r \notin Waiting /\ \A q : Answered(q)' <=> Answered(q)
<1>1. delivered' = delivered /\ r \notin issued /\ issued' = issued \cup {r}
  BY GetAppends
<1>2. \A q : Answered(q)' <=> Answered(q)
  BY <1>1 DEF Answered
<1>3. ~Answered(r)
  BY <1>1 DEF Bookkeeping
<1> QED BY <1>1, <1>2, <1>3 DEF Waiting

LEMMA CallbackAnswers ==
  ASSUME IInv, Bookkeeping, FrameCallback
  PROVE  /\ Head(pending) \in Waiting
         /\ Waiting' = Waiting \ {Head(pending)}
         /\ \A q : Answered(q)' <=> Answered(q) \/ q = Head(pending)
<1> DEFINE e == Head(m_ResponseQueue)
<1>1. /\ pending # <<>> /\ e \in Response /\ e.req = Head(pending)
      /\ delivered' = Append(delivered, e) /\ issued' = issued
  BY CallbackPops
<1>2. pending \in Seq(Request) /\ delivered \in Seq(Response)
  BY PendingType
<1> HIDE DEF e
<1>3. \A q : Answered(q)' <=> Answered(q) \/ q = Head(pending)
  BY <1>1, <1>2, AnsweredAppend
<1>4. Head(pending) = pending[1] /\ 1 \in 1 .. Len(pending)
  BY <1>1, <1>2, HeadTailProperties
<1>5. Head(pending) \in Waiting
  BY <1>4 DEF Bookkeeping
<1> QED BY <1>1, <1>3, <1>5 DEF Waiting

\* The invariant's parts, one after the other.
LEMMA BookkeepingStep == IInv /\ Bookkeeping /\ [UNext]_vars => Bookkeeping'
<1> SUFFICES ASSUME IInv, Bookkeeping, [UNext]_vars PROVE Bookkeeping'
  OBVIOUS
<1>1. [Next]_http
  BY HttpStep
<1>2. pending \in Seq(Request) /\ delivered \in Seq(Response)
  BY PendingType
<1>3. ASSUME NEW r \in Request, Get(r) PROVE Bookkeeping'
  <2>1. /\ pending' = Append(pending, r) /\ delivered' = delivered
        /\ r \notin issued /\ issued' = issued \cup {r}
    BY <1>3, GetAppends
  <2>2. Waiting' = Waiting \cup {r} /\ r \notin Waiting /\ \A q : Answered(q)' <=> Answered(q)
    BY <1>3, GetWaits
  <2>4. /\ Len(pending) \in Nat /\ Len(pending') = Len(pending) + 1
        /\ \A i \in 1 .. Len(pending) : pending'[i] = pending[i]
        /\ pending'[Len(pending) + 1] = r
    BY <1>2, <2>1, AppendProperties
  <2>5. 1 .. Len(pending') = 1 .. Len(pending) \cup {Len(pending) + 1}
    BY <2>4
  <2>7. r \notin {pending[i] : i \in 1 .. Len(pending)}
    BY <2>2 DEF Bookkeeping
  <2>8. {pending'[i] : i \in 1 .. Len(pending')} = {pending[i] : i \in 1 .. Len(pending)} \cup {r}
    BY <2>4, <2>5
  <2>9. ASSUME NEW i \in 1 .. Len(pending'), NEW j \in 1 .. Len(pending'), pending'[i] = pending'[j]
        PROVE  i = j
    BY <2>4, <2>5, <2>7, <2>9 DEF Bookkeeping
  <2>10. \A q : Answered(q)' => q \in issued'
    BY <2>1, <2>2 DEF Bookkeeping
  <2> QED BY <2>2, <2>8, <2>9, <2>10 DEF Bookkeeping
<1>4. CASE FrameCallback
  <2>1. pending # <<>> /\ pending' = Tail(pending) /\ issued' = issued
    BY <1>4, CallbackPops
  <2>2. /\ Head(pending) \in Waiting /\ Waiting' = Waiting \ {Head(pending)}
        /\ \A q : Answered(q)' <=> Answered(q) \/ q = Head(pending)
    BY <1>4, CallbackAnswers
  <2>3. /\ Len(pending) \in Nat /\ Len(pending) > 0 /\ Head(pending) = pending[1]
        /\ Len(pending') = Len(pending) - 1
        /\ \A i \in 1 .. Len(pending') : pending'[i] = pending[i + 1]
    BY <1>2, <2>1, HeadTailProperties
  <2>4. \A i \in 1 .. Len(pending') : i + 1 \in 1 .. Len(pending)
    BY <2>3
  <2>5. ASSUME NEW i \in 1 .. Len(pending'), NEW j \in 1 .. Len(pending'), pending'[i] = pending'[j]
        PROVE  i = j
    <3>1. i + 1 = j + 1
      BY <2>3, <2>4, <2>5 DEF Bookkeeping
    <3> QED BY <3>1
  <2>7. {pending'[i] : i \in 1 .. Len(pending')} = Waiting \ {Head(pending)}
    <3>1. ASSUME NEW i \in 1 .. Len(pending')
          PROVE  pending'[i] \in Waiting /\ pending'[i] # Head(pending)
      <4>1. pending'[i] = pending[i + 1] /\ i + 1 \in 1 .. Len(pending) /\ i + 1 # 1 /\ 1 \in 1 .. Len(pending)
        BY <2>3, <2>4
      <4> QED BY <2>3, <4>1 DEF Bookkeeping
    <3>2. ASSUME NEW q \in Waiting, q # Head(pending)
          PROVE  \E i \in 1 .. Len(pending') : pending'[i] = q
      <4>1. PICK k \in 1 .. Len(pending) : pending[k] = q
        BY DEF Bookkeeping
      <4>2. k # 1
        BY <2>3, <3>2, <4>1
      <4>3. k - 1 \in 1 .. Len(pending') /\ (k - 1) + 1 = k
        BY <2>3, <4>2
      <4>4. pending'[k - 1] = q
        BY <2>3, <4>1, <4>3
      <4> QED BY <4>3, <4>4
    <3> QED BY <3>1, <3>2
  <2>8. \A q : Answered(q)' => q \in issued'
    BY <2>1, <2>2 DEF Bookkeeping, Waiting
  <2> QED BY <2>2, <2>5, <2>7, <2>8 DEF Bookkeeping
<1>5. CASE issued' = issued /\ delivered' = delivered
  <2>1. pending' = pending
    BY <1>1, <1>5, OthersKeepPending
  <2> QED BY <1>5, <2>1 DEF Bookkeeping, Waiting, Answered
<1>6. \/ \E r \in Request : Get(r)
      \/ FrameCallback
      \/ issued' = issued /\ delivered' = delivered
  BY <1>1 DEF Next, MainThread, Worker, AbortCurrentDownload, FrameBegin, FrameEnd, ShutdownBegin,
              ShutdownJoin,
              WorkerCheck, SpuriousWakeup, WorkerPrepare, WorkerAbort, WorkerFinish, WorkerRespond, Stopped, http
<1> QED BY <1>3, <1>4, <1>5, <1>6

-----------------------------------------------------------------------------
(* The parts of the invariant that hold whatever is typed. *)

\* What the installer's shutdown changes.
LEMMA ShutdownEffect ==
  ASSUME InstallerShutdown
  PROVE  /\ quitting' = TRUE /\ m_Status' \in {m_Status, "None"}
         /\ (m_bAbortRequested' = m_bAbortRequested \/ m_bAbortRequested' = TRUE)
         /\ call' \in {call, "waitInstall", "cleanUp", "spin"}
         /\ UNCHANGED <<m_bInProgress, offer, m_bIsInProcess, session,
                        zipOpen, zipBytes, chunk, rechecked>>
<1>1. quitting' = TRUE /\ m_Status' \in {m_Status, "None"}
  BY DEF InstallerShutdown
<1>2. m_bAbortRequested' = m_bAbortRequested \/ m_bAbortRequested' = TRUE
  BY Zenon DEF InstallerShutdown
<1>3. call' \in {call, "waitInstall", "cleanUp", "spin"}
  BY DEF InstallerShutdown
<1>4. UNCHANGED <<m_bInProgress, offer, m_bIsInProcess, session,
                  zipOpen, zipBytes, chunk, rechecked>>
  BY DEF InstallerShutdown
<1> QED BY <1>1, <1>2, <1>3, <1>4, Zenon

LEMMA TypeStep == IInv /\ UTypeOK /\ Flags /\ [UNext]_vars => UTypeOK'
<1> SUFFICES ASSUME IInv, UTypeOK, Flags, [UNext]_vars PROVE UTypeOK'
  OBVIOUS
<1>1. TypeOK'
  BY HttpStep, NextPreserves DEF IInv
<1> DEFINE UT == /\ m_bInProgress \in BOOLEAN /\ offer \in BOOLEAN /\ m_bIsInProcess \in BOOLEAN
                 /\ m_bAbortRequested \in BOOLEAN /\ m_Status \in Status
                 /\ call \in Call /\ session \in ZipRequest \cup {NoRequest}
                 /\ zipOpen \in BOOLEAN /\ zipBytes \subseteq ZipRequest
                 /\ chunk \in {"none", "checked", "written", "refused"}
                 /\ quitting \in BOOLEAN /\ rechecked \in BOOLEAN
           TT == tasks \in [{"current", "old"} -> Task \cup {NoTask}]
           ET == exitCmd \in [{"quit", "_restart"} -> {"engine", "stub", "null"}]
<1> SUFFICES UT' /\ TT' /\ ET'
  BY <1>1 DEF UTypeOK
<1>2. UT /\ TT /\ ET
  BY DEF UTypeOK
<1>3. ASSUME NEW kind \in {"extract", "hash", "install"}, StartTask(kind)
      PROVE  TT' /\ call' \in Call
  <2> DEFINE new == [kind |-> kind, pc |-> "work", ok |-> FALSE]
             old == IF Running("current") THEN tasks["current"] ELSE NoTask
  <2>1. new \in Task \cup {NoTask}
    BY DEF Task
  <2>2. old \in Task \cup {NoTask}
    BY <1>2
  <2>3. tasks' = [current |-> new, old |-> old]
    BY <1>3 DEF StartTask
  <2> HIDE DEF new, old
  <2>4. TT'
    BY <2>1, <2>2, <2>3
  <2> QED BY <1>3, <2>4 DEF StartTask, Call
<1>4. ASSUME NEW r \in Request, CheckForUpdates(r) \/ StartUpdate(r) PROVE UT' /\ TT' /\ ET'
  <2>1. UT'
    <3>1. CASE CheckForUpdates(r)
      BY <1>2, <3>1 DEF CheckForUpdates, Status, Call
    <3>2. CASE StartUpdate(r)
      BY <1>2, <3>2 DEF StartUpdate, Status, Call
    <3> QED BY <1>4, <3>1, <3>2
  <2>2. TT'
    BY <1>2, <1>4 DEF CheckForUpdates, StartUpdate, Status, Call
  <2>3. ET'
    BY <1>2, <1>4 DEF CheckForUpdates, StartUpdate, Status, Call
  <2> QED BY <2>1, <2>2, <2>3
<1>5. CASE OnDataLoaded \/ CloseOffer \/ StartUpdateFails \/ CancelDownload \/ CancelTask \/ CancelConfirmation
  <2>1. UT'
    <3>1. CASE OnDataLoaded
      <4>1. m_bInProgress' = FALSE /\ (offer' = offer \/ offer' = TRUE)
        BY <3>1, Zenon DEF OnDataLoaded
      <4>2. UNCHANGED <<m_bIsInProcess, m_bAbortRequested, m_Status, call, session,
                        zipOpen, zipBytes, chunk, quitting, rechecked>>
        BY <3>1 DEF OnDataLoaded
      <4>3. m_bInProgress' \in BOOLEAN /\ offer' \in BOOLEAN
        BY <1>2, <4>1, Zenon
      <4> QED BY <1>2, <4>2, <4>3
    <3>2. CASE CloseOffer
      <4>1. CloseOffer
        BY <3>2
      <4>2. offer' = FALSE
        BY <4>1 DEF CloseOffer
      <4> QED BY <1>2, <4>1, <4>2 DEF CloseOffer
    <3>3. CASE StartUpdateFails
      <4>1. offer' = FALSE /\ m_bAbortRequested' \in {m_bAbortRequested, FALSE}
        BY <3>3 DEF StartUpdateFails
      <4> QED BY <1>2, <3>3, <4>1 DEF StartUpdateFails
    <3>4. CASE CancelDownload
      BY <1>2, <3>4 DEF CancelDownload, ErrorOccured, Status, Call
    <3>5. CASE CancelTask
      BY <1>2, <3>5 DEF CancelTask, ErrorOccured, Status, Call
    <3>6. CASE CancelConfirmation
      BY <1>2, <3>6 DEF CancelConfirmation, ErrorOccured, Status, Call
    <3> QED BY <1>5, <3>1, <3>2, <3>3, <3>4, <3>5, <3>6
  <2>2. TT'
    BY <1>2, <1>5 DEF OnDataLoaded, CloseOffer, StartUpdateFails, CancelDownload, CancelTask,
                      CancelConfirmation, ErrorOccured, Status, Call
  <2>3. ET'
    BY <1>2, <1>5 DEF OnDataLoaded, CloseOffer, StartUpdateFails, CancelDownload, CancelTask,
                      CancelConfirmation, ErrorOccured, Status, Call
  <2> QED BY <2>1, <2>2, <2>3
<1>6. CASE SpinEnds \/ CleanUp \/ Finish \/ ReplaceEnds \/ InstallerShutdown \/ HttpShutdown
  <2>1. UT'
    <3>1. CASE SpinEnds
      BY <1>2, <3>1 DEF SpinEnds, ErrorOccured, Status, Call, updater
    <3>2. CASE CleanUp
      BY <1>2, <3>2 DEF CleanUp, ErrorOccured, Status, Call, updater
    <3>3. CASE Finish
      BY <1>2, <3>3 DEF Finish, ErrorOccured, Status, Call, updater
    <3>4. CASE ReplaceEnds
      BY <1>2, <3>4 DEF ReplaceEnds, ErrorOccured, Status, Call, updater
    <3>5. CASE InstallerShutdown
      <4>1. /\ quitting' = TRUE /\ m_Status' \in {m_Status, "None"}
            /\ (m_bAbortRequested' = m_bAbortRequested \/ m_bAbortRequested' = TRUE)
            /\ call' \in {call, "waitInstall", "cleanUp", "spin"}
            /\ UNCHANGED <<m_bInProgress, offer, m_bIsInProcess, session,
                           zipOpen, zipBytes, chunk, rechecked>>
        BY <3>5, ShutdownEffect, Zenon
      <4>2. m_Status' \in Status
        BY <1>2, <4>1 DEF Status
      <4>3. call' \in Call
        BY <1>2, <4>1 DEF Call
      <4>4. m_bAbortRequested' \in BOOLEAN
        BY <1>2, <4>1, Zenon
      <4>5. /\ m_bInProgress' \in BOOLEAN /\ offer' \in BOOLEAN /\ m_bIsInProcess' \in BOOLEAN
            /\ session' \in ZipRequest \cup {NoRequest} /\ zipOpen' \in BOOLEAN
            /\ zipBytes' \subseteq ZipRequest /\ chunk' \in {"none", "checked", "written", "refused"}
            /\ quitting' \in BOOLEAN /\ rechecked' \in BOOLEAN
        BY <1>2, <4>1
      <4> QED BY <4>2, <4>3, <4>4, <4>5
    <3>6. CASE HttpShutdown
      BY <1>2, <3>6 DEF HttpShutdown, ErrorOccured, Status, Call, updater
    <3> QED BY <1>6, <3>1, <3>2, <3>3, <3>4, <3>5, <3>6
  <2>2. TT'
    BY <1>2, <1>6 DEF SpinEnds, CleanUp, Finish, ReplaceEnds, InstallerShutdown, HttpShutdown,
                      ErrorOccured, Status, Call, updater
  <2>3. ET'
    BY <1>2, <1>6 DEF SpinEnds, CleanUp, Finish, ReplaceEnds, InstallerShutdown, HttpShutdown,
                      ErrorOccured, Status, Call, updater
  <2> QED BY <2>1, <2>2, <2>3
<1>7. CASE ZipResponse
  <2>1. UT'
    BY <1>2, <1>3, <1>7 DEF ZipResponse, ErrorOccured, Status, Call
  <2>2. TT'
    BY <1>2, <1>3, <1>7 DEF ZipResponse, ErrorOccured, Status, Call
  <2>3. ET'
    BY <1>2, <1>3, <1>7 DEF ZipResponse, ErrorOccured, Status, Call
  <2> QED BY <2>1, <2>2, <2>3
<1>8. CASE ExtractionDone
  <2>1. UT'
    BY <1>2, <1>3, <1>8 DEF ExtractionDone, ErrorOccured, Status, Call
  <2>2. TT'
    BY <1>2, <1>3, <1>8 DEF ExtractionDone, ErrorOccured, Status, Call
  <2>3. ET'
    BY <1>2, <1>3, <1>8 DEF ExtractionDone, ErrorOccured, Status, Call
  <2> QED BY <2>1, <2>2, <2>3
<1>9. CASE HashingDone \/ ConfirmationDone
  <2>1. UT'
    BY <1>2, <1>3, <1>9 DEF HashingDone, ConfirmationDone, BeginFileUpdating, DisableExitCommands,
                            ErrorOccured, Status, Call
  <2>2. TT'
    BY <1>2, <1>3, <1>9 DEF HashingDone, ConfirmationDone, BeginFileUpdating, DisableExitCommands,
                            ErrorOccured, Status, Call
  <2>3. ET'
    BY <1>2, <1>3, <1>9 DEF HashingDone, ConfirmationDone, BeginFileUpdating, DisableExitCommands,
                            ErrorOccured, Status, Call
  <2> QED BY <2>1, <2>2, <2>3
<1>10. CASE InstallDone
  <2>1. UT'
    BY <1>2, <1>10 DEF InstallDone, UpdateInstallStatus, EnableExitCommands, Status, Call
  <2>2. TT'
    BY <1>2, <1>10 DEF InstallDone, UpdateInstallStatus, EnableExitCommands, Status, Call
  <2>3. ET'
    BY <1>2, <1>10 DEF InstallDone, UpdateInstallStatus, EnableExitCommands, Status, Call
  <2> QED BY <2>1, <2>2, <2>3
<1>11. ASSUME NEW i \in {"current", "old"}, AsyncWork(i) PROVE UT' /\ TT' /\ ET'
  <2>1. UT'
    BY <1>2, <1>11 DEF AsyncWork, Task
  <2>2. TT'
    BY <1>2, <1>11 DEF AsyncWork, Task
  <2>3. ET'
    BY <1>2, <1>11 DEF AsyncWork, Task
  <2> QED BY <2>1, <2>2, <2>3
<1>12. ASSUME NEW i \in {"current", "old"}, AsyncReturn(i) PROVE UT' /\ TT' /\ ET'
  <2>1. UT'
    BY <1>2, <1>12 DEF AsyncReturn, Task, Status
  <2>2. TT'
    BY <1>2, <1>12 DEF AsyncReturn, Task, Status
  <2>3. ET'
    BY <1>2, <1>12 DEF AsyncReturn, Task, Status
  <2> QED BY <2>1, <2>2, <2>3
<1>13. CASE WriteCheck \/ TransferEnds
  <2>1. UT'
    BY <1>2, <1>13 DEF WriteCheck, TransferEnds
  <2>2. TT'
    BY <1>2, <1>13 DEF WriteCheck, TransferEnds
  <2>3. ET'
    BY <1>2, <1>13 DEF WriteCheck, TransferEnds
  <2> QED BY <2>1, <2>2, <2>3
<1>14. CASE WriteData
  <2>1. UT'
    BY <1>2, <1>14 DEF WriteData, Flags
  <2>2. TT'
    BY <1>2, <1>14 DEF WriteData, Flags
  <2>3. ET'
    BY <1>2, <1>14 DEF WriteData, Flags
  <2> QED BY <2>1, <2>2, <2>3
<1>15. CASE Frame \/ ClientStep \/ SpuriousStep \/ Terminated \/ UNCHANGED vars
  <2>1. UT'
    BY <1>2, <1>15 DEF Frame, ClientStep, SpuriousStep, Terminated, vars, updater
  <2>2. TT'
    BY <1>2, <1>15 DEF Frame, ClientStep, SpuriousStep, Terminated, vars, updater
  <2>3. ET'
    BY <1>2, <1>15 DEF Frame, ClientStep, SpuriousStep, Terminated, vars, updater
  <2> QED BY <2>1, <2>2, <2>3
<1> QED
  BY <1>4, <1>5, <1>6, <1>7, <1>8, <1>9, <1>10, <1>11, <1>12, <1>13, <1>14, <1>15 DEF UNext

LEMMA FlagsStep == IInv /\ UTypeOK /\ Flags /\ [UNext]_vars => Flags'
<1> SUFFICES ASSUME IInv, UTypeOK, Flags, [UNext]_vars PROVE Flags'
  OBVIOUS
<1> USE DEF Flags
\* The write callback runs inside curl_easy_perform, which only TransferEnds leaves.
<1>1. CASE TransferEnds
  BY <1>1 DEF TransferEnds, WorkerAbort, WorkerFinish
<1>2. CASE WriteCheck \/ WriteData
  BY <1>2 DEF WriteCheck, WriteData, UTypeOK, http
<1>3. ASSUME NEW r \in Request, CheckForUpdates(r) \/ StartUpdate(r) PROVE Flags'
  BY <1>3 DEF CheckForUpdates, StartUpdate, Idle, Get, NotifyAll
<1>4. CASE OnDataLoaded \/ CloseOffer \/ StartUpdateFails
  BY <1>4 DEF OnDataLoaded, CloseOffer, StartUpdateFails, Idle, FrameCallback, http
<1>5. CASE CancelDownload \/ CancelTask \/ CancelConfirmation \/ SpinEnds
  BY <1>5 DEF CancelDownload, CancelTask, CancelConfirmation, SpinEnds, Idle, AbortCurrentDownload,
              ErrorOccured, http
<1>6. CASE CleanUp \/ Finish \/ ReplaceEnds
  BY <1>6 DEF CleanUp, Finish, ReplaceEnds, http
<1>7. CASE ZipResponse
  BY <1>7 DEF ZipResponse, FrameCallback, ErrorOccured, StartTask
<1>8. CASE ExtractionDone \/ HashingDone \/ ConfirmationDone
  BY <1>8 DEF ExtractionDone, HashingDone, ConfirmationDone, BeginFileUpdating, Idle, ErrorOccured,
              StartTask, http
<1>9. CASE InstallDone
  BY <1>9 DEF InstallDone, UpdateInstallStatus, Idle, http
<1>10. CASE InstallerShutdown
  BY <1>10 DEF InstallerShutdown, Idle, AbortCurrentDownload, http, UTypeOK, Status
<1>11. ASSUME NEW i \in {"current", "old"}, AsyncWork(i) \/ AsyncReturn(i) PROVE Flags'
  BY <1>11 DEF AsyncWork, AsyncReturn, http
<1>12. CASE HttpShutdown \/ Frame \/ ClientStep \/ SpuriousStep
  BY <1>12 DEF HttpShutdown, ShutdownBegin, NotifyAll, Frame, FrameBegin, FrameEnd, ClientStep,
               WorkerCheck,
               WorkerPrepare, WorkerRespond, ShutdownJoin, SpuriousStep, SpuriousWakeup, updater
<1>13. CASE Terminated \/ UNCHANGED vars
  BY <1>13 DEF Terminated, vars, updater, http
<1> QED
  BY <1>1, <1>2, <1>3, <1>4, <1>5, <1>6, <1>7, <1>8, <1>9, <1>10, <1>11, <1>12, <1>13 DEF UNext

\* Requests are issued and answered by four actions only.
LEMMA Kinds ==
  ASSUME IInv, [UNext]_vars
  PROVE  \/ \E r \in Request : CheckForUpdates(r) \/ StartUpdate(r)
         \/ OnDataLoaded \/ ZipResponse
         \/ issued' = issued /\ delivered' = delivered /\ pending' = pending
<1> SUFFICES ASSUME ~(\E r \in Request : CheckForUpdates(r) \/ StartUpdate(r)), ~OnDataLoaded, ~ZipResponse
             PROVE  issued' = issued /\ delivered' = delivered
  BY HttpStep, OthersKeepPending
<1>1. CASE \/ CloseOffer \/ StartUpdateFails \/ CancelTask \/ CancelConfirmation \/ SpinEnds
           \/ CleanUp \/ Finish \/ ReplaceEnds
  BY <1>1 DEF CloseOffer, StartUpdateFails, CancelTask, CancelConfirmation, SpinEnds, CleanUp,
              Finish, ReplaceEnds, http
<1>2. CASE \/ ExtractionDone \/ HashingDone \/ ConfirmationDone \/ InstallDone
           \/ WriteCheck \/ WriteData \/ Terminated \/ UNCHANGED vars
  BY <1>2 DEF ExtractionDone, HashingDone, ConfirmationDone, InstallDone, UpdateInstallStatus,
              WriteCheck, WriteData, Terminated, vars, http
<1>3. CASE CancelDownload \/ InstallerShutdown \/ HttpShutdown
  BY <1>3 DEF CancelDownload, InstallerShutdown, HttpShutdown, AbortCurrentDownload, ShutdownBegin,
              http
<1>4. CASE TransferEnds \/ Frame \/ ClientStep \/ SpuriousStep
  BY <1>4 DEF TransferEnds, WorkerAbort, WorkerFinish, Frame, FrameBegin, FrameEnd, ClientStep,
              WorkerCheck,
              WorkerPrepare, WorkerRespond, ShutdownJoin, SpuriousStep, SpuriousWakeup
<1>5. ASSUME NEW i \in {"current", "old"}, AsyncWork(i) \/ AsyncReturn(i)
      PROVE  issued' = issued /\ delivered' = delivered
  BY <1>5 DEF AsyncWork, AsyncReturn, http
<1> QED BY <1>1, <1>2, <1>3, <1>4, <1>5 DEF UNext

LEMMA CheckKnownStep == IInv /\ Bookkeeping /\ CheckKnown /\ [UNext]_vars => CheckKnown'
<1> SUFFICES ASSUME IInv, Bookkeeping, CheckKnown, [UNext]_vars PROVE CheckKnown'
  OBVIOUS
<1>1. ~m_bInProgress => Waiting \cap ListRequest = {}
  BY DEF CheckKnown
<1>2. ASSUME NEW r \in Request, CheckForUpdates(r) PROVE CheckKnown'
  <2>1. Waiting' = Waiting \cup {r} /\ r \in ListRequest /\ ~m_bInProgress /\ m_bInProgress'
    BY <1>2, GetWaits DEF CheckForUpdates
  <2>2. (Waiting \cap ListRequest)' = {r}
    BY <1>1, <2>1
  <2> QED BY <2>1, <2>2 DEF CheckKnown
<1>3. ASSUME NEW r \in Request, StartUpdate(r) PROVE CheckKnown'
  <2>1. Waiting' = Waiting \cup {r} /\ r \notin ListRequest /\ m_bInProgress' = m_bInProgress
    BY <1>3, GetWaits DEF StartUpdate, ZipRequest
  <2> QED BY <2>1 DEF CheckKnown
<1>4. CASE OnDataLoaded
  <2>1. /\ Head(pending) \in Waiting /\ Waiting' = Waiting \ {Head(pending)}
        /\ Head(pending) \in ListRequest /\ ~m_bInProgress'
    BY <1>4, CallbackAnswers, CallbackPops DEF OnDataLoaded
  <2>2. (Waiting \cap ListRequest)' = {}
    BY <2>1 DEF CheckKnown
  <2> QED BY <2>1, <2>2 DEF CheckKnown
<1>5. CASE ZipResponse
  <2>1. /\ Waiting' = Waiting \ {Head(pending)}
        /\ Head(pending) \notin ListRequest /\ m_bInProgress' = m_bInProgress
    BY <1>5, CallbackAnswers, CallbackPops DEF ZipResponse, ZipRequest
  <2> QED BY <2>1 DEF CheckKnown
<1>6. CASE issued' = issued /\ delivered' = delivered /\ ~(\E r \in Request : CheckForUpdates(r)) /\ ~OnDataLoaded
  <2>1. Waiting' = Waiting
    BY <1>6 DEF Waiting, Answered
  <2>2. m_bInProgress' = m_bInProgress
    <3>1. CASE \/ \E r \in Request : StartUpdate(r)
               \/ CloseOffer \/ StartUpdateFails \/ CancelTask \/ CancelConfirmation \/ SpinEnds
               \/ CleanUp \/ Finish \/ ReplaceEnds \/ ZipResponse
      BY <3>1 DEF StartUpdate, CloseOffer, StartUpdateFails, CancelTask, CancelConfirmation,
                  SpinEnds, CleanUp,
                  Finish, ReplaceEnds, ZipResponse
    <3>2. CASE \/ ExtractionDone \/ HashingDone \/ ConfirmationDone \/ InstallDone
               \/ WriteCheck \/ WriteData \/ Terminated \/ UNCHANGED vars
      BY <3>2 DEF ExtractionDone, HashingDone, ConfirmationDone, InstallDone, UpdateInstallStatus,
                  WriteCheck, WriteData, Terminated, vars, updater
    <3>3. CASE \/ CancelDownload \/ InstallerShutdown \/ HttpShutdown \/ TransferEnds \/ Frame \/ ClientStep
               \/ SpuriousStep
      BY <3>3 DEF CancelDownload, InstallerShutdown, HttpShutdown, TransferEnds, Frame, ClientStep,
                  SpuriousStep, updater
    <3>4. ASSUME NEW i \in {"current", "old"}, AsyncWork(i) \/ AsyncReturn(i) PROVE m_bInProgress' = m_bInProgress
      BY <3>4 DEF AsyncWork, AsyncReturn
    <3> QED BY <1>6, <3>1, <3>2, <3>3, <3>4 DEF UNext
  <2> QED BY <2>1, <2>2 DEF CheckKnown
<1> QED BY <1>2, <1>3, <1>4, <1>5, <1>6, Kinds

-----------------------------------------------------------------------------
(* One thing at a time, unless update_check is typed twice. *)

LEMMA RecheckedStays == rechecked /\ [UNext]_vars => rechecked'
<1> SUFFICES ASSUME rechecked, [UNext]_vars PROVE rechecked'
  OBVIOUS
<1>1. ASSUME NEW r \in Request, CheckForUpdates(r) \/ StartUpdate(r) PROVE rechecked'
  BY <1>1 DEF CheckForUpdates, StartUpdate
<1>2. CASE \/ OnDataLoaded \/ CloseOffer \/ StartUpdateFails \/ CancelTask \/ CancelConfirmation \/ SpinEnds
           \/ CleanUp \/ Finish \/ ReplaceEnds \/ ZipResponse
  BY <1>2 DEF OnDataLoaded, CloseOffer, StartUpdateFails, CancelTask, CancelConfirmation, SpinEnds,
              CleanUp,
              Finish, ReplaceEnds, ZipResponse
<1>3. CASE \/ ExtractionDone \/ HashingDone \/ ConfirmationDone \/ InstallDone
           \/ WriteCheck \/ WriteData \/ Terminated \/ UNCHANGED vars
  BY <1>3 DEF ExtractionDone, HashingDone, ConfirmationDone, InstallDone, UpdateInstallStatus,
              WriteCheck, WriteData, Terminated, vars, updater
<1>4. CASE \/ CancelDownload \/ InstallerShutdown \/ HttpShutdown \/ TransferEnds \/ Frame \/ ClientStep
           \/ SpuriousStep
  BY <1>4 DEF CancelDownload, InstallerShutdown, HttpShutdown, TransferEnds, Frame, ClientStep,
              SpuriousStep, updater
<1>5. ASSUME NEW i \in {"current", "old"}, AsyncWork(i) \/ AsyncReturn(i) PROVE rechecked'
  BY <1>5 DEF AsyncWork, AsyncReturn
<1> QED BY <1>1, <1>2, <1>3, <1>4, <1>5 DEF UNext

\* The front and the end of a queue when one element leaves it.
LEMMA TailEnds ==
  ASSUME NEW S, NEW s \in Seq(S), s # <<>>
  PROVE  /\ Len(s) \in Nat /\ Len(s) > 0 /\ Head(s) = s[1]
         /\ Len(s) = 1 => Tail(s) = <<>>
         /\ Len(s) # 1 => Tail(s) # <<>> /\ Tail(s)[Len(Tail(s))] = s[Len(s)]
<1>1. /\ Len(s) \in Nat /\ Len(s) > 0 /\ Head(s) = s[1]
      /\ Tail(s) \in Seq(S) /\ Len(Tail(s)) = Len(s) - 1
      /\ \A i \in 1 .. Len(Tail(s)) : Tail(s)[i] = s[i + 1]
  BY HeadTailProperties
<1>2. ASSUME Len(s) = 1 PROVE Tail(s) = <<>>
  <2> DEFINE t == Tail(s)
  <2>1. t \in Seq(S) /\ ~(Len(t) \in Nat \ {0})
    BY <1>1, <1>2
  <2> HIDE DEF t
  <2>2. t = <<>>
    BY <2>1, EmptySeq
  <2> QED BY <2>2 DEF t
<1>3. ASSUME Len(s) # 1 PROVE Tail(s) # <<>> /\ Tail(s)[Len(Tail(s))] = s[Len(s)]
  <2>1. Len(Tail(s)) \in 1 .. Len(Tail(s)) /\ Len(Tail(s)) + 1 = Len(s)
    BY <1>1, <1>3
  <2>2. Tail(s)[Len(Tail(s))] = s[Len(s)]
    BY <1>1, <2>1
  <2>3. Tail(s) # <<>>
    <3>1. Len(Tail(s)) # 0
      BY <1>1, <1>3
    <3> QED BY <3>1, EmptySeq
  <2> QED BY <2>2, <2>3
<1> QED BY <1>1, <1>2, <1>3

LEMMA OneAtATimeStep == UInv /\ ~rechecked' /\ [UNext]_vars => OneAtATime'
<1> SUFFICES ASSUME UInv, ~rechecked', [UNext]_vars PROVE OneAtATime'
  OBVIOUS
<1>0. OneAtATime /\ Flags /\ OneTask
  BY RecheckedStays DEF UInv, Peace
<1>1. pending \in Seq(Request) /\ IInv /\ Bookkeeping /\ CheckKnown
  BY PendingType DEF UInv
<1>2. ASSUME NEW r \in Request, CheckForUpdates(r) PROVE OneAtATime'
  <2>1. pending' = Append(pending, r) /\ r \in ListRequest
    BY <1>1, <1>2, GetAppends DEF CheckForUpdates
  <2>2. pending' # <<>> /\ pending'[Len(pending')] = r
    BY <1>1, <2>1, AppendProperties
  <2>3. ~offer' /\ ~m_bIsInProcess'
    BY <1>2 DEF CheckForUpdates
  <2> QED BY <2>1, <2>2, <2>3 DEF OneAtATime
<1>3. ASSUME NEW r \in Request, StartUpdate(r) PROVE OneAtATime'
  <2>1. pending' = Append(pending, r) /\ pending = <<>>
    BY <1>0, <1>1, <1>3, GetAppends DEF StartUpdate, OneAtATime
  <2>2. pending' = <<r>>
    BY <2>1
  <2>3. ~m_bInProgress'
    BY <1>0, <1>3 DEF StartUpdate, OneAtATime
  <2> QED BY <1>3, <2>2, <2>3 DEF OneAtATime, StartUpdate
<1>4. CASE OnDataLoaded
  <2>1. /\ pending # <<>> /\ pending' = Tail(pending) /\ Head(pending) \in Waiting
        /\ Head(pending) \in ListRequest
    BY <1>1, <1>4, CallbackAnswers, CallbackPops DEF OnDataLoaded
  <2>2. m_bInProgress
    BY <1>1, <2>1 DEF CheckKnown
  <2>3. PICK l : Waiting \cap ListRequest = {l}
    BY <1>1, <2>2 DEF CheckKnown
  <2>4. Len(pending) \in Nat /\ Len(pending) > 0 /\ Head(pending) = pending[1]
    BY <1>1, <2>1, TailEnds
  <2>5. pending[Len(pending)] \in Waiting \cap ListRequest
    BY <1>0, <1>1, <2>2, <2>4 DEF Bookkeeping, OneAtATime
  <2>6. Len(pending) = 1
    <3>1. pending[1] = pending[Len(pending)] /\ 1 \in 1 .. Len(pending) /\ Len(pending) \in 1 .. Len(pending)
      BY <2>1, <2>3, <2>4, <2>5
    <3> QED BY <1>1, <3>1 DEF Bookkeeping
  <2>7. pending' = <<>>
    BY <1>1, <2>1, <2>6, TailEnds
  <2>8. ~m_bInProgress' /\ ~m_bIsInProcess'
    BY <1>0, <1>4, <2>2 DEF OnDataLoaded, OneAtATime
  <2> QED BY <2>7, <2>8 DEF OneAtATime
<1>5. CASE ZipResponse
  <2>1. /\ pending # <<>> /\ pending' = Tail(pending)
        /\ Head(pending) \notin ListRequest
    BY <1>1, <1>5, CallbackPops DEF ZipResponse, ZipRequest
  <2>2. ~offer /\ ~offer' /\ m_bInProgress' = m_bInProgress /\ m_bIsInProcess' = m_bIsInProcess
        /\ session' = session /\ zipBytes' = zipBytes
    BY <1>0, <1>5, <2>1 DEF ZipResponse, OneAtATime
  <2>3. CASE m_bInProgress
    <3>1. Len(pending) # 1
      BY <1>0, <1>1, <2>1, <2>3, TailEnds DEF OneAtATime
    <3>2. pending' # <<>> /\ pending'[Len(pending')] = pending[Len(pending)]
      BY <1>1, <2>1, <3>1, TailEnds
    <3> QED BY <1>0, <2>2, <2>3, <3>2 DEF OneAtATime
  <2>4. CASE m_bIsInProcess
    <3>1. pending = <<session>>
      BY <1>0, <2>1, <2>4 DEF OneAtATime
    <3>2. pending' = <<>>
      BY <2>1, <3>1
    <3> QED BY <1>0, <2>2, <2>4, <3>2 DEF OneAtATime
  <2>5. CASE ~m_bInProgress /\ ~m_bIsInProcess
    BY <2>2, <2>5 DEF OneAtATime
  <2> QED BY <2>3, <2>4, <2>5
<1>6. CASE pending' = pending
  <2> USE <1>0, <1>6 DEF OneAtATime
  <2>1. CASE WriteData
    <3>1. chunk = "checked" /\ zipBytes' \in {zipBytes, zipBytes \cup {current}}
          /\ (zipBytes' # zipBytes => zipOpen)
      BY <2>1 DEF WriteData
    <3>2. current # NoRequest
      BY <1>1, <3>1, NoRequestAssumption DEF Flags, ZipRequest
    <3>3. PICK i \in 1 .. Len(pending) : pending[i] = current
      BY <1>1, <3>2, InFlightPending
    <3>4. m_bIsInProcess => pending = <<session>> /\ current = session
      BY <3>3
    <3>5. m_bIsInProcess => zipBytes' \subseteq {session}
      BY <3>1, <3>4
    <3> QED BY <2>1, <3>5 DEF WriteData
  <2>2. CASE CloseOffer \/ StartUpdateFails \/ CancelTask \/ CancelConfirmation
    BY <2>2 DEF CloseOffer, StartUpdateFails, CancelTask, CancelConfirmation, ErrorOccured
  <2>3. CASE SpinEnds \/ CleanUp \/ Finish \/ ReplaceEnds
    BY <2>3 DEF SpinEnds, CleanUp, Finish, ReplaceEnds, ErrorOccured
  <2>4. CASE ExtractionDone \/ HashingDone \/ ConfirmationDone
    BY <2>4 DEF ExtractionDone, HashingDone, ConfirmationDone, BeginFileUpdating, ErrorOccured
  <2>5. CASE InstallDone \/ WriteCheck
    BY <2>5 DEF InstallDone, UpdateInstallStatus, WriteCheck
  <2>6. CASE CancelDownload \/ InstallerShutdown \/ TransferEnds
    <3>1. CASE CancelDownload
      BY <3>1 DEF CancelDownload, ErrorOccured
    <3>2. CASE InstallerShutdown
      <4>1. m_Status' \in {m_Status, "None"}
        BY <3>2 DEF InstallerShutdown
      <4> QED BY <3>2, <4>1 DEF InstallerShutdown
    <3>3. CASE TransferEnds
      BY <3>3 DEF TransferEnds
    <3> QED BY <2>6, <3>1, <3>2, <3>3
  <2>7. CASE HttpShutdown \/ Frame \/ ClientStep \/ SpuriousStep \/ Terminated \/ UNCHANGED vars
    BY <2>7 DEF HttpShutdown, Frame, ClientStep, SpuriousStep, Terminated, vars, updater
  <2>8. ASSUME NEW i \in {"current", "old"}, AsyncWork(i) \/ AsyncReturn(i) PROVE OneAtATime'
    BY <2>8 DEF AsyncWork, AsyncReturn
  <2> QED BY <1>2, <1>3, <1>4, <1>5, <2>1, <2>2, <2>3, <2>4, <2>5, <2>6, <2>7, <2>8 DEF UNext
<1> QED BY <1>1, <1>2, <1>3, <1>4, <1>5, <1>6, Kinds

\* The download of the update in process is over when a later phase begins.
LEMMA NoLateChunk ==
  ASSUME UInv, OneAtATime, current \in ZipRequest, m_bIsInProcess
  PROVE  m_Status \in {"Downloading", "None"}
<1>1. IInv /\ current # NoRequest
  BY NoRequestAssumption DEF UInv, ZipRequest
<1>2. PICK i \in 1 .. Len(pending) : pending[i] = current
  BY <1>1, InFlightPending
<1>3. pending # <<>>
  BY <1>2
<1> QED BY <1>3 DEF OneAtATime

LEMMA OneTaskStep == UInv /\ ~rechecked' /\ [UNext]_vars => OneTask'
<1> SUFFICES ASSUME UInv, ~rechecked', [UNext]_vars PROVE OneTask'
  OBVIOUS
<1>0. OneAtATime /\ Flags /\ OneTask
  BY RecheckedStays DEF UInv, Peace
<1>t. /\ tasks \in [{"current", "old"} -> Task \cup {NoTask}]
      /\ m_bAbortRequested \in BOOLEAN /\ m_bIsInProcess \in BOOLEAN
      /\ m_Status \in Status
  BY DEF UInv, UTypeOK
<1> USE <1>0, <1>t DEF OneTask, Running
\* A task is only started when none is running.
<1>1. ASSUME NEW kind \in {"extract", "hash", "install"}, StartTask(kind), ~Running("current")
      PROVE  /\ tasks' = [current |-> [kind |-> kind, pc |-> "work", ok |-> FALSE], old |-> NoTask]
             /\ tasks'["old"] = NoTask /\ tasks'["current"].kind = kind /\ call' = "none"
  BY <1>1 DEF StartTask
<1>2. ASSUME NEW r \in Request, CheckForUpdates(r) \/ StartUpdate(r) PROVE OneTask'
  <2>1. CASE CheckForUpdates(r)
    BY <2>1 DEF CheckForUpdates
  <2>2. CASE StartUpdate(r)
    BY <2>2 DEF StartUpdate, Idle
  <2> QED BY <1>2, <2>1, <2>2
<1>3. CASE OnDataLoaded \/ CloseOffer
  BY <1>3 DEF OnDataLoaded, CloseOffer
<1>4. CASE StartUpdateFails
  BY <1>4 DEF StartUpdateFails, Idle
<1>5. CASE CancelDownload \/ CancelTask \/ CancelConfirmation
  BY <1>5 DEF CancelDownload, CancelTask, CancelConfirmation, ErrorOccured
<1>6. CASE SpinEnds \/ CleanUp \/ Finish \/ ReplaceEnds
  BY <1>6 DEF SpinEnds, CleanUp, Finish, ReplaceEnds, ErrorOccured, Flags
<1>7. CASE ZipResponse
  <2>1. CASE ~m_bIsInProcess
    BY <1>7, <2>1 DEF ZipResponse
  <2>2. CASE m_bIsInProcess
    <3>1. pending # <<>> /\ call = "none"
      BY <1>7, CallbackPops DEF ZipResponse, UInv
    <3>2. m_Status = "Downloading" /\ tasks["current"] = NoTask
      BY <2>2, <3>1 DEF OneAtATime, Flags
    <3>3. CASE ErrorOccured /\ UNCHANGED tasks
      BY <1>7, <3>2, <3>3 DEF ErrorOccured, ZipResponse
    <3>4. CASE m_Status' = "Extracting" /\ StartTask("extract")
      BY <1>1, <1>7, <2>2, <3>2, <3>4 DEF ZipResponse
    <3> QED BY <1>7, <2>2, <3>3, <3>4 DEF ZipResponse
  <2> QED BY <2>1, <2>2
<1>8. CASE ExtractionDone
  <2>1. ~Running("current") /\ call = "none" /\ m_Status = "Extracting" /\ m_bIsInProcess
    BY <1>8 DEF ExtractionDone, FutureReady, Idle
  <2>2. CASE ErrorOccured /\ tasks' = [tasks EXCEPT !["current"] = NoTask]
    BY <1>8, <2>1, <2>2 DEF ExtractionDone, ErrorOccured, Flags
  <2>3. CASE m_Status' = "Hashing" /\ StartTask("hash")
    BY <1>1, <1>8, <2>1, <2>3 DEF ExtractionDone
  <2> QED BY <1>8, <2>2, <2>3 DEF ExtractionDone
<1>9. CASE HashingDone \/ ConfirmationDone
  <2>1. ~Running("current") /\ call = "none" /\ m_Status \in {"Hashing", "Confirming"} /\ m_bIsInProcess
    BY <1>9 DEF HashingDone, ConfirmationDone, FutureReady, Idle
  <2>2. m_bIsInProcess' = m_bIsInProcess /\ m_bAbortRequested' = m_bAbortRequested
    BY <1>9 DEF HashingDone, ConfirmationDone
  <2>3. ~m_bAbortRequested
    BY <2>1 DEF Flags
  <2>4. CASE ErrorOccured /\ tasks' = [tasks EXCEPT !["current"] = NoTask]
    BY <2>1, <2>2, <2>3, <2>4 DEF ErrorOccured
  <2>5. CASE m_Status' = "Confirming" /\ tasks' = [tasks EXCEPT !["current"] = NoTask] /\ call' = call
    BY <2>1, <2>2, <2>3, <2>5
  <2>6. CASE BeginFileUpdating
    BY <1>1, <2>1, <2>2, <2>3, <2>6 DEF BeginFileUpdating
  <2> QED BY <1>9, <2>4, <2>5, <2>6 DEF HashingDone, ConfirmationDone
<1>10. CASE InstallDone
  BY <1>10 DEF InstallDone, UpdateInstallStatus
<1>11. CASE InstallerShutdown
  <2>1. CASE ~m_bIsInProcess
    BY <1>11, <2>1 DEF InstallerShutdown, Idle
  <2>2. CASE m_bIsInProcess
    BY <1>11, <2>2 DEF InstallerShutdown, Idle, Flags
  <2> QED BY <2>1, <2>2
<1>12. ASSUME NEW i \in {"current", "old"}, AsyncWork(i) \/ AsyncReturn(i) PROVE OneTask'
  <2>1. i = "current" /\ Running("current")
    BY <1>12 DEF AsyncWork, AsyncReturn
  <2>2. /\ tasks'["old"] = NoTask
        /\ tasks'["current"].kind = tasks["current"].kind
    BY <1>12, <2>1 DEF AsyncWork, AsyncReturn, Task
  <2>3. CASE AsyncWork(i)
    BY <2>1, <2>2, <2>3 DEF AsyncWork
  <2>4. CASE AsyncReturn(i)
    <3>1. tasks'["current"].pc = "done"
      BY <2>1, <2>4 DEF AsyncReturn, Task
    <3> QED BY <2>1, <2>2, <2>4, <3>1 DEF AsyncReturn
  <2> QED BY <1>12, <2>3, <2>4
<1>13. CASE WriteCheck
  <2>1. m_bIsInProcess => ~m_bAbortRequested
    BY <1>13, NoLateChunk DEF WriteCheck
  <2>2. m_bAbortRequested' = m_bAbortRequested
    BY <1>13, <2>1 DEF WriteCheck
  <2> QED BY <1>13, <2>2 DEF WriteCheck
<1>14. CASE WriteData \/ TransferEnds
  <2>1. UNCHANGED <<m_bIsInProcess, m_bAbortRequested, m_Status, tasks, call>>
    BY <1>14 DEF WriteData, TransferEnds
  <2> QED BY <2>1
<1>15. CASE HttpShutdown \/ Frame \/ ClientStep \/ SpuriousStep \/ Terminated \/ UNCHANGED vars
  BY <1>15 DEF HttpShutdown, Frame, ClientStep, SpuriousStep, Terminated, vars, updater
<1> QED
  BY <1>2, <1>3, <1>4, <1>5, <1>6, <1>7, <1>8, <1>9, <1>10, <1>11, <1>12, <1>13, <1>14, <1>15 DEF
      UNext

LEMMA ExitCommandsStep == UInv /\ ~rechecked' /\ [UNext]_vars => ExitCommands'
<1> SUFFICES ASSUME UInv, ~rechecked', [UNext]_vars PROVE ExitCommands'
  OBVIOUS
<1>0. OneAtATime /\ Flags /\ OneTask /\ ExitCommands
  BY RecheckedStays DEF UInv, Peace
<1>t. exitCmd \in [{"quit", "_restart"} -> {"engine", "stub", "null"}]
  BY DEF UInv, UTypeOK
<1> USE <1>0, <1>t DEF ExitCommands
<1>1. CASE exitCmd' = exitCmd /\ (m_Status' = "Installing" <=> m_Status = "Installing")
  BY <1>1
<1>2. CASE BeginFileUpdating
  BY <1>2 DEF BeginFileUpdating, DisableExitCommands
<1>3. CASE InstallDone
  BY <1>3 DEF InstallDone, UpdateInstallStatus, EnableExitCommands
<1>4. CASE ~BeginFileUpdating /\ ~InstallDone
  <2>1. ASSUME NEW r \in Request, CheckForUpdates(r) \/ StartUpdate(r) PROVE ExitCommands'
    BY <1>1, <2>1 DEF CheckForUpdates, StartUpdate, OneTask
  <2>2. CASE OnDataLoaded \/ CloseOffer \/ StartUpdateFails
    BY <1>1, <2>2 DEF OnDataLoaded, CloseOffer, StartUpdateFails
  <2>3. CASE CancelDownload \/ CancelTask \/ CancelConfirmation
    BY <1>1, <2>3 DEF CancelDownload, CancelTask, CancelConfirmation, ErrorOccured
  <2>4. CASE SpinEnds \/ CleanUp \/ Finish \/ ReplaceEnds
    BY <1>1, <2>4 DEF SpinEnds, CleanUp, Finish, ReplaceEnds, ErrorOccured, OneTask
  <2>5. CASE ZipResponse
    <3>1. exitCmd' = exitCmd /\ m_Status' \in {m_Status, "None", "Extracting"}
      BY <2>5 DEF ZipResponse, ErrorOccured
    <3>2. m_bIsInProcess => m_Status # "Installing"
      <4>1. pending # <<>>
        BY <2>5, CallbackPops DEF ZipResponse, UInv
      <4> QED BY <4>1 DEF OneAtATime
    <3>3. m_Status' # m_Status => m_bIsInProcess
      BY <2>5 DEF ZipResponse
    <3> QED BY <1>1, <3>1, <3>2, <3>3
  <2>6. CASE ExtractionDone
    BY <1>1, <2>6 DEF ExtractionDone, ErrorOccured
  <2>7. CASE HashingDone \/ ConfirmationDone
    BY <1>1, <1>4, <2>7 DEF HashingDone, ConfirmationDone, ErrorOccured
  <2>8. CASE InstallerShutdown
    BY <1>1, <2>8 DEF InstallerShutdown
  <2>9. ASSUME NEW i \in {"current", "old"}, AsyncWork(i) \/ AsyncReturn(i) PROVE ExitCommands'
    BY <1>1, <2>9 DEF AsyncWork, AsyncReturn, OneTask
  <2>10. CASE WriteCheck \/ WriteData \/ TransferEnds
    BY <1>1, <2>10 DEF WriteCheck, WriteData, TransferEnds
  <2>11. CASE HttpShutdown \/ Frame \/ ClientStep \/ SpuriousStep \/ Terminated \/ UNCHANGED vars
    BY <1>1, <2>11 DEF HttpShutdown, Frame, ClientStep, SpuriousStep, Terminated, vars, updater
  <2> QED BY <1>3, <1>4, <2>1, <2>2, <2>3, <2>4, <2>5, <2>6, <2>7, <2>8, <2>9, <2>10, <2>11 DEF UNext
<1> QED BY <1>2, <1>3, <1>4

-----------------------------------------------------------------------------
(* The invariant and what follows from it. *)

LEMMA UInitEstablishes == UInit => UInv
<1> SUFFICES ASSUME UInit PROVE UInv
  OBVIOUS
<1>1. IInv /\ TypeOK
  BY InitEstablishes DEF UInit, IInv
<1>2. pending = <<>> /\ issued = {} /\ delivered = <<>>
  <2>1. <<>> \in Seq(Response)
    BY EmptySeq
  <2>2. RequestsOf(<<>>) \in Seq(Request) /\ Len(RequestsOf(<<>>)) = 0
    BY <2>1, RequestsOfType, EmptySeq
  <2>3. RequestsOf(<<>>) = <<>>
    BY <2>2, EmptySeq
  <2> QED BY <2>3 DEF UInit, Init, pending, InFlight
<1>3. \A r : ~Answered(r)
  BY <1>2 DEF Answered
<1>4. UTypeOK
  BY <1>1 DEF UInit, UTypeOK, Status, Call
<1>5. Waiting = {}
  BY <1>2 DEF Waiting
<1>6. Bookkeeping
  <2>1. 1 .. Len(pending) = {}
    BY <1>2
  <2> QED BY <1>3, <1>5, <2>1 DEF Bookkeeping
<1>7. CheckKnown
  BY <1>5 DEF CheckKnown, UInit
<1>8. Flags /\ OneAtATime /\ OneTask /\ ExitCommands
  BY DEF UInit, Flags, OneAtATime, OneTask, ExitCommands, Running
<1> QED BY <1>1, <1>4, <1>6, <1>7, <1>8 DEF UInv, Peace

LEMMA UNextPreserves == UInv /\ [UNext]_vars => UInv'
<1> SUFFICES ASSUME UInv, [UNext]_vars PROVE UInv'
  OBVIOUS
<1>1. IInv' /\ UTypeOK' /\ Bookkeeping' /\ CheckKnown' /\ Flags'
  BY HttpStep, NextPreserves, TypeStep, BookkeepingStep, CheckKnownStep, FlagsStep DEF UInv
<1>2. Peace'
  BY OneAtATimeStep, OneTaskStep, ExitCommandsStep DEF Peace
<1> QED BY <1>1, <1>2 DEF UInv

\* The updater's inductive invariant: requests that are pending, the check, the flags and the tasks fit together
\* after every step of CUpdateChecker, CUpdateInstaller and their callbacks.
THEOREM UpdaterInvariance == USpec => []UInv
BY UInitEstablishes, UNextPreserves, PTL DEF USpec

\* The state of the checker, the installer and their HTTP client always has
\* the type the module declares.
THEOREM UpdaterTypeCorrect == USpec => []UTypeOK
BY UpdaterInvariance, PTL DEF UInv

\* The installer's callbacks only ever hear of its own download, and the
\* checker has one list under way exactly while m_bInProgress is set.
THEOREM NoRequestsOverlap == USpec => []RequestsDoNotOverlap
<1>1. UInv => RequestsDoNotOverlap
  <2> SUFFICES ASSUME UInv PROVE SessionsDoNotOverlap /\ OneCheckAtATime
    BY DEF RequestsDoNotOverlap
  <2>1. SessionsDoNotOverlap
    <3> SUFFICES ASSUME m_bIsInProcess, ~rechecked, NEW r \in issued, ~Answered(r) PROVE r = session
      BY DEF SessionsDoNotOverlap
    <3>1. PICK i \in 1 .. Len(pending) : pending[i] = r
      BY DEF UInv, Bookkeeping, Waiting
    <3>2. pending \in {<<>>, <<session>>}
      BY DEF UInv, Peace, OneAtATime
    <3> QED BY <3>1, <3>2
  <2>2. OneCheckAtATime
    <3>1. {r \in ListRequest \cap issued : ~Answered(r)} = Waiting \cap ListRequest
      BY DEF Waiting
    <3>2. CASE m_bInProgress
      <4>1. PICK r : Waiting \cap ListRequest = {r}
        BY <3>2 DEF UInv, CheckKnown
      <4> QED BY <3>1, <3>2, <4>1, FS_Singleton DEF OneCheckAtATime
    <3>3. CASE ~m_bInProgress
      BY <3>1, <3>3, FS_EmptySet DEF UInv, CheckKnown, OneCheckAtATime
    <3> QED BY <3>2, <3>3
  <2> QED BY <2>1, <2>2
<1> QED BY <1>1, UpdaterInvariance, PTL

\* The updater is never in process without a status, and quit and _restart are
\* disabled exactly while files are being replaced.
THEOREM PhasesInStep == USpec => []PhasesAgree
<1>1. UInv => PhasesAgree
  BY DEF UInv, Flags, Peace, OneTask, ExitCommands, PhasesAgree, InProcessHasStatus,
         ExitDisabledWhileInstalling
<1> QED BY <1>1, UpdaterInvariance, PTL

\* CleanUp never runs under a task or outside an update, as it asserts.
THEOREM CleanUpSafe == USpec => []CleanUpIsSafe
<1>1. UInv => CleanUpIsSafe
  BY DEF UInv, Flags, Peace, OneTask, Running, CleanUpIsSafe
<1> QED BY <1>1, UpdaterInvariance, PTL

\* Only the response of the update in process starts an extraction, and the
\* zip file then holds the bytes of that download alone.
THEOREM OwnDownload == USpec => ExtractsOwnDownload
<1> DEFINE A == m_Status # "Extracting" /\ m_Status' = "Extracting" /\ ~rechecked =>
                   /\ m_bIsInProcess
                   /\ Head(m_ResponseQueue).req = session
                   /\ zipBytes = {session}
<1>1. UInv /\ [UNext]_vars => [A]_vars
  <2> SUFFICES ASSUME UInv, [UNext]_vars, m_Status # "Extracting", m_Status' = "Extracting", ~rechecked
               PROVE  /\ m_bIsInProcess
                      /\ Head(m_ResponseQueue).req = session
                      /\ zipBytes = {session}
    OBVIOUS
  <2>1. ZipResponse
    <3>1. ASSUME NEW r \in Request, CheckForUpdates(r) \/ StartUpdate(r) PROVE FALSE
      BY <3>1 DEF CheckForUpdates, StartUpdate
    <3>2. CASE \/ OnDataLoaded \/ CloseOffer \/ StartUpdateFails \/ CancelTask \/ CancelConfirmation \/ SpinEnds
               \/ CleanUp \/ Finish \/ ReplaceEnds
      BY <3>2 DEF OnDataLoaded, CloseOffer, StartUpdateFails, CancelTask, CancelConfirmation,
                  SpinEnds, CleanUp,
                  Finish, ReplaceEnds, ErrorOccured
    <3>3. CASE \/ ExtractionDone \/ HashingDone \/ ConfirmationDone \/ InstallDone
               \/ WriteCheck \/ WriteData \/ Terminated \/ UNCHANGED vars
      BY <3>3 DEF ExtractionDone, HashingDone, ConfirmationDone, InstallDone, UpdateInstallStatus,
                  BeginFileUpdating, ErrorOccured, WriteCheck, WriteData, Terminated, vars, updater
    <3>4. CASE \/ CancelDownload \/ InstallerShutdown \/ HttpShutdown \/ TransferEnds \/ Frame \/ ClientStep
               \/ SpuriousStep
      BY <3>4 DEF CancelDownload, InstallerShutdown, HttpShutdown, TransferEnds, Frame, ClientStep,
                  SpuriousStep,
                  ErrorOccured, updater
    <3>5. ASSUME NEW i \in {"current", "old"}, AsyncWork(i) \/ AsyncReturn(i) PROVE FALSE
      BY <3>5 DEF AsyncWork, AsyncReturn
    <3> QED BY <3>1, <3>2, <3>3, <3>4, <3>5 DEF UNext
  <2>2. m_bIsInProcess /\ zipBytes # {}
    BY <2>1 DEF ZipResponse, ErrorOccured
  <2>3. pending # <<>> /\ Head(m_ResponseQueue).req = Head(pending)
    BY <2>1, CallbackPops DEF ZipResponse, UInv
  <2>4. pending = <<session>> /\ zipBytes \subseteq {session}
    BY <2>2, <2>3 DEF UInv, Peace, OneAtATime
  <2> QED BY <2>2, <2>3, <2>4
<1> QED BY <1>1, UpdaterInvariance, PTL DEF USpec, ExtractsOwnDownload
=============================================================================
