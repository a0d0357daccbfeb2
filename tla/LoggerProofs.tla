---------------------------- MODULE LoggerProofs ----------------------------
(***************************************************************************)
(* Proofs about Logger, for any number of threads, destinations and        *)
(* messages.                                                               *)
(*                                                                         *)
(* The queue holds the messages after the last one taken, in order.  While *)
(* the process runs, the worker holds destMutex exactly during a broadcast *)
(* and has destinations left to tell only then; a registered destination   *)
(* is one message behind if it is among those, and up to date otherwise.   *)
(***************************************************************************)
EXTENDS Logger, TLAPS

Typed ==
  /\ queue \in Seq(Nat)
  /\ pushed \in 0..MaxLogged
  /\ mutex \in Threads \cup {Worker, Nobody}
  /\ calls \in [Threads -> {"idle", "push", "notify"}]
  /\ worker \in {"unstarted", "test", "check", "waiting", "taken", "broadcast", "killed"}
  /\ dests \subseteq Destinations
  /\ destMutex \in {Worker, Nobody}
  /\ todo \subseteq Destinations
  /\ last \in [Destinations -> Nat]
  /\ task \in Nat
  /\ process \in {"running", "refused", "unloaded", "exiting", "ended", "aborted"}

Numbered ==
  /\ pushed = task + Len(queue)
  /\ \A i \in 1..Len(queue) : queue[i] = task + i
  /\ worker = "taken" => task # 0

Guarded ==
  /\ Running => (destMutex = Worker <=> worker = "broadcast")
  /\ Running /\ worker # "broadcast" => todo = {}

UpToDate ==
  Running => \A d \in dests :
    last[d] = IF d \in todo \/ worker = "taken" THEN task - 1 ELSE task

(* One thread at a time is between lock and unlock of the queue.            *)
Exclusive ==
  Running =>
    /\ \A t \in Threads : calls[t] = "push" => mutex = t /\ pushed < MaxLogged
    /\ worker = "check" => mutex = Worker

IInv ==
  /\ Typed /\ Numbered /\ Exclusive
  /\ Guarded /\ RemovedStaysSilent /\ UpToDate

-----------------------------------------------------------------------------

LEMMA MemberOfSeq ==
  ASSUME NEW S, NEW s \in Seq(S), NEW T, \A i \in 1..Len(s) : s[i] \in T
  PROVE  s \in Seq(T)
OBVIOUS

LEMMA BegunIs ==
  ASSUME IInv
  PROVE  Begun = (IF worker = "taken" THEN task - 1 ELSE task) /\ Begun \in Nat
<1>1. Typed /\ Numbered /\ Len(queue) \in Nat /\ pushed \in Nat
  BY ThreadsAssumption DEF IInv, Typed
<1>2. pushed - Len(queue) = task
  BY <1>1 DEF Numbered, Typed
<1> QED BY <1>1, <1>2 DEF Begun, Taken, Numbered, Typed

LEMMA Initially == Init => IInv
<1> SUFFICES ASSUME Init PROVE IInv
  OBVIOUS
<1>1. queue = <<>> /\ Len(queue) = 0 /\ queue \in Seq(Nat)
  BY DEF Init
<1>2. Typed
  BY <1>1, ThreadsAssumption DEF Init, Typed
<1>3. Numbered /\ Exclusive
  BY <1>1 DEF Init, Numbered, Exclusive
<1>4. Guarded /\ RemovedStaysSilent /\ UpToDate
  BY ThreadsAssumption DEF Init, Guarded, RemovedStaysSilent, UpToDate
<1> QED BY <1>2, <1>3, <1>4 DEF IInv

LEMMA LockStep == ASSUME IInv, NEW t \in Threads, Lock(t) PROVE IInv'
<1>0. Typed /\ Numbered /\ Exclusive /\ Guarded /\ RemovedStaysSilent /\ UpToDate
  BY DEF IInv
<1>1. UNCHANGED <<queue, pushed, worker, task, dests, destMutex, todo, last, process>>
  BY DEF Lock
<1>2. Typed'
  BY <1>0, <1>1 DEF Typed, Lock
<1>3. Numbered' /\ Guarded' /\ RemovedStaysSilent' /\ UpToDate'
  BY <1>0, <1>1 DEF Numbered, Guarded, RemovedStaysSilent, UpToDate, Running
<1>4. Exclusive'
  BY <1>0, ThreadsAssumption DEF Exclusive, Lock, Running, Typed
<1> QED BY <1>2, <1>3, <1>4 DEF IInv

LEMMA PushStep == ASSUME IInv, NEW t \in Threads, Push(t) PROVE IInv'
<1>0. /\ Typed /\ Numbered /\ Exclusive /\ Guarded /\ RemovedStaysSilent /\ UpToDate
      /\ queue \in Seq(Nat) /\ Len(queue) \in Nat /\ pushed \in Nat /\ task \in Nat
  BY ThreadsAssumption DEF IInv, Typed
<1>1. pushed' = pushed + 1 /\ pushed' \in Nat /\ queue' = Append(queue, pushed')
  BY <1>0 DEF Push
<1>2. /\ queue' \in Seq(Nat) /\ Len(queue') = Len(queue) + 1
      /\ queue'[Len(queue) + 1] = pushed'
      /\ \A i \in 1..Len(queue) : queue'[i] = queue[i]
  BY <1>0, <1>1
<1>3. /\ UNCHANGED <<worker, task, dests, destMutex, todo, last, process>>
      /\ mutex = t /\ mutex' = Nobody /\ pushed < MaxLogged /\ worker # "check"
  BY <1>0, ThreadsAssumption DEF Push, Exclusive
<1>4. Typed'
  BY <1>0, <1>1, <1>2, <1>3, ThreadsAssumption DEF Typed, Push
<1>5. Numbered'
  <2>1. pushed = task + Len(queue)
    BY <1>0 DEF Numbered
  <2>2. pushed' = task' + Len(queue')
    BY <1>0, <1>1, <1>2, <1>3, <2>1
  <2>3. ASSUME NEW i \in 1..Len(queue') PROVE queue'[i] = task' + i
    <3>1. CASE i \in 1..Len(queue)
      BY <1>0, <1>2, <1>3, <3>1 DEF Numbered
    <3>2. CASE i = Len(queue) + 1
      BY <1>0, <1>1, <1>2, <1>3, <2>1, <3>2
    <3> QED BY <1>0, <1>2, <3>1, <3>2
  <2> QED BY <1>0, <1>3, <2>2, <2>3 DEF Numbered
<1>6. Guarded' /\ RemovedStaysSilent' /\ UpToDate'
  BY <1>0, <1>3 DEF Guarded, RemovedStaysSilent, UpToDate, Running
<1>7. Exclusive'
  BY <1>0, <1>3 DEF Exclusive, Push, Running, Typed
<1> QED BY <1>4, <1>5, <1>6, <1>7 DEF IInv

LEMMA NotifyStep == ASSUME IInv, NEW t \in Threads, Notify(t) PROVE IInv'
<1>0. Typed /\ Numbered /\ Exclusive /\ Guarded /\ RemovedStaysSilent /\ UpToDate
  BY DEF IInv
<1>1. /\ UNCHANGED <<queue, pushed, mutex, task, dests, destMutex, todo, last, process>>
      /\ worker' = worker \/ (worker = "waiting" /\ worker' = "test")
  BY DEF Notify
<1>2. Typed'
  BY <1>0, <1>1 DEF Typed, Notify
<1>3. Numbered' /\ Guarded' /\ RemovedStaysSilent' /\ UpToDate'
  BY <1>0, <1>1 DEF Numbered, Guarded, RemovedStaysSilent, UpToDate, Running
<1>4. Exclusive'
  BY <1>0, <1>1 DEF Exclusive, Notify, Running, Typed
<1> QED BY <1>2, <1>3, <1>4 DEF IInv

LEMMA DestinationStep ==
  ASSUME IInv, NEW d \in Destinations, AddDestination(d) \/ RemoveDestination(d)
  PROVE  IInv'
<1>0. Typed /\ Numbered /\ Exclusive /\ Guarded /\ RemovedStaysSilent /\ UpToDate
  BY DEF IInv
<1>1. UNCHANGED <<queue, pushed, mutex, calls, worker, task, destMutex, todo, process>>
  BY DEF AddDestination, RemoveDestination
<1>2. Running /\ todo = {} /\ worker # "broadcast"
  BY <1>0, ThreadsAssumption DEF AddDestination, RemoveDestination, Guarded
<1>3. Numbered' /\ Guarded' /\ RemovedStaysSilent'
  BY <1>0, <1>1, <1>2 DEF Numbered, Guarded, RemovedStaysSilent, Running
<1>4. Exclusive'
  BY <1>0, <1>1 DEF Exclusive, Running
<1>5. CASE RemoveDestination(d)
  <2>1. dests' = dests \ {d} /\ last' = last
    BY <1>5 DEF RemoveDestination
  <2>2. Typed' /\ UpToDate'
    BY <1>0, <1>1, <2>1 DEF Typed, UpToDate, Running
  <2> QED BY <1>3, <1>4, <2>2 DEF IInv
<1>6. CASE AddDestination(d)
  <2>1. Begun = (IF worker = "taken" THEN task - 1 ELSE task) /\ Begun \in Nat
    BY BegunIs
  <2>2. dests' = dests \cup {d} /\ last' = IF d \in dests THEN last ELSE [last EXCEPT ![d] = Begun]
    BY <1>6 DEF AddDestination
  <2>3. Typed'
    BY <1>0, <1>1, <2>1, <2>2 DEF Typed
  <2>4. UpToDate'
    BY <1>0, <1>1, <1>2, <2>1, <2>2 DEF UpToDate, Running, Typed
  <2> QED BY <1>3, <1>4, <2>3, <2>4 DEF IInv
<1> QED BY <1>5, <1>6

(* The oldest message leaves the queue: the rest moves up by one.           *)
LEMMA TakeStep == ASSUME IInv, Take PROVE IInv'
<1>0. /\ Typed /\ Numbered /\ Exclusive /\ Guarded /\ RemovedStaysSilent /\ UpToDate
      /\ queue \in Seq(Nat) /\ Len(queue) \in Nat /\ pushed \in Nat /\ task \in Nat
  BY ThreadsAssumption DEF IInv, Typed
<1>1. /\ Running /\ worker = "check" /\ queue # <<>> /\ worker' = "taken" /\ mutex' = Nobody
      /\ task' = Head(queue) /\ queue' = Tail(queue)
      /\ UNCHANGED <<pushed, calls, dests, destMutex, todo, last, process>>
  BY DEF Take
<1>2. /\ queue' \in Seq(Nat) /\ Len(queue') = Len(queue) - 1 /\ Len(queue) > 0
      /\ task' = queue[1]
      /\ \A i \in 1..Len(queue') : queue'[i] = queue[i + 1]
  BY <1>0, <1>1
<1>3. task' = task + 1
  BY <1>0, <1>2 DEF Numbered
<1>4. Typed'
  BY <1>0, <1>1, <1>2, <1>3 DEF Typed
<1>5. Numbered'
  <2>1. pushed' = task' + Len(queue')
    BY <1>0, <1>1, <1>2, <1>3 DEF Numbered
  <2>2. ASSUME NEW i \in 1..Len(queue') PROVE queue'[i] = task' + i
    <3>1. i + 1 \in 1..Len(queue)
      BY <1>0, <1>2
    <3>2. queue[i + 1] = task + (i + 1)
      BY <1>0, <3>1 DEF Numbered
    <3> QED BY <1>0, <1>2, <1>3, <3>2
  <2> QED BY <1>0, <1>3, <2>1, <2>2 DEF Numbered
<1>6. Guarded' /\ RemovedStaysSilent'
  BY <1>0, <1>1 DEF Guarded, RemovedStaysSilent, Running
<1>7. UpToDate'
  BY <1>0, <1>1, <1>3 DEF UpToDate, Guarded, Running
<1>8. Exclusive'
  BY <1>0, <1>1, ThreadsAssumption DEF Exclusive, Running
<1> QED BY <1>4, <1>5, <1>6, <1>7, <1>8 DEF IInv

LEMMA TellStep == ASSUME IInv, NEW d \in Destinations, Tell(d) PROVE IInv'
<1>0. Typed /\ Numbered /\ Exclusive /\ Guarded /\ RemovedStaysSilent /\ UpToDate
  BY DEF IInv
<1>1. /\ Running /\ worker = "broadcast" /\ d \in todo
      /\ last' = [last EXCEPT ![d] = task] /\ todo' = todo \ {d}
      /\ UNCHANGED <<queue, pushed, mutex, calls, worker, task, dests, destMutex, process>>
  BY DEF Tell
<1>2. Typed' /\ UpToDate'
  BY <1>0, <1>1 DEF Typed, UpToDate, Running
<1>3. Numbered' /\ Guarded' /\ RemovedStaysSilent' /\ Exclusive'
  BY <1>0, <1>1 DEF Numbered, Guarded, RemovedStaysSilent, Exclusive, Running
<1> QED BY <1>2, <1>3 DEF IInv

LEMMA BroadcastStep == ASSUME IInv, LockDestinations \/ EndOfBroadcast PROVE IInv'
<1>0. Typed /\ Numbered /\ Exclusive /\ Guarded /\ RemovedStaysSilent /\ UpToDate
  BY DEF IInv
<1>1. UNCHANGED <<queue, pushed, mutex, calls, task, dests, last, process>>
  BY DEF LockDestinations, EndOfBroadcast
<1>2. CASE LockDestinations
  <2>1. worker = "taken" /\ worker' = "broadcast" /\ todo' = dests /\ destMutex' = Worker
    BY <1>2 DEF LockDestinations
  <2>2. Typed' /\ Numbered' /\ Exclusive'
    BY <1>0, <1>1, <2>1 DEF Typed, Numbered, Exclusive, Running
  <2>3. Guarded' /\ RemovedStaysSilent' /\ UpToDate'
    BY <1>0, <1>1, <2>1 DEF Guarded, RemovedStaysSilent, UpToDate, Running
  <2> QED BY <2>2, <2>3 DEF IInv
<1>3. CASE EndOfBroadcast
  <2>1. /\ worker = "broadcast" /\ worker' = "test" /\ destMutex' = Nobody
        /\ todo = {} /\ todo' = todo
    BY <1>3 DEF EndOfBroadcast
  <2>2. Typed' /\ Numbered' /\ Exclusive'
    BY <1>0, <1>1, <2>1 DEF Typed, Numbered, Exclusive, Running
  <2>3. Guarded' /\ RemovedStaysSilent' /\ UpToDate'
    BY <1>0, <1>1, <2>1, ThreadsAssumption
       DEF Guarded, RemovedStaysSilent, UpToDate, Running
  <2> QED BY <2>2, <2>3 DEF IInv
<1> QED BY <1>2, <1>3

(* Steps of the worker around the queue, when it takes nothing.             *)
LEMMA IdleStep ==
  ASSUME IInv, Play \/ LockQueue \/ Wait \/ SpuriousWakeup
  PROVE  IInv'
<1>0. Typed /\ Numbered /\ Exclusive /\ Guarded /\ RemovedStaysSilent /\ UpToDate
  BY DEF IInv
<1>1. /\ UNCHANGED <<queue, pushed, calls, task, dests, destMutex, todo, last, process>>
      /\ worker \in {"unstarted", "test", "check", "waiting"}
      /\ worker' \in {"test", "check", "waiting"}
  BY DEF Play, LockQueue, Wait, SpuriousWakeup
<1>2. Typed'
  BY <1>0, <1>1 DEF Typed, Play, LockQueue, Wait, SpuriousWakeup
<1>3. Numbered' /\ Guarded' /\ RemovedStaysSilent' /\ UpToDate'
  BY <1>0, <1>1 DEF Numbered, Guarded, RemovedStaysSilent, UpToDate, Running
<1>4. Exclusive'
  BY <1>0, <1>1, ThreadsAssumption
     DEF Exclusive, Play, LockQueue, Wait, SpuriousWakeup, Running
<1> QED BY <1>2, <1>3, <1>4 DEF IInv

(* When the process no longer runs, nothing moves but the process itself.   *)
LEMMA EndStep ==
  ASSUME IInv, Refuse \/ Exit \/ Destroy \/ Over \/ UNCHANGED vars
  PROVE  IInv'
<1>0. Typed /\ Numbered /\ Exclusive /\ Guarded /\ RemovedStaysSilent /\ UpToDate
  BY DEF IInv
<1>1. CASE UNCHANGED vars
  BY <1>0, <1>1 DEF IInv, Typed, Numbered, Exclusive, Guarded, RemovedStaysSilent,
                    UpToDate, Running, vars
<1>2. CASE Refuse \/ Exit \/ Destroy
  <2>1. /\ UNCHANGED <<queue, pushed, mutex, calls, task, dests, destMutex, todo, last>>
        /\ worker' \in {worker, "killed"} /\ ~Running'
    BY <1>2 DEF Refuse, Exit, Destroy, Running
  <2>2. Typed'
    BY <1>0, <1>2, <2>1 DEF Typed, Refuse, Exit, Destroy
  <2>3. Numbered' /\ Exclusive' /\ Guarded' /\ RemovedStaysSilent' /\ UpToDate'
    BY <1>0, <2>1 DEF Numbered, Exclusive, Guarded, RemovedStaysSilent, UpToDate
  <2> QED BY <2>2, <2>3 DEF IInv
<1> QED BY <1>1, <1>2 DEF Over

LEMMA EveryStep == IInv /\ [Next]_vars => IInv'
<1> SUFFICES ASSUME IInv, [Next]_vars PROVE IInv'
  OBVIOUS
<1>1. ASSUME NEW t \in Threads, Lock(t) \/ Push(t) \/ Notify(t) PROVE IInv'
  BY <1>1, LockStep, PushStep, NotifyStep
<1>2. ASSUME NEW d \in Destinations, AddDestination(d) \/ RemoveDestination(d) PROVE IInv'
  BY <1>2, DestinationStep
<1>3. CASE Work
  BY <1>3, IdleStep, TakeStep, BroadcastStep, TellStep DEF Work
<1>4. CASE Play \/ SpuriousWakeup
  BY <1>4, IdleStep
<1>5. CASE Refuse \/ Exit \/ Destroy \/ Over \/ UNCHANGED vars
  BY <1>5, EndStep
<1> QED BY <1>1, <1>2, <1>3, <1>4, <1>5 DEF Next

LEMMA Invariance == Spec => []IInv
BY Initially, EveryStep, PTL DEF Spec

-----------------------------------------------------------------------------
(* Theorems                                                                 *)

(* TypeOK: the queue holds messages pushed and not yet taken, and every     *)
(* state of the logger is typed.                                            *)
THEOREM LoggerTyped == Spec => []TypeOK
<1>1. ASSUME IInv PROVE TypeOK
  <2>0. Typed /\ Numbered /\ Len(queue) \in Nat /\ task \in Nat /\ pushed \in Nat
    BY <1>1, ThreadsAssumption DEF IInv, Typed
  <2>1. \A i \in 1..Len(queue) : queue[i] \in (task + 1)..pushed
    BY <2>0 DEF Numbered
  <2>2. queue \in Seq((task + 1)..pushed)
    BY <2>0, <2>1, MemberOfSeq DEF Typed
  <2>3. task \in 0..pushed
    BY <2>0 DEF Numbered
  <2> QED BY <2>0, <2>2, <2>3 DEF TypeOK, Typed
<1> QED BY <1>1, Invariance, PTL

(* RemovedStaysSilent: the loop of processQueue over the destinations never *)
(* reaches one that removeDestination has returned from.                    *)
THEOREM NoCallAfterRemove == Spec => []RemovedStaysSilent
<1>1. IInv => RemovedStaysSilent
  BY DEF IInv
<1> QED BY <1>1, Invariance, PTL

(* NoLostWakeup: processQueue sleeps only after it has found the queue      *)
(* empty under the mutex, and every push that follows has its notify_one    *)
(* still to come.                                                           *)
THEOREM NoWakeupIsLost == Spec => []NoLostWakeup
<1>1. Init => NoLostWakeup
  BY DEF Init, NoLostWakeup
<1>2. ASSUME IInv, NoLostWakeup, [Next]_vars PROVE NoLostWakeup'
  <2>0. Typed /\ calls \in [Threads -> {"idle", "push", "notify"}]
    BY <1>2 DEF IInv, Typed
  <2>1. ASSUME NEW t \in Threads, Lock(t) PROVE NoLostWakeup'
    BY <1>2, <2>0, <2>1 DEF Lock, NoLostWakeup, Running
  <2>2. ASSUME NEW t \in Threads, Push(t) PROVE NoLostWakeup'
    <3>1. calls'[t] = "notify"
      BY <2>0, <2>2 DEF Push
    <3> QED BY <3>1 DEF NoLostWakeup
  <2>3. ASSUME NEW t \in Threads, Notify(t) PROVE NoLostWakeup'
    <3>1. worker' # "waiting"
      BY <2>3 DEF Notify
    <3> QED BY <3>1 DEF NoLostWakeup
  <2>4. CASE Wait
    BY <2>4 DEF Wait, NoLostWakeup
  <2>5. CASE UNCHANGED <<queue, calls, worker, process>>
    BY <1>2, <2>5 DEF NoLostWakeup, Running
  <2>6. CASE worker' # "waiting" \/ ~Running'
    BY <2>6 DEF NoLostWakeup
  <2> QED
    BY <1>2, <2>1, <2>2, <2>3, <2>4, <2>5, <2>6
    DEF Next, Work, AddDestination, RemoveDestination, Play, LockQueue, Take, LockDestinations,
        Tell, EndOfBroadcast, SpuriousWakeup, Refuse, Exit, Destroy, Over, Running, vars
<1> QED BY <1>1, <1>2, Invariance, PTL DEF Spec

(* InOrder: processQueue tells a registered destination of every message,   *)
(* once and in the order of the calls to log.                               *)
THEOREM MessagesInOrder == Spec => InOrder
<1> DEFINE Ordered == \A d \in dests \cap dests' :
                        last'[d] # last[d] => last'[d] = last[d] + 1
<1>1. ASSUME IInv, Next PROVE Ordered
  <2>0. Typed /\ Numbered /\ Guarded /\ RemovedStaysSilent /\ UpToDate
    BY <1>1 DEF IInv
  <2>1. ASSUME NEW d \in Destinations, Tell(d) PROVE Ordered
    <3>1. Running /\ d \in todo /\ d \in dests /\ last' = [last EXCEPT ![d] = task]
      BY <2>0, <2>1 DEF Tell, RemovedStaysSilent
    <3>2. last[d] = task - 1 /\ task \in Nat
      BY <2>0, <3>1 DEF UpToDate, Typed
    <3> QED BY <2>0, <3>1, <3>2 DEF Typed
  <2>2. ASSUME NEW d \in Destinations, AddDestination(d) PROVE Ordered
    BY <2>0, <2>2 DEF AddDestination, Typed
  <2>3. CASE UNCHANGED last
    BY <2>3
  <2> HIDE DEF Ordered
  <2> QED BY <1>1, <2>1, <2>2, <2>3
          DEF Next, Work, Lock, Push, Notify, RemoveDestination, Play, LockQueue, Wait, Take,
              LockDestinations, EndOfBroadcast, SpuriousWakeup, Refuse, Exit, Destroy, Over, vars
<1>2. IInv /\ [Next]_vars => [Ordered]_vars
  BY <1>1
<1> QED BY <1>2, Invariance, PTL DEF Spec, InOrder
=============================================================================
