------------------------------- MODULE Logger -------------------------------
(***************************************************************************)
(* The logger of src/nvse/Logging.cpp: any thread queues messages, one     *)
(* worker takes them from the queue and tells every destination.  The      *)
(* queue and the destinations have a mutex each; the worker sleeps on a    *)
(* condition variable.                                                     *)
(*                                                                         *)
(* A message is its number in the order of the calls to push.  What the    *)
(* destinations do with a message is left out, and so is Copy, which only  *)
(* logs and copies files.  Nothing assigns stop after the constructor, so  *)
(* that the worker's loop never ends.  The destructor, which waits for the *)
(* worker, runs when the host frees the library of a plugin that refused   *)
(* to load, or when the process exits and has killed every other thread.   *)
(***************************************************************************)
EXTENDS Naturals, Sequences

CONSTANTS
  Threads,       \* the threads that log
  Destinations,  \* the names destinations are registered under
  Worker,        \* the thread that processQueue runs on
  Nobody,        \* the owner of a mutex that is free
  MaxLogged      \* bound on the messages logged

ASSUME ThreadsAssumption ==
  /\ Worker \notin Threads /\ Nobody \notin Threads /\ Nobody # Worker
  /\ MaxLogged \in Nat

VARIABLES
  queue,         \* logQueue
  pushed,        \* messages pushed so far
  mutex,         \* the owner of mutex, which guards the queue
  calls,         \* what each thread is doing in log()
  worker,        \* where the worker is
  task,          \* the message it took last
  dests,         \* the registered destinations
  destMutex,     \* the owner of destMutex
  todo,          \* destinations the worker has yet to tell of its message
  last,          \* the last message each destination was told of
  process        \* the process, as far as the logger is concerned

vars == <<queue, pushed, mutex, calls, worker, task, dests, destMutex, todo, last, process>>

Running == process = "running"

(* Messages the worker has taken, and those it began to tell of.            *)
Taken == pushed - Len(queue)
Begun == IF worker = "taken" THEN Taken - 1 ELSE Taken

TypeOK ==
  /\ queue \in Seq((task + 1)..pushed)
  /\ pushed \in 0..MaxLogged
  /\ mutex \in Threads \cup {Worker, Nobody}
  /\ calls \in [Threads -> {"idle", "push", "notify"}]
  /\ worker \in {"unstarted", "test", "check", "waiting", "taken", "broadcast", "killed"}
  /\ dests \subseteq Destinations
  /\ destMutex \in {Worker, Nobody}
  /\ todo \subseteq Destinations
  /\ last \in [Destinations -> Nat]
  /\ task \in 0..pushed
  /\ process \in {"running", "refused", "unloaded", "exiting", "ended", "aborted"}

-----------------------------------------------------------------------------
(* log(), on the thread of the caller                                       *)

Lock(t) ==
  /\ Running /\ calls[t] = "idle" /\ mutex = Nobody /\ pushed < MaxLogged
  /\ mutex' = t
  /\ calls' = [calls EXCEPT ![t] = "push"]
  /\ UNCHANGED <<queue, pushed, worker, task, dests, destMutex, todo, last, process>>

Push(t) ==
  /\ Running /\ calls[t] = "push"
  /\ pushed' = pushed + 1
  /\ queue' = Append(queue, pushed')
  /\ mutex' = Nobody
  /\ calls' = [calls EXCEPT ![t] = "notify"]
  /\ UNCHANGED <<worker, task, dests, destMutex, todo, last, process>>

(* notify_one, after the mutex is free again: it wakes a worker that waits  *)
(* and is forgotten otherwise.                                              *)
Notify(t) ==
  /\ Running /\ calls[t] = "notify"
  /\ worker' = IF worker = "waiting" THEN "test" ELSE worker
  /\ calls' = [calls EXCEPT ![t] = "idle"]
  /\ UNCHANGED <<queue, pushed, mutex, task, dests, destMutex, todo, last, process>>

-----------------------------------------------------------------------------
(* Destinations, registered by any thread                                   *)

(* A destination starts with the next message the worker tells of.          *)
AddDestination(d) ==
  /\ Running /\ destMutex = Nobody
  /\ dests' = dests \cup {d}
  /\ last' = IF d \in dests THEN last ELSE [last EXCEPT ![d] = Begun]
  /\ UNCHANGED <<queue, pushed, mutex, calls, worker, task, destMutex, todo, process>>

(* Mutant: without the mutex.                                               *)
RemoveDestinationUnlocked(d) ==
  /\ Running /\ d \in dests
  /\ dests' = dests \ {d}
  /\ UNCHANGED <<queue, pushed, mutex, calls, worker, task, destMutex, todo, last, process>>

RemoveDestination(d) ==
  /\ Running /\ destMutex = Nobody /\ d \in dests
  /\ dests' = dests \ {d}
  /\ UNCHANGED <<queue, pushed, mutex, calls, worker, task, destMutex, todo, last, process>>

-----------------------------------------------------------------------------
(* processQueue, on the worker                                              *)

Play ==
  /\ Running /\ worker = "unstarted"
  /\ worker' = "test"
  /\ UNCHANGED <<queue, pushed, mutex, calls, task, dests, destMutex, todo, last, process>>

LockQueue ==
  /\ Running /\ worker = "test" /\ mutex = Nobody
  /\ mutex' = Worker
  /\ worker' = "check"
  /\ UNCHANGED <<queue, pushed, calls, task, dests, destMutex, todo, last, process>>

(* Mutant: sleeps before it looks at the queue.                             *)
WaitUnchecked ==
  /\ Running /\ worker = "check"
  /\ mutex' = Nobody
  /\ worker' = "waiting"
  /\ UNCHANGED <<queue, pushed, calls, task, dests, destMutex, todo, last, process>>

(* condition.wait finds nothing to do, frees the mutex and sleeps.          *)
Wait ==
  /\ Running /\ worker = "check" /\ queue = <<>>
  /\ mutex' = Nobody
  /\ worker' = "waiting"
  /\ UNCHANGED <<queue, pushed, calls, task, dests, destMutex, todo, last, process>>

(* A wait may also end for no reason; the predicate is looked at again.     *)
SpuriousWakeup ==
  /\ Running /\ worker = "waiting"
  /\ worker' = "test"
  /\ UNCHANGED <<queue, pushed, mutex, calls, task, dests, destMutex, todo, last, process>>

(* Mutant: front without pop.                                               *)
TakeTwice ==
  /\ Running /\ worker = "check" /\ queue # <<>>
  /\ task' = Head(queue)
  /\ mutex' = Nobody
  /\ worker' = "taken"
  /\ UNCHANGED <<queue, pushed, calls, dests, destMutex, todo, last, process>>

(* The oldest message leaves the queue, and the mutex is free again.        *)
Take ==
  /\ Running /\ worker = "check" /\ queue # <<>>
  /\ task' = Head(queue)
  /\ queue' = Tail(queue)
  /\ mutex' = Nobody
  /\ worker' = "taken"
  /\ UNCHANGED <<pushed, calls, dests, destMutex, todo, last, process>>

LockDestinations ==
  /\ Running /\ worker = "taken" /\ destMutex = Nobody
  /\ destMutex' = Worker
  /\ todo' = dests
  /\ worker' = "broadcast"
  /\ UNCHANGED <<queue, pushed, mutex, calls, task, dests, last, process>>

(* The loop over the map: one destination is told of the message.           *)
Tell(d) ==
  /\ Running /\ worker = "broadcast" /\ d \in todo
  /\ last' = [last EXCEPT ![d] = task]
  /\ todo' = todo \ {d}
  /\ UNCHANGED <<queue, pushed, mutex, calls, worker, task, dests, destMutex, process>>

(* Mutant: a destination that fails ends the broadcast.                     *)
EndEarly ==
  /\ Running /\ worker = "broadcast"
  /\ destMutex' = Nobody
  /\ todo' = {}
  /\ worker' = "test"
  /\ UNCHANGED <<queue, pushed, mutex, calls, task, dests, last, process>>

EndOfBroadcast ==
  /\ Running /\ worker = "broadcast" /\ todo = {}
  /\ destMutex' = Nobody
  /\ worker' = "test"
  /\ UNCHANGED <<queue, pushed, mutex, calls, task, dests, todo, last, process>>

Work ==
  \/ LockQueue \/ Wait \/ Take \/ LockDestinations \/ EndOfBroadcast
  \/ \E d \in Destinations : Tell(d)

-----------------------------------------------------------------------------
(* The end of the process, and of the library                               *)

(* NVSEPlugin_Query logs why and returns false; the host frees the library. *)
(* Nothing has started the worker then.                                     *)
Refuse ==
  /\ Running /\ worker = "unstarted" /\ pushed > 0
  /\ \A t \in Threads : calls[t] = "idle"
  /\ process' = "refused"
  /\ UNCHANGED <<queue, pushed, mutex, calls, worker, task, dests, destMutex, todo, last>>

(* ExitProcess ends every thread but the caller's, wherever it is.          *)
Exit ==
  /\ Running
  /\ process' = "exiting"
  /\ worker' = IF worker = "unstarted" THEN worker ELSE "killed"
  /\ UNCHANGED <<queue, pushed, mutex, calls, task, dests, destMutex, todo, last>>

(* The destructor joins the worker.  join throws when there is no thread,   *)
(* and an exception cannot leave a destructor: std::terminate.  Without a   *)
(* single call of the logger there is no object to destroy.                 *)
Destroy ==
  /\ process \in {"refused", "exiting"}
  /\ process' = IF worker = "unstarted" /\ pushed > 0 THEN "aborted"
                ELSE IF process = "refused" THEN "unloaded" ELSE "ended"
  /\ UNCHANGED <<queue, pushed, mutex, calls, worker, task, dests, destMutex, todo, last>>

Over ==
  /\ process \in {"unloaded", "ended", "aborted"}
  /\ UNCHANGED vars

-----------------------------------------------------------------------------

Init ==
  /\ queue = <<>> /\ pushed = 0
  /\ mutex = Nobody /\ destMutex = Nobody
  /\ calls = [t \in Threads |-> "idle"]
  /\ worker = "unstarted" /\ task = 0
  /\ dests = {} /\ todo = {}
  /\ last = [d \in Destinations |-> 0]
  /\ process = "running"

Next ==
  \/ \E t \in Threads : Lock(t) \/ Push(t) \/ Notify(t)
  \/ \E d \in Destinations : AddDestination(d) \/ RemoveDestination(d)
  \/ Play \/ Work \/ SpuriousWakeup
  \/ Refuse \/ Exit \/ Destroy \/ Over

Spec == Init /\ [][Next]_vars

(* A thread that holds a mutex goes on, and so does the worker.  Callers of *)
(* log cannot keep the mutex from the worker for ever: they are bounded.    *)
FairSpec ==
  /\ Spec /\ WF_vars(Work) /\ WF_vars(Destroy)
  /\ \A t \in Threads : WF_vars(Push(t)) /\ WF_vars(Notify(t))

-----------------------------------------------------------------------------
(* Properties                                                               *)

(* A destination, as long as it is registered, is told of the messages in   *)
(* the order of the calls to log, with none left out and none repeated.     *)
InOrder ==
  [][\A d \in dests \cap dests' :
       last'[d] # last[d] => last'[d] = last[d] + 1]_vars

(* The worker calls no destination that removeDestination has taken out,    *)
(* whose captures may be gone by then.                                      *)
RemovedStaysSilent == todo \subseteq dests

(* No wake-up is lost: the worker never sleeps over a queue that holds      *)
(* messages, unless a thread that logged is still about to notify it.  The  *)
(* notification is sent after the mutex is free, so that the worker may     *)
(* look at the queue, take the message and sleep again before it comes.     *)
NoLostWakeup ==
  Running /\ worker = "waiting" /\ queue # <<>> =>
    \E t \in Threads : calls[t] = "notify"

(* A message that is logged is told to the destinations, once the worker    *)
(* has been started and unless the process ends.                            *)
EveryMessageIsTold ==
  \A n \in 1..MaxLogged :
    worker # "unstarted" /\ pushed >= n
      ~> (task >= n /\ worker # "taken" /\ todo = {}) \/ ~Running

(* A plugin that refuses to load is unloaded and leaves the game running.   *)
RefusalIsHarmless == [][process = "refused" => process' = "unloaded"]_vars
=============================================================================
