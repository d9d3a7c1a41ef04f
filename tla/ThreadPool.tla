---------------------------- MODULE ThreadPool ----------------------------
(***************************************************************************)
(* The background senders of the game server (classes/SWThread.cpp,        *)
(* classes/SWTcpSender.cpp).  The game loop is the only thread that        *)
(* creates senders, puts them into the static threadPool, starts them and, *)
(* at the end of every pulse, sweeps the pool and deletes the finished     *)
(* ones.  Each started sender is a pthread that nobody joins: it opens a   *)
(* socket, connects, writes, closes, and then runs the cleanup handler     *)
(* `finish`, whose two stores are not protected by any lock.               *)
(*                                                                         *)
(* A sender is named by its address.  An address is used once, so that a   *)
(* late access to a deleted object can be told from an access to a new     *)
(* one.  (Init, Next and Spec carry the pool's name because those who      *)
(* make senders extend this module beside their own.)                      *)
(***************************************************************************)
EXTENDS Naturals, FiniteSets

CONSTANTS Senders,     \* addresses of SWTcpSender objects
          NoSender     \* the null pointer

ASSUME NoSenderAssumption == NoSender \notin Senders

VARIABLES
  heap,        \* is the object of this address unborn, live or deleted
  threadPool,  \* SWThread::threadPool
  running,     \* SWThread::running, one per object
  finished,    \* SWThread::finished, one per object
  worker,      \* where the pthread of the object is
  socket,      \* the socket of SWTcpSender::run
  loop,        \* where the game loop is
  current,     \* the sender SWTcpSender::send is working on
  todo         \* pool members updatePool has not visited yet

poolVars == <<heap, threadPool, running, finished, worker, socket, loop, current, todo>>

WorkerStates == {"none", "created", "connecting", "writing", "closing",
                 "cleanup", "cleared", "exited"}

PoolTypeOK ==
  /\ heap \in [Senders -> {"unborn", "live", "deleted"}]
  /\ threadPool \subseteq Senders
  /\ running \in [Senders -> BOOLEAN]
  /\ finished \in [Senders -> BOOLEAN]
  /\ worker \in [Senders -> WorkerStates]
  /\ socket \in [Senders -> {"none", "open", "closed"}]
  /\ loop \in {"input", "pooling", "starting", "creating", "sweeping"}
  /\ current \in Senders \cup {NoSender}
  /\ todo \subseteq Senders

PoolInit ==
  /\ heap = [s \in Senders |-> "unborn"]
  /\ threadPool = {}
  /\ running = [s \in Senders |-> FALSE]
  /\ finished = [s \in Senders |-> FALSE]
  /\ worker = [s \in Senders |-> "none"]
  /\ socket = [s \in Senders |-> "none"]
  /\ loop = "input"
  /\ current = NoSender
  /\ todo = {}

---------------------------------------------------------------------------
(* The game loop: SWPazaak::acceptChallenge makes a sender and sends it.   *)

NewSender(s) ==
  /\ loop = "input"
  /\ heap[s] = "unborn"
  /\ heap' = [heap EXCEPT ![s] = "live"]
  /\ current' = s
  /\ loop' = "pooling"
  /\ UNCHANGED <<threadPool, running, finished, worker, socket, todo>>

\* A changed AddToPool, for the mutation runs: pools only what already runs.
AddToPoolIfRunning ==
  /\ loop = "pooling"
  /\ threadPool' = IF running[current] THEN threadPool \cup {current} ELSE threadPool
  /\ loop' = "starting"
  /\ UNCHANGED <<heap, running, finished, worker, socket, current, todo>>

\* SWThread::addToPool
AddToPool ==
  /\ loop = "pooling"
  /\ threadPool' = IF finished[current] THEN threadPool ELSE threadPool \cup {current}
  /\ loop' = "starting"
  /\ UNCHANGED <<heap, running, finished, worker, socket, current, todo>>

\* SWThread::start up to pthread_create; the two exceptions are its guard
Start ==
  /\ loop = "starting"
  /\ ~finished[current]
  /\ ~running[current]
  /\ running' = [running EXCEPT ![current] = TRUE]
  /\ loop' = "creating"
  /\ UNCHANGED <<heap, threadPool, finished, worker, socket, current, todo>>

\* pthread_create: its result is ignored, so a refusal leaves no thread behind
Create(created) ==
  /\ loop = "creating"
  /\ worker' = IF created THEN [worker EXCEPT ![current] = "created"] ELSE worker
  /\ loop' = "input"
  /\ current' = NoSender
  /\ UNCHANGED <<heap, threadPool, running, finished, socket, todo>>

---------------------------------------------------------------------------
(* SWThread::updatePool, at the end of each pulse of game_loop.            *)

\* A changed BeginSweep: the sweep starts from the last sender, gone or not.
BeginSweepAtCurrent ==
  /\ loop = "input"
  /\ loop' = "sweeping"
  /\ todo' = threadPool \cup {current}
  /\ UNCHANGED <<heap, threadPool, running, finished, worker, socket, current>>

BeginSweep ==
  /\ loop = "input"
  /\ loop' = "sweeping"
  /\ todo' = threadPool
  /\ UNCHANGED <<heap, threadPool, running, finished, worker, socket, current>>

SweepVisit(s) ==
  /\ loop = "sweeping"
  /\ s \in todo
  /\ todo' = todo \ {s}
  /\ IF finished[s]
     THEN /\ threadPool' = threadPool \ {s}
          /\ heap' = [heap EXCEPT ![s] = "deleted"]
     ELSE UNCHANGED <<threadPool, heap>>
  /\ UNCHANGED <<running, finished, worker, socket, loop, current>>

EndSweep ==
  /\ loop = "sweeping"
  /\ todo = {}
  /\ loop' = "input"
  /\ UNCHANGED <<heap, threadPool, running, finished, worker, socket, current, todo>>

---------------------------------------------------------------------------
(* The pthread of sender s: threadFun, run and finish.                     *)

Socket(s) ==
  /\ worker[s] = "created"
  /\ \/ /\ socket' = [socket EXCEPT ![s] = "open"]
        /\ worker' = [worker EXCEPT ![s] = "connecting"]
     \/ /\ worker' = [worker EXCEPT ![s] = "cleanup"]
        /\ UNCHANGED socket
  /\ UNCHANGED <<heap, threadPool, running, finished, loop, current, todo>>

\* a refused connection takes the branch that never closes the socket
Connect(s) ==
  /\ worker[s] = "connecting"
  /\ \/ worker' = [worker EXCEPT ![s] = "writing"]
     \/ worker' = [worker EXCEPT ![s] = "cleanup"]
  /\ UNCHANGED <<heap, threadPool, running, finished, socket, loop, current, todo>>

\* the result of write makes no difference to what follows
Write(s) ==
  /\ worker[s] = "writing"
  /\ worker' = [worker EXCEPT ![s] = "closing"]
  /\ UNCHANGED <<heap, threadPool, running, finished, socket, loop, current, todo>>

Close(s) ==
  /\ worker[s] = "closing"
  /\ socket' = [socket EXCEPT ![s] = "closed"]
  /\ worker' = [worker EXCEPT ![s] = "cleanup"]
  /\ UNCHANGED <<heap, threadPool, running, finished, loop, current, todo>>

\* A changed ClearRunning: finished is published before the last access.
FinishedFirst(s) ==
  /\ worker[s] = "cleanup"
  /\ running' = [running EXCEPT ![s] = FALSE]
  /\ finished' = [finished EXCEPT ![s] = TRUE]
  /\ worker' = [worker EXCEPT ![s] = "cleared"]
  /\ UNCHANGED <<heap, threadPool, socket, loop, current, todo>>

\* SWThread::finish, first store
ClearRunning(s) ==
  /\ worker[s] = "cleanup"
  /\ running' = [running EXCEPT ![s] = FALSE]
  /\ worker' = [worker EXCEPT ![s] = "cleared"]
  /\ UNCHANGED <<heap, threadPool, finished, socket, loop, current, todo>>

\* A changed SetFinished: the thread ends without setting the flag.
ExitUnfinished(s) ==
  /\ worker[s] = "cleared"
  /\ worker' = [worker EXCEPT ![s] = "exited"]
  /\ UNCHANGED <<heap, threadPool, running, finished, socket, loop, current, todo>>

\* SWThread::finish, second store: the last access the thread makes
SetFinished(s) ==
  /\ worker[s] = "cleared"
  /\ finished' = [finished EXCEPT ![s] = TRUE]
  /\ worker' = [worker EXCEPT ![s] = "exited"]
  /\ UNCHANGED <<heap, threadPool, running, socket, loop, current, todo>>

---------------------------------------------------------------------------
Work(s) == Socket(s) \/ Connect(s) \/ Write(s) \/ Close(s) \/ ClearRunning(s) \/ SetFinished(s)

Sweep == BeginSweep \/ EndSweep \/ \E s \in Senders : SweepVisit(s)

Send == AddToPool \/ Start \/ \E created \in BOOLEAN : Create(created)

PoolNext ==
  \/ \E s \in Senders : NewSender(s)
  \/ Send
  \/ Sweep
  \/ \E s \in Senders : Work(s)

\* The game loop never blocks and sweeps in every pulse; the kernel schedules
\* every started thread, whose socket calls all return (no property needs a
\* connection to succeed).  Nothing forces a new sender to be made.
Fairness ==
  /\ WF_poolVars(Send)
  /\ WF_poolVars(Sweep)
  /\ \A s \in Senders : WF_poolVars(Work(s))

PoolSpec == PoolInit /\ [][PoolNext]_poolVars

FairSpec == PoolSpec /\ Fairness

---------------------------------------------------------------------------
\* The pthread of s may still read or write the object of s.
Active(s) == worker[s] \notin {"none", "exited"}

\* updatePool never deletes a sender whose pthread can still touch it, although
\* nothing but the order of the two stores in finish protects it.
NoAccessAfterDelete == \A s \in Senders : Active(s) => heap[s] = "live"

\* Every pointer the pool holds, and every pointer the sweep has still to visit,
\* is to a live object (erase happens before delete).
PoolHoldsLiveObjects == \A s \in threadPool \cup todo : heap[s] = "live"

\* Safety: a sender that was deleted is used no more, neither by its own pthread
\* nor by the game loop that sweeps the pool (SWThread::updatePool, finish).
NoUseAfterDelete == NoAccessAfterDelete /\ PoolHoldsLiveObjects

\* Safety: an object the game loop has let go of is in the pool until it is
\* deleted, so no sender is forgotten; start never throws for a fresh sender.
NoSenderForgotten ==
  /\ \A s \in Senders : heap[s] = "live" /\ s # current => s \in threadPool
  /\ loop = "starting" => ~running[current] /\ ~finished[current]

\* Liveness: the object of every thread that was created is eventually deleted
\* ("usuwa z niej obiekty watkow, ktore sie zakonczyly", SWThread.h).
EveryThreadReaped ==
  \A s \in Senders : worker[s] # "none" ~> heap[s] = "deleted"
===========================================================================
