--------------------------- MODULE ServerThreads ---------------------------
(***************************************************************************)
(* The threads of one server and the two queues they share: the Executor   *)
(* that runs the HTTP requests (executor.cpp, Api::dispatch_response) and  *)
(* the ConnectionPool from which every transaction borrows its connection  *)
(* (pool.cpp).  A step is what a thread does in one critical section, or   *)
(* between two of them; notifications are sent after the lock is released, *)
(* as in the code, so that anything may happen in between.  gRPC threads   *)
(* only compete for connections.  The database may break any connection    *)
(* while it is used, and refuse new ones.                                  *)
(***************************************************************************)
EXTENDS Integers, Sequences, FiniteSets, FiniteSetsExt, SequencesExt

CONSTANTS
  Requests,       \* the HTTP requests of the instance
  ExecutorSize,   \* capacity of tasks_
  Workers,        \* threads of the Executor
  RpcThreads,     \* gRPC handlers, which use connections as well
  PoolSize,       \* capacity_ of the pool
  Outcomes        \* what work() may come to: members of Outcome

ASSUME ThreadsAssumption ==
  /\ ExecutorSize \in Nat \ {0}
  /\ PoolSize \in Nat \ {0}
  /\ IsFiniteSet(Workers) /\ IsFiniteSet(RpcThreads)
  /\ Workers # {} /\ Workers \cap RpcThreads = {}
  /\ "none" \notin Requests

Threads == Workers \cup RpcThreads

(* How the exceptions of a request become HTTP statuses: error_status for  *)
(* Error, 400 for a JSON exception, 503 for any other.                     *)
ErrorStatus ==
  [ok |-> 200, invalid |-> 400, json |-> 400, unauthorized |-> 401,
   not_found |-> 404, conflict |-> 409, stale |-> 409, exhausted |-> 429,
   unavailable |-> 503, other |-> 503]

VARIABLES
  tasks,     \* tasks_: the accepted requests nobody has taken yet
  stopping,  \* stopping_
  dispatched,\* request -> how far Api::dispatch_response got with it
  answers,   \* request -> the statuses its callback was given
  server,    \* its main thread: serving, then shutdown()
  at,        \* thread -> what it does next
  task,      \* worker -> the request it took
  outcome,   \* worker -> what work() came to
  conns,     \* connections_: "open", "closed" or "null"
  lease      \* thread -> the connection it took out of the pool, or "none"

threadVars == <<tasks, stopping, dispatched, answers, server, at, task, outcome,
                conns, lease>>

NoRequest == "none"

ThreadsInit ==
  /\ tasks = <<>>
  /\ stopping = FALSE
  /\ dispatched = [r \in Requests |-> "new"]
  /\ answers = [r \in Requests |-> <<>>]
  /\ server = "serving"
  /\ at = [t \in Threads |-> IF t \in Workers THEN "look" ELSE "idle"]
  /\ task = [w \in Workers |-> NoRequest]
  /\ outcome = [w \in Workers |-> "ok"]
  /\ conns = [i \in 1..PoolSize |-> "open"]
  /\ lease = [t \in Threads |-> "none"]

poolVars == <<conns, lease>>
queueVars == <<tasks, stopping, dispatched>>

Callback(r, status) == answers' = [answers EXCEPT ![r] = Append(@, status)]

-----------------------------------------------------------------------------
(* Api::dispatch_response and Executor::submit, on a thread of drogon.     *)

(* Wrong token, or a coordinator that is not ready. *)
Refuse(r) ==
  /\ dispatched[r] = "new"
  /\ dispatched' = [dispatched EXCEPT ![r] = "refused"]
  /\ \E status \in {401, 503} : Callback(r, status)
  /\ UNCHANGED <<tasks, stopping, server, at, task, outcome, poolVars>>

Accepts == ~stopping /\ Len(tasks) < ExecutorSize

Submit(r) ==
  /\ dispatched[r] = "new"
  /\ IF Accepts
       THEN /\ tasks' = Append(tasks, r)
            /\ dispatched' = [dispatched EXCEPT ![r] = "notify"]
            /\ UNCHANGED answers
       ELSE /\ dispatched' = [dispatched EXCEPT ![r] = "refused"]
            /\ Callback(r, 503)
            /\ UNCHANGED tasks
  /\ UNCHANGED <<stopping, server, at, task, outcome, poolVars>>

(* notify_one(): one thread asleep in ready_.wait, if there is any. *)
NotifyReady(r) ==
  /\ dispatched[r] = "notify"
  /\ dispatched' = [dispatched EXCEPT ![r] = "accepted"]
  /\ LET asleep == {w \in Workers : at[w] = "asleep"}
     IN IF asleep = {} THEN UNCHANGED at
        ELSE \E w \in asleep : at' = [at EXCEPT ![w] = "look"]
  /\ UNCHANGED <<tasks, stopping, answers, server, task, outcome, poolVars>>

-----------------------------------------------------------------------------
(* The Executor's threads.                                                 *)

\* Mutant: a worker looks at stopping_ before the queue.
LookStoppingFirst(w) ==
  /\ at[w] = "look"
  /\ \/ /\ stopping
        /\ at' = [at EXCEPT ![w] = "ended"]
        /\ UNCHANGED <<tasks, task>>
     \/ /\ ~stopping /\ tasks # <<>>
        /\ tasks' = Tail(tasks)
        /\ task' = [task EXCEPT ![w] = Head(tasks)]
        /\ at' = [at EXCEPT ![w] = "acquire"]
     \/ /\ ~stopping /\ tasks = <<>>
        /\ at' = [at EXCEPT ![w] = "asleep"]
        /\ UNCHANGED <<tasks, task>>
  /\ UNCHANGED <<stopping, dispatched, answers, server, outcome, poolVars>>

(* Under the lock: take a task, end if there is none and the executor is   *)
(* stopping, or go to sleep.                                               *)
Look(w) ==
  /\ at[w] = "look"
  /\ \/ /\ tasks # <<>>
        /\ tasks' = Tail(tasks)
        /\ task' = [task EXCEPT ![w] = Head(tasks)]
        /\ at' = [at EXCEPT ![w] = "acquire"]
     \/ /\ tasks = <<>>
        /\ at' = [at EXCEPT ![w] = IF stopping THEN "ended" ELSE "asleep"]
        /\ UNCHANGED <<tasks, task>>
  /\ UNCHANGED <<stopping, dispatched, answers, server, outcome, poolVars>>

(* The try block of dispatch_response is over: the callback is called with *)
(* the response, or with what the exception translates to.  That building  *)
(* this answer throws itself (a message that is not UTF-8), which would    *)
(* end the process, is left out.                                           *)
AnswerRequest(w) ==
  /\ at[w] = "answer"
  /\ Callback(task[w], ErrorStatus[outcome[w]])
  /\ at' = [at EXCEPT ![w] = "look"]
  /\ task' = [task EXCEPT ![w] = NoRequest]
  /\ outcome' = [outcome EXCEPT ![w] = "ok"]
  /\ UNCHANGED <<queueVars, server, poolVars>>

-----------------------------------------------------------------------------
(* ConnectionPool::acquire and the destructor of Lease.                    *)

(* A gRPC handler starts a call of the store. *)
BeginCall(t) ==
  /\ t \in RpcThreads /\ at[t] = "idle"
  /\ at' = [at EXCEPT ![t] = "acquire"]
  /\ UNCHANGED <<queueVars, answers, server, task, outcome, poolVars>>

Result(t, o) ==
  outcome' = IF t \in Workers THEN [outcome EXCEPT ![t] = o] ELSE outcome

(* A thread that is done with the pool goes on with its request or RPC. *)
Done(t) == IF t \in Workers THEN "answer" ELSE "idle"

(* connections_.back() is taken out of the pool. *)
TakeConnection(t) ==
  /\ conns # <<>>
  /\ lease' = [lease EXCEPT ![t] = Last(conns)]
  /\ conns' = Front(conns)
  /\ at' = [at EXCEPT ![t] = "connect"]

Acquire(t) ==
  /\ at[t] = "acquire"
  /\ \/ TakeConnection(t)
     \/ /\ conns = <<>>
        /\ at' = [at EXCEPT ![t] = "waiting"]
        /\ UNCHANGED poolVars
  /\ UNCHANGED <<queueVars, answers, server, task, outcome>>

(* Five seconds have passed; the predicate is looked at once more. *)
PoolTimeout(t) ==
  /\ at[t] = "waiting"
  /\ \/ TakeConnection(t) /\ UNCHANGED outcome
     \/ /\ conns = <<>>
        /\ at' = [at EXCEPT ![t] = Done(t)]
        /\ Result(t, "unavailable")
        /\ UNCHANGED poolVars
  /\ UNCHANGED <<queueVars, answers, server, task>>

\* Mutant: a slot given back on an error is not announced.
ReconnectFailsQuietly(t) ==
  /\ at[t] = "connect" /\ lease[t] # "open"
  /\ conns' = Append(conns, "null")
  /\ lease' = [lease EXCEPT ![t] = "none"]
  /\ Result(t, "other")
  /\ at' = [at EXCEPT ![t] = Done(t)]
  /\ UNCHANGED <<queueVars, answers, server, task>>

(* A connection that is missing or known to be closed is replaced first;   *)
(* if that fails its place goes back to the pool, empty.                   *)
Connect(t) ==
  /\ at[t] = "connect"
  /\ lease' = [lease EXCEPT ![t] = "open"]
  /\ at' = [at EXCEPT ![t] = "work"]
  /\ UNCHANGED <<queueVars, answers, server, task, outcome, conns>>

ReconnectFails(t) ==
  /\ at[t] = "connect" /\ lease[t] # "open"
  /\ conns' = Append(conns, "null")
  /\ lease' = [lease EXCEPT ![t] = "none"]
  /\ Result(t, "other")
  /\ at' = [at EXCEPT ![t] = "notify"]
  /\ UNCHANGED <<queueVars, answers, server, task>>

(* The transaction, and whatever else work() does.  If the connection      *)
(* breaks libpqxx throws and the connection is closed from now on.         *)
Work(t) ==
  /\ at[t] = "work"
  /\ \/ \E o \in Outcomes : Result(t, o) /\ UNCHANGED lease
     \/ Result(t, "other") /\ lease' = [lease EXCEPT ![t] = "closed"]
  /\ at' = [at EXCEPT ![t] = "release"]
  /\ UNCHANGED <<queueVars, answers, server, task, conns>>

Release(t) ==
  /\ at[t] = "release"
  /\ conns' = Append(conns, lease[t])
  /\ lease' = [lease EXCEPT ![t] = "none"]
  /\ at' = [at EXCEPT ![t] = "notify"]
  /\ UNCHANGED <<queueVars, answers, server, task, outcome>>

(* available_.notify_one() *)
NotifyAvailable(t) ==
  /\ at[t] = "notify"
  /\ LET waiting == {u \in Threads : at[u] = "waiting"}
         next == [at EXCEPT ![t] = Done(t)]
     IN IF waiting = {} THEN at' = next
        ELSE \E u \in waiting : at' = [next EXCEPT ![u] = "acquire"]
  /\ UNCHANGED <<queueVars, answers, server, task, outcome, poolVars>>

-----------------------------------------------------------------------------
(* http.run() returns and main() calls executor.shutdown().                *)

StopExecutor ==
  /\ server = "serving"
  /\ server' = "notify"
  /\ stopping' = TRUE
  /\ UNCHANGED <<tasks, dispatched, answers, at, task, outcome, poolVars>>

\* Mutant: one worker is woken instead of all.
NotifyOneStopped ==
  /\ server = "notify"
  /\ server' = "join"
  /\ LET asleep == {w \in Workers : at[w] = "asleep"}
     IN IF asleep = {} THEN UNCHANGED at
        ELSE \E w \in asleep : at' = [at EXCEPT ![w] = "look"]
  /\ UNCHANGED <<queueVars, answers, task, outcome, poolVars>>

(* ready_.notify_all() *)
NotifyStopped ==
  /\ server = "notify"
  /\ server' = "join"
  /\ at' = [t \in Threads |-> IF at[t] = "asleep" THEN "look" ELSE at[t]]
  /\ UNCHANGED <<queueVars, answers, task, outcome, poolVars>>

Join ==
  /\ server = "join"
  /\ \A w \in Workers : at[w] = "ended"
  /\ server' = "ended"
  /\ UNCHANGED <<queueVars, answers, at, task, outcome, poolVars>>

-----------------------------------------------------------------------------
PoolStep(t) ==
  \/ Acquire(t) \/ Connect(t) \/ ReconnectFails(t) \/ Work(t) \/ Release(t)
  \/ NotifyAvailable(t)

ThreadsNext ==
  \/ \E r \in Requests : Refuse(r) \/ Submit(r) \/ NotifyReady(r)
  \/ \E w \in Workers : Look(w) \/ AnswerRequest(w)
  \/ \E t \in Threads : BeginCall(t) \/ PoolStep(t) \/ PoolTimeout(t)
  \/ StopExecutor \/ NotifyStopped \/ Join

ThreadsSpec == ThreadsInit /\ [][ThreadsNext]_threadVars

-----------------------------------------------------------------------------
(* Every place of the pool is in the pool or in the hands of one thread,   *)
(* also after connections broke and could not be replaced (acquire(),      *)
(* pool.cpp:30): errors never shrink the pool for good.                    *)
SlotsConserved ==
  Len(conns) + Cardinality({t \in Threads : lease[t] # "none"}) = PoolSize

(* No thread sleeps in acquire() while a connection lies in the pool       *)
(* unless somebody is about to take or to announce one: no wake-up is lost *)
(* although notify_one() is called without the lock (pool.cpp:24, 47).     *)
FreeConnectionAnnounced ==
  (\E t \in Threads : at[t] = "waiting") =>
    Len(conns) <= Cardinality({t \in Threads : at[t] \in {"acquire", "notify"}})

(* A callback is called at most once, with shutdown() too: when it returns *)
(* (executor.cpp:31) every request that was accepted has been answered.    *)
AnsweredOnce ==
  \A r \in Requests :
    /\ Len(answers[r]) <= 1
    /\ server = "ended" /\ dispatched[r] # "new" => Len(answers[r]) = 1

(* An accepted request is answered, however busy or broken the database    *)
(* is: nobody waits for ever in the queue (executor.cpp:41) or the pool.   *)
AcceptedIsAnswered ==
  \A r \in Requests : dispatched[r] # "new" ~> answers[r] # <<>>

(* shutdown() returns: every thread that sleeps is woken and every thread  *)
(* that works gets to the end of the queue (executor.cpp:25-33).           *)
ShutdownReturns == stopping ~> server = "ended"

(* Pool and executor lose nothing: no connection, no wake-up, no request.  *)
QueuesWhole == SlotsConserved /\ FreeConnectionAnnounced /\ AnsweredOnce

=============================================================================
