--------------------------- MODULE SessionsProofs ---------------------------
(* Theorems about Sessions for any number of sessions, requests and worker *)
(* threads, with their proofs.                                             *)
EXTENDS Sessions, TLAPS

(* What a queue is after a call has been put behind it or taken off it.    *)
LEMMA QueueLemma ==
  ASSUME NEW q \in Seq(Job), NEW j \in Job
  PROVE  /\ Append(q, j) \in Seq(Job)
         /\ Len(Append(q, j)) = Len(q) + 1
         /\ \A i \in 1..Len(q) : Append(q, j)[i] = q[i]
         /\ Append(q, j)[Len(q) + 1] = j
         /\ q # <<>> => /\ Head(q) \in Job /\ Head(q) = q[1]
                        /\ Tail(q) \in Seq(Job)
                        /\ Len(Tail(q)) = Len(q) - 1
                        /\ \A i \in 1..Len(Tail(q)) : Tail(q)[i] = q[i + 1]
  OBVIOUS

(* A variable group an action leaves alone keeps its type.                 *)
LEMMA Frames ==
  ASSUME TypeOK
  PROVE  /\ UNCHANGED storeVars => StoreType'
         /\ UNCHANGED dropVars  => DropType'
         /\ UNCHANGED poolVars  => PoolType'
         /\ UNCHANGED runVars   => RunType'
         /\ UNCHANGED worldVars => WorldType'
         /\ UNCHANGED taskVars  => TaskType'
         /\ UNCHANGED sweepVars => SweepType'
  BY DEF TypeOK, StoreType, DropType, PoolType, RunType, WorldType, TaskType, SweepType,
         storeVars, dropVars, poolVars, runVars, worldVars, taskVars, sweepVars

(* A call is well formed, whoever waits for it.                            *)
LEMMA CallType ==
  ASSUME NEW kind \in {"resolve", "kinit", "op", "cleanup"}, NEW t \in Task \cup {None}
  PROVE  Call(kind, t) \in Job
  BY DEF Call, Job

(* Submitting a well-formed call keeps the queues well formed.             *)
LEMMA SubmitType ==
  ASSUME RunType, NEW w \in Thread, NEW j \in Job, Submit(w, j), UNCHANGED phase
  PROVE  RunType'
  BY QueueLemma DEF RunType, Submit

---------------------------------------------------------------------------
(* The inductive invariant. Sole(s, w): w is the only thread made for s.   *)

At(w, i) == i \in 1..Len(queue[w])
Sole(s, w) == /\ w \in Thread /\ w \notin closed \cup shut /\ workers[s] = w
              /\ \A v \in Thread : owner[v] = s => v = w

(* A request past its lookup carries the id of a session that signed in,   *)
(* and the worker it holds was made for that id.                           *)
CookieInv ==
  \A r \in Req :
    /\ pc[r] \in {"expired", "touch", "found", "make", "have", "submit"} => cookie[r] # None
    /\ cookie[r] # None => pc[cookie[r]] = "in"
    /\ pc[r] = "make" => cookie[r] \notin sessions
    /\ pc[r] \in {"have", "submit"} => hand[r] # None /\ owner[hand[r]] = cookie[r]

(* A registered or closing worker was made for its session.                *)
OwnerInv ==
  /\ \A w \in Thread : queue[w] # <<>> \/ w \in closed \cup shut => owner[w] # None
  /\ \A s \in Sid : workers[s] # None => owner[workers[s]] = s
  /\ \A s \in Sid : drop[s] \in {"cleanup", "shutdown"} =>
                      victim[s] # None /\ owner[victim[s]] = s

(* A sign-in's calls are on threads of its own, and a ticket request stays *)
(* queued only while it is awaited or after the sign-in has failed.        *)
JobInv ==
  \A w \in Thread, i \in Nat : At(w, i) =>
    /\ queue[w][i].task \in Sid => owner[w] = queue[w][i].task
    /\ queue[w][i].kind = "kinit" => owner[w] # None /\ pc[owner[w]] \in {"kinit", "failed"}

(* Before its session is stored, a sign-in has at most the one call it     *)
(* waits for on its only thread; an answer from that call empties it.      *)
LoginOk(s) ==
  /\ pc[s] \in {"new", "resolve", "kinit"} => s \notin sessions /\ drop[s] = "no"
  /\ pc[s] = "new" => /\ workers[s] = None /\ answer[s] = "none"
                      /\ \A w \in Thread : owner[w] # s
  /\ pc[s] \in {"resolve", "kinit"} =>
       /\ Sole(s, workers[s])
       /\ \/ queue[workers[s]] = <<>>
          \/ /\ Len(queue[workers[s]]) = 1 /\ queue[workers[s]][1].kind = pc[s]
             /\ answer[s] \in {"none", "timeout"}
  /\ pc[s] = "kinit" /\ answer[s] = "ok" => ccache[s] = "ticket"
LoginInv == \A s \in Sid : LoginOk(s)

(* A stored session is past its ticket request, nobody is dropping it, and *)
(* its only thread is registered and open.                                 *)
StoredInv ==
  \A s \in sessions :
    /\ pc[s] \in {"connect", "in"} /\ drop[s] = "no"
    /\ ccache[s] = "ticket" /\ Sole(s, workers[s])

(* A session being dropped has left the store; who drops it is still at it.*)
DropInv ==
  \A s \in Sid : drop[s] # "no" =>
    /\ s \notin sessions /\ pc[s] \in {"connect", "in", "failed"}
    /\ drop[s] = "unregister" => workers[s] # None
    /\ dropper[s] # None => pc[dropper[s]] = "expired" /\ cookie[dropper[s]] = s

(* Once the lifespan has ended no handler is running and every session     *)
(* left is on close_all's list.                                            *)
ClosingInv == mode = "closing" => Handled /\ sessions \subseteq stale

(* A write is queued at most once, and not after it was applied.           *)
WriteOk(r) ==
  /\ applied[r] \in {0, 1}
  /\ pc[r] \notin {"wait", "done"} => applied[r] = 0
  /\ \A w \in Thread, i \in Nat : At(w, i) /\ queue[w][i].task = r =>
       /\ applied[r] = 0 /\ pc[r] \in {"wait", "done"}
       /\ \A v \in Thread, j \in Nat : At(v, j) /\ queue[v][j].task = r => v = w /\ i = j
WriteInv == \A r \in Writes : WriteOk(r)

IInv == /\ TypeOK
        /\ CookieInv /\ OwnerInv /\ JobInv /\ LoginInv /\ StoredInv
        /\ DropInv /\ ClosingInv /\ WriteInv

---------------------------------------------------------------------------
(* Type correctness, one lemma per kind of action.                         *)
LEMMA TypeInit == Init => TypeOK
  BY ConstantsAssumption DEF Init, TypeOK, StoreType, DropType, PoolType, RunType,
     WorldType, TaskType, SweepType, Task, SidStates, ReqStates, Job, LoginWaits, LoginEnds

(* A sign-in starts with a worker and a call, or with nothing.             *)
LEMMA TypeLoginStart ==
  ASSUME TypeOK, NEW s \in Sid, LoginStart(s)
  PROVE  TypeOK'
<1>1. StoreType' /\ DropType' /\ SweepType' /\ WorldType'
  BY Frames DEF LoginStart, worldVars
<1>2. TaskType'
  BY ConstantsAssumption DEF LoginStart, TypeOK, TaskType, Goto, Task, SidStates, LoginWaits, LoginEnds
<1>3. PoolType'
  BY DEF LoginStart, NewWorker, TypeOK, PoolType, poolVars
<1>4. RunType'
  BY CallType, SubmitType, ConstantsAssumption DEF LoginStart, TypeOK, RunType, Task
<1> QED BY <1>1, <1>2, <1>3, <1>4 DEF TypeOK

(* The three ways on from a resolved target.                               *)
LEMMA TypeResolved ==
  ASSUME TypeOK, NEW s \in Sid, Resolved(s), workers[s] # None
  PROVE  TypeOK'
<1>1. StoreType' /\ DropType' /\ SweepType' /\ WorldType'
  BY Frames DEF Resolved
<1>2. TaskType'
  BY ConstantsAssumption DEF Resolved, TypeOK, TaskType, Goto, Task, SidStates, LoginWaits, LoginEnds
<1>3. PoolType'
  BY DEF Resolved, CloseWorker, TypeOK, PoolType, poolVars
<1>4. RunType'
  BY CallType, SubmitType, ConstantsAssumption
  DEF Resolved, CloseWorker, TypeOK, PoolType, RunType, Task
<1> QED BY <1>1, <1>2, <1>3, <1>4 DEF TypeOK

(* A failed sign-in.                                                       *)
LEMMA TypeLoginFails ==
  ASSUME TypeOK, NEW s \in Sid, LoginFails(s), workers[s] # None
  PROVE  TypeOK'
<1>1. StoreType' /\ DropType' /\ SweepType'
  BY Frames DEF LoginFails
<1>2. TaskType'
  BY ConstantsAssumption DEF LoginFails, TypeOK, TaskType, Goto, Task, SidStates, LoginWaits, LoginEnds
<1>3. PoolType' /\ WorldType'
  BY DEF LoginFails, CloseWorker, TypeOK, PoolType, WorldType
<1>4. RunType'
  BY CallType, SubmitType DEF LoginFails, CloseWorker, TypeOK, PoolType, RunType
<1> QED BY <1>1, <1>2, <1>3, <1>4 DEF TypeOK

(* A sign-in with its ticket.                                              *)
LEMMA TypeTicketed ==
  ASSUME TypeOK, NEW s \in Sid, Ticketed(s), workers[s] # None
  PROVE  TypeOK'
<1>1. DropType' /\ PoolType' /\ WorldType' /\ SweepType'
  BY Frames DEF Ticketed
<1>2. TaskType'
  BY ConstantsAssumption DEF Ticketed, TypeOK, TaskType, Goto, Task, SidStates, LoginWaits, LoginEnds
<1>3. StoreType'
  BY DEF Ticketed, TypeOK, StoreType
<1>4. RunType'
  BY CallType, SubmitType DEF Ticketed, TypeOK, PoolType, RunType, Task
<1> QED BY <1>1, <1>2, <1>3, <1>4 DEF TypeOK

(* Taking a session out of the store.                                      *)
LEMMA PopType ==
  ASSUME StoreType, DropType, NEW s \in Sid, NEW who \in Req \cup {None}, Pop(s, who)
  PROVE  StoreType' /\ DropType'
  BY DEF StoreType, DropType, Pop, storeVars, dropVars

(* The end of a sign-in, and signing out.                                  *)
LEMMA TypeEndLogin ==
  ASSUME TypeOK, NEW s \in Sid, SignedIn(s) \/ ConnectFails(s) \/ Logout(s)
  PROVE  TypeOK'
<1>1. StoreType' /\ DropType'
  BY PopType DEF SignedIn, ConnectFails, Logout, TypeOK, StoreType, DropType, storeVars, dropVars
<1>2. TaskType'
  BY ConstantsAssumption DEF SignedIn, ConnectFails, Logout, TypeOK, TaskType, Goto, Task,
     SidStates, LoginWaits, LoginEnds, taskVars
<1>3. PoolType' /\ RunType' /\ WorldType' /\ SweepType'
  BY Frames DEF SignedIn, ConnectFails, Logout
<1> QED BY <1>1, <1>2, <1>3 DEF TypeOK

(* The steps of a drop, which needs a worker to close.                     *)
LEMMA TypeDrop ==
  ASSUME TypeOK, NEW s \in Sid, Drop(s),
         drop[s] = "unregister" => workers[s] # None,
         drop[s] \in {"cleanup", "shutdown"} => victim[s] # None
  PROVE  TypeOK'
<1>1. StoreType' /\ TaskType' /\ SweepType'
  BY Frames DEF Drop, Unregister, QueueCleanup, ShutPool, Unlink, DropStep
<1>2. DropType'
  BY DEF Drop, Unregister, QueueCleanup, ShutPool, Unlink, DropStep, TypeOK, DropType, PoolType
<1>3. PoolType' /\ WorldType'
  BY DEF Drop, Unregister, QueueCleanup, ShutPool, Unlink, DropStep, TypeOK, DropType,
     PoolType, WorldType, poolVars, worldVars
<1>4. RunType'
  BY CallType, SubmitType DEF Drop, Unregister, QueueCleanup, ShutPool, Unlink, DropStep,
     TypeOK, DropType, RunType
<1> QED BY <1>1, <1>2, <1>3, <1>4 DEF TypeOK

(* The sweeper, close_all and the clock.                                   *)
LEMMA TypeSweeper ==
  ASSUME TypeOK, Sweep \/ CloseAll \/ (\E s \in Sid : Lapse(s) \/ SweepDrop(s))
  PROVE  TypeOK'
<1>1. StoreType' /\ DropType'
  BY PopType DEF Sweep, CloseAll, Lapse, SweepDrop, TypeOK, StoreType, DropType, storeVars, dropVars
<1>2. SweepType'
  BY DEF Sweep, CloseAll, Lapse, SweepDrop, TypeOK, StoreType, SweepType, sweepVars
<1>3. PoolType' /\ RunType' /\ WorldType' /\ TaskType'
  BY Frames DEF Sweep, CloseAll, Lapse, SweepDrop
<1> QED BY <1>1, <1>2, <1>3 DEF TypeOK

(* The registry's shutdown.                                                *)
LEMMA TypeShutRegistry ==
  ASSUME TypeOK, NEW s \in Sid, ShutRegistry(s)
  PROVE  TypeOK'
<1>1. StoreType' /\ DropType' /\ WorldType' /\ TaskType' /\ SweepType'
  BY Frames DEF ShutRegistry
<1>2. PoolType'
  BY DEF ShutRegistry, CloseWorker, TypeOK, PoolType
<1>3. RunType'
  BY CallType, SubmitType DEF ShutRegistry, CloseWorker, TypeOK, PoolType, RunType
<1> QED BY <1>1, <1>2, <1>3 DEF TypeOK

(* A request, which needs its cookie's session and its worker.             *)
LEMMA TypeRequest ==
  ASSUME TypeOK, NEW r \in Req, Request(r),
         pc[r] \in {"touch", "found", "make"} => cookie[r] # None,
         pc[r] = "submit" => hand[r] # None
  PROVE  TypeOK'
<1> USE ConstantsAssumption
<1>1. WorldType' /\ SweepType'
  BY Frames DEF Request, Lookup, Refused, Touch, GetWorker, MakeWorker, RunCheck, RunSubmit, Answered
<1>2. StoreType' /\ DropType'
  <2>1. CASE Lookup(r)
    BY <2>1, PopType DEF Lookup, TypeOK, StoreType, DropType, storeVars, dropVars
  <2>2. CASE Touch(r)
    BY <2>2 DEF Touch, TypeOK, StoreType, DropType, dropVars
  <2>3. CASE Refused(r) \/ GetWorker(r) \/ MakeWorker(r) \/ RunCheck(r) \/ RunSubmit(r) \/ Answered(r)
    BY <2>3, Frames DEF Refused, GetWorker, MakeWorker, RunCheck, RunSubmit, Answered
  <2> QED BY <2>1, <2>2, <2>3 DEF Request
<1>3. PoolType'
  BY Frames DEF Request, Lookup, Refused, Touch, GetWorker, MakeWorker, RunCheck, RunSubmit, Answered,
     NewWorker, TypeOK, PoolType, TaskType
<1>4. RunType'
  <2>1. CASE RunSubmit(r)
    BY <2>1, CallType, SubmitType DEF RunSubmit, TypeOK, RunType, TaskType, Task
  <2>2. CASE ~RunSubmit(r)
    BY <2>2, Frames DEF Request, Lookup, Refused, Touch, GetWorker, MakeWorker, RunCheck, Answered, runVars
  <2> QED BY <2>1, <2>2
<1>5. TaskType'
  <2>1. CASE Lookup(r)
    BY <2>1 DEF Lookup, TypeOK, TaskType, Goto, Task, ReqStates
  <2>2. CASE GetWorker(r) \/ MakeWorker(r)
    BY <2>2 DEF GetWorker, MakeWorker, TypeOK, PoolType, TaskType, Goto, Task, ReqStates
  <2>3. CASE Refused(r) \/ Touch(r) \/ RunCheck(r) \/ RunSubmit(r) \/ Answered(r)
    BY <2>3 DEF Refused, Touch, RunCheck, RunSubmit, Answered, TypeOK, TaskType, Goto, Task, ReqStates
  <2> QED BY <2>1, <2>2, <2>3 DEF Request
<1> QED BY <1>1, <1>2, <1>3, <1>4, <1>5 DEF TypeOK

(* A timeout.                                                              *)
LEMMA TypeGiveUp ==
  ASSUME TypeOK, NEW t \in Task, GiveUp(t)
  PROVE  TypeOK'
<1>1. TaskType'
  BY DEF GiveUp, TypeOK, TaskType
<1> QED BY <1>1, Frames DEF GiveUp, TypeOK

(* A call that ends leaves well-formed queues.                             *)
LEMMA FinishType ==
  ASSUME TypeOK, NEW w \in Thread, queue[w] # <<>>, NEW res \in {"ok", "error"}, Finish(w, res)
  PROVE  RunType' /\ answer' \in [Task -> {"none", "ok", "error", "timeout"}]
  BY QueueLemma DEF Finish, TypeOK, RunType, TaskType

(* A worker thread, which needs a session to work for.                     *)
LEMMA TypeThreadStep ==
  ASSUME TypeOK, NEW w \in Thread, ThreadStep(w),
         queue[w] # <<>> => owner[w] # None
  PROVE  TypeOK'
<1>1. StoreType' /\ DropType' /\ PoolType' /\ SweepType'
  BY Frames DEF ThreadStep
<1>2. RunType' /\ answer' \in [Task -> {"none", "ok", "error", "timeout"}]
  <2>1. CASE \E res \in {"ok", "error"} : queue[w] # <<>> /\ Finish(w, res)
    BY <2>1, FinishType
  <2>2. CASE /\ UNCHANGED <<queue, answer>>
             /\ \/ UNCHANGED phase
                \/ \E at \in {"file", "call", "again"} : phase' = [phase EXCEPT ![w] = at]
    BY <2>2 DEF TypeOK, RunType, TaskType
  <2> QED
    BY <2>1, <2>2 DEF ThreadStep, Resolve, OpenCache, FillCache, Connect, Operate, Reconnect, Cleanup,
       Running
<1>3. TaskType'
  BY <1>2 DEF ThreadStep, TypeOK, TaskType
<1>4. WorldType'
  <2>1. CASE Resolve(w) \/ Connect(w) \/ Reconnect(w) \/ Cleanup(w)
    BY <2>1 DEF Resolve, Connect, Reconnect, Cleanup, TypeOK, WorldType, worldVars
  <2>2. CASE OpenCache(w) \/ FillCache(w)
    BY <2>2 DEF OpenCache, FillCache, Running, TypeOK, WorldType, PoolType
  <2>3. CASE Operate(w)
    BY <2>3 DEF Operate, TypeOK, WorldType
  <2> QED BY <2>1, <2>2, <2>3 DEF ThreadStep
<1> QED BY <1>1, <1>2, <1>3, <1>4 DEF TypeOK

---------------------------------------------------------------------------
(* Every action preserves the inductive invariant. The calls of a queue    *)
(* are followed by their place: At(w, i).                                  *)

(* A call of the new queues is one of the old ones or the one submitted.   *)
LEMMA SubmitJobs ==
  ASSUME RunType, NEW w \in Thread, NEW j \in Job, Submit(w, j), NEW v \in Thread
  PROVE  /\ Len(queue[v])' = IF v = w THEN Len(queue[v]) + 1 ELSE Len(queue[v])
         /\ queue[w]' # <<>> /\ (v # w => queue[v]' = queue[v])
         /\ \A i \in Nat : At(v, i)' =>
              \/ At(v, i) /\ queue'[v][i] = queue[v][i]
              \/ v = w /\ i = Len(queue[w]) + 1 /\ queue'[v][i] = j
<1>1. queue'[v] = IF v = w THEN Append(queue[v], j) ELSE queue[v]
  BY DEF RunType, Submit
<1>2. queue[v] \in Seq(Job) /\ queue[w] \in Seq(Job)
  BY DEF RunType
<1>3. Len(Append(queue[w], j)) = Len(queue[w]) + 1 /\ Len(queue[w]) \in Nat
  BY <1>2, QueueLemma
<1>4. Append(queue[w], j) # <<>>
  BY <1>3
<1>5. queue'[w] = Append(queue[w], j)
  BY DEF RunType, Submit
<1> QED BY <1>1, <1>2, <1>3, <1>4, <1>5, QueueLemma DEF At

(* A call of the new queues has moved one place up, if its thread finished.*)
LEMMA FinishJobs ==
  ASSUME RunType, NEW w \in Thread, queue[w] # <<>>, NEW res, Finish(w, res), NEW v \in Thread
  PROVE  /\ Len(queue'[v]) = IF v = w THEN Len(queue[v]) - 1 ELSE Len(queue[v])
         /\ v # w => queue'[v] = queue[v]
         /\ At(w, 1) /\ Head(queue[w]) = queue[w][1] /\ Head(queue[w]) \in Job
         /\ \A i \in Nat : At(v, i)' =>
              \E k \in Nat : At(v, k) /\ queue'[v][i] = queue[v][k]
                             /\ k = IF v = w THEN i + 1 ELSE i
<1>1. queue'[v] = IF v = w THEN Tail(queue[v]) ELSE queue[v]
  BY DEF RunType, Finish
<1>2. queue[v] \in Seq(Job) /\ queue[w] \in Seq(Job) /\ Len(queue[w]) > 0
  BY DEF RunType
<1> QED BY <1>1, <1>2, QueueLemma DEF At

(* The session's cookie goes out: nothing but pc moves.                    *)
LEMMA StepSignedIn ==
  ASSUME IInv, NEW s \in Sid, SignedIn(s)
  PROVE  IInv'
<1> USE ConstantsAssumption
<1>1. TypeOK'
  BY TypeEndLogin DEF IInv
<1>2. CookieInv'
  BY DEF IInv, CookieInv, Task, SignedIn, Goto, TypeOK, TaskType, storeVars, dropVars, poolVars, runVars, worldVars, taskVars, sweepVars
<1>3. OwnerInv'
  BY DEF IInv, OwnerInv, SignedIn, Goto, TypeOK, TaskType, storeVars, dropVars, poolVars, runVars, worldVars, taskVars, sweepVars
<1>4. JobInv'
  BY DEF IInv, JobInv, At, Task, SignedIn, Goto, TypeOK, TaskType, storeVars, dropVars, poolVars, runVars, worldVars, taskVars, sweepVars
<1>5. LoginInv'
  BY DEF IInv, LoginInv, LoginOk, Sole, Task, SignedIn, Goto, TypeOK, TaskType, storeVars, dropVars, poolVars, runVars, worldVars, taskVars, sweepVars
<1>6. StoredInv'
  BY DEF IInv, StoredInv, Sole, Task, SignedIn, Goto, TypeOK, TaskType, storeVars, dropVars, poolVars, runVars, worldVars, taskVars, sweepVars
<1>7. DropInv'
  BY DEF IInv, DropInv, Task, SignedIn, Goto, TypeOK, TaskType, storeVars, dropVars, poolVars, runVars, worldVars, taskVars, sweepVars
<1>8. ClosingInv'
  BY DEF IInv, ClosingInv, Handled, LoginEnds, SignedIn, Goto, TypeOK, TaskType, storeVars, dropVars, poolVars, runVars, worldVars, taskVars, sweepVars
<1>9. WriteInv'
  BY DEF IInv, WriteInv, WriteOk, At, Task, SignedIn, Goto, TypeOK, TaskType, storeVars, dropVars, poolVars, runVars, worldVars, taskVars, sweepVars
<1> QED BY <1>1, <1>2, <1>3, <1>4, <1>5, <1>6, <1>7, <1>8, <1>9 DEF IInv

(* A caller stops waiting; its call stays queued.                          *)
LEMMA StepGiveUp ==
  ASSUME IInv, NEW t \in Task, GiveUp(t)
  PROVE  IInv'
<1> USE ConstantsAssumption
<1>1. TypeOK'
  BY TypeGiveUp DEF IInv
<1>2. CookieInv'
  BY DEF IInv, CookieInv, Task, GiveUp, TypeOK, TaskType, storeVars, dropVars, poolVars, runVars, worldVars, taskVars, sweepVars
<1>3. OwnerInv'
  BY DEF IInv, OwnerInv, GiveUp, TypeOK, TaskType, storeVars, dropVars, poolVars, runVars, worldVars, taskVars, sweepVars
<1>4. JobInv'
  BY DEF IInv, JobInv, At, Task, GiveUp, TypeOK, TaskType, storeVars, dropVars, poolVars, runVars, worldVars, taskVars, sweepVars
<1>5. LoginInv'
  BY DEF IInv, LoginInv, LoginOk, Waits, LoginWaits, Sole, Task, GiveUp, TypeOK, TaskType, storeVars, dropVars, poolVars, runVars, worldVars, taskVars, sweepVars
<1>6. StoredInv'
  BY DEF IInv, StoredInv, Sole, Task, GiveUp, TypeOK, TaskType, storeVars, dropVars, poolVars, runVars, worldVars, taskVars, sweepVars
<1>7. DropInv'
  BY DEF IInv, DropInv, Task, GiveUp, TypeOK, TaskType, storeVars, dropVars, poolVars, runVars, worldVars, taskVars, sweepVars
<1>8. ClosingInv'
  BY DEF IInv, ClosingInv, Handled, LoginEnds, GiveUp, TypeOK, TaskType, storeVars, dropVars, poolVars, runVars, worldVars, taskVars, sweepVars
<1>9. WriteInv'
  BY DEF IInv, WriteInv, WriteOk, At, Task, GiveUp, TypeOK, TaskType, storeVars, dropVars, poolVars, runVars, worldVars, taskVars, sweepVars
<1> QED BY <1>1, <1>2, <1>3, <1>4, <1>5, <1>6, <1>7, <1>8, <1>9 DEF IInv

(* The session leaves the store with its drop still to be run.             *)
LEMMA StepLogout ==
  ASSUME IInv, NEW s \in Sid, Logout(s)
  PROVE  IInv'
<1> USE ConstantsAssumption
<1>1. TypeOK'
  BY TypeEndLogin DEF IInv
<1>2. CookieInv'
  BY DEF IInv, CookieInv, Task, Logout, Pop, TypeOK, StoreType, DropType, PoolType, storeVars, dropVars, poolVars, runVars, worldVars, taskVars, sweepVars
<1>3. OwnerInv'
  BY DEF IInv, OwnerInv, StoredInv, Logout, Pop, TypeOK, StoreType, DropType, PoolType, storeVars, dropVars, poolVars, runVars, worldVars, taskVars, sweepVars
<1>4. JobInv'
  BY DEF IInv, JobInv, At, Task, Logout, Pop, TypeOK, StoreType, DropType, PoolType, storeVars, dropVars, poolVars, runVars, worldVars, taskVars, sweepVars
<1>5. LoginInv'
  BY DEF IInv, LoginInv, LoginOk, Sole, Task, Logout, Pop, TypeOK, StoreType, DropType, PoolType, storeVars, dropVars, poolVars, runVars, worldVars, taskVars, sweepVars
<1>6. StoredInv'
  BY DEF IInv, StoredInv, Sole, Task, Logout, Pop, TypeOK, StoreType, DropType, PoolType, storeVars, dropVars, poolVars, runVars, worldVars, taskVars, sweepVars
<1>7. DropInv'
  BY DEF IInv, DropInv, StoredInv, Sole, Task, Logout, Pop, TypeOK, StoreType, DropType, PoolType, storeVars, dropVars, poolVars, runVars, worldVars, taskVars, sweepVars
<1>8. ClosingInv'
  BY DEF IInv, ClosingInv, Handled, LoginEnds, Logout, Pop, TypeOK, StoreType, DropType, PoolType, storeVars, dropVars, poolVars, runVars, worldVars, taskVars, sweepVars
<1>9. WriteInv'
  BY DEF IInv, WriteInv, WriteOk, At, Task, Logout, Pop, TypeOK, StoreType, DropType, PoolType, storeVars, dropVars, poolVars, runVars, worldVars, taskVars, sweepVars
<1> QED BY <1>1, <1>2, <1>3, <1>4, <1>5, <1>6, <1>7, <1>8, <1>9 DEF IInv

(* The same for a sign-in whose first connection failed.                   *)
LEMMA StepConnectFails ==
  ASSUME IInv, NEW s \in Sid, ConnectFails(s)
  PROVE  IInv'
<1> USE ConstantsAssumption
<1>1. TypeOK'
  BY TypeEndLogin DEF IInv
<1>2. CookieInv'
  BY DEF IInv, CookieInv, Task, ConnectFails, Pop, Goto, TypeOK, StoreType, DropType, PoolType, TaskType, storeVars, dropVars, poolVars, runVars, worldVars, taskVars, sweepVars
<1>3. OwnerInv'
  BY DEF IInv, OwnerInv, StoredInv, ConnectFails, Pop, Goto, TypeOK, StoreType, DropType, PoolType, TaskType, storeVars, dropVars, poolVars, runVars, worldVars, taskVars, sweepVars
<1>4. JobInv'
  BY DEF IInv, JobInv, At, Task, ConnectFails, Pop, Goto, TypeOK, StoreType, DropType, PoolType, TaskType, storeVars, dropVars, poolVars, runVars, worldVars, taskVars, sweepVars
<1>5. LoginInv'
  BY DEF IInv, LoginInv, LoginOk, Sole, Task, ConnectFails, Pop, Goto, TypeOK, StoreType, DropType, PoolType, TaskType, storeVars, dropVars, poolVars, runVars, worldVars, taskVars, sweepVars
<1>6. StoredInv'
  BY DEF IInv, StoredInv, Sole, Task, ConnectFails, Pop, Goto, TypeOK, StoreType, DropType, PoolType, TaskType, storeVars, dropVars, poolVars, runVars, worldVars, taskVars, sweepVars
<1>7. DropInv'
  BY DEF IInv, DropInv, StoredInv, Sole, Task, ConnectFails, Pop, Goto, TypeOK, StoreType, DropType, PoolType, TaskType, storeVars, dropVars, poolVars, runVars, worldVars, taskVars, sweepVars
<1>8. ClosingInv'
  BY DEF IInv, ClosingInv, Handled, LoginEnds, ConnectFails, Pop, Goto, TypeOK, StoreType, DropType, PoolType, TaskType, storeVars, dropVars, poolVars, runVars, worldVars, taskVars, sweepVars
<1>9. WriteInv'
  BY DEF IInv, WriteInv, WriteOk, At, Task, ConnectFails, Pop, Goto, TypeOK, StoreType, DropType, PoolType, TaskType, storeVars, dropVars, poolVars, runVars, worldVars, taskVars, sweepVars
<1> QED BY <1>1, <1>2, <1>3, <1>4, <1>5, <1>6, <1>7, <1>8, <1>9 DEF IInv

(* Only the clock moves.                                                   *)
LEMMA StepLapse ==
  ASSUME IInv, NEW s \in Sid, Lapse(s)
  PROVE  IInv'
<1> USE ConstantsAssumption
<1>1. TypeOK'
  BY TypeSweeper DEF IInv
<1>2. CookieInv'
  BY DEF IInv, CookieInv, Task, Lapse, TypeOK, StoreType, storeVars, dropVars, poolVars, runVars, worldVars, taskVars, sweepVars
<1>3. OwnerInv'
  BY DEF IInv, OwnerInv, Lapse, TypeOK, StoreType, storeVars, dropVars, poolVars, runVars, worldVars, taskVars, sweepVars
<1>4. JobInv'
  BY DEF IInv, JobInv, At, Task, Lapse, TypeOK, StoreType, storeVars, dropVars, poolVars, runVars, worldVars, taskVars, sweepVars
<1>5. LoginInv'
  BY DEF IInv, LoginInv, LoginOk, Sole, Task, Lapse, TypeOK, StoreType, storeVars, dropVars, poolVars, runVars, worldVars, taskVars, sweepVars
<1>6. StoredInv'
  BY DEF IInv, StoredInv, Sole, Task, Lapse, TypeOK, StoreType, storeVars, dropVars, poolVars, runVars, worldVars, taskVars, sweepVars
<1>7. DropInv'
  BY DEF IInv, DropInv, Task, Lapse, TypeOK, StoreType, storeVars, dropVars, poolVars, runVars, worldVars, taskVars, sweepVars
<1>8. ClosingInv'
  BY DEF IInv, ClosingInv, Handled, LoginEnds, Lapse, TypeOK, StoreType, storeVars, dropVars, poolVars, runVars, worldVars, taskVars, sweepVars
<1>9. WriteInv'
  BY DEF IInv, WriteInv, WriteOk, At, Task, Lapse, TypeOK, StoreType, storeVars, dropVars, poolVars, runVars, worldVars, taskVars, sweepVars
<1> QED BY <1>1, <1>2, <1>3, <1>4, <1>5, <1>6, <1>7, <1>8, <1>9 DEF IInv

(* Only the sweeper's list moves.                                          *)
LEMMA StepSweep ==
  ASSUME IInv, Sweep
  PROVE  IInv'
<1> USE ConstantsAssumption
<1>1. TypeOK'
  BY TypeSweeper DEF IInv
<1>2. CookieInv'
  BY DEF IInv, CookieInv, Task, Sweep, TypeOK, SweepType, storeVars, dropVars, poolVars, runVars, worldVars, taskVars, sweepVars
<1>3. OwnerInv'
  BY DEF IInv, OwnerInv, Sweep, TypeOK, SweepType, storeVars, dropVars, poolVars, runVars, worldVars, taskVars, sweepVars
<1>4. JobInv'
  BY DEF IInv, JobInv, At, Task, Sweep, TypeOK, SweepType, storeVars, dropVars, poolVars, runVars, worldVars, taskVars, sweepVars
<1>5. LoginInv'
  BY DEF IInv, LoginInv, LoginOk, Sole, Task, Sweep, TypeOK, SweepType, storeVars, dropVars, poolVars, runVars, worldVars, taskVars, sweepVars
<1>6. StoredInv'
  BY DEF IInv, StoredInv, Sole, Task, Sweep, TypeOK, SweepType, storeVars, dropVars, poolVars, runVars, worldVars, taskVars, sweepVars
<1>7. DropInv'
  BY DEF IInv, DropInv, Task, Sweep, TypeOK, SweepType, storeVars, dropVars, poolVars, runVars, worldVars, taskVars, sweepVars
<1>8. ClosingInv'
  BY DEF IInv, ClosingInv, Handled, LoginEnds, Sweep, TypeOK, SweepType, storeVars, dropVars, poolVars, runVars, worldVars, taskVars, sweepVars
<1>9. WriteInv'
  BY DEF IInv, WriteInv, WriteOk, At, Task, Sweep, TypeOK, SweepType, storeVars, dropVars, poolVars, runVars, worldVars, taskVars, sweepVars
<1> QED BY <1>1, <1>2, <1>3, <1>4, <1>5, <1>6, <1>7, <1>8, <1>9 DEF IInv

(* close_all lists every session, and no handler is running.               *)
LEMMA StepCloseAll ==
  ASSUME IInv, CloseAll
  PROVE  IInv'
<1> USE ConstantsAssumption
<1>1. TypeOK'
  BY TypeSweeper DEF IInv
<1>2. CookieInv'
  BY DEF IInv, CookieInv, Task, CloseAll, TypeOK, SweepType, storeVars, dropVars, poolVars, runVars, worldVars, taskVars, sweepVars
<1>3. OwnerInv'
  BY DEF IInv, OwnerInv, CloseAll, TypeOK, SweepType, storeVars, dropVars, poolVars, runVars, worldVars, taskVars, sweepVars
<1>4. JobInv'
  BY DEF IInv, JobInv, At, Task, CloseAll, TypeOK, SweepType, storeVars, dropVars, poolVars, runVars, worldVars, taskVars, sweepVars
<1>5. LoginInv'
  BY DEF IInv, LoginInv, LoginOk, Sole, Task, CloseAll, TypeOK, SweepType, storeVars, dropVars, poolVars, runVars, worldVars, taskVars, sweepVars
<1>6. StoredInv'
  BY DEF IInv, StoredInv, Sole, Task, CloseAll, TypeOK, SweepType, storeVars, dropVars, poolVars, runVars, worldVars, taskVars, sweepVars
<1>7. DropInv'
  BY DEF IInv, DropInv, Task, CloseAll, TypeOK, SweepType, storeVars, dropVars, poolVars, runVars, worldVars, taskVars, sweepVars
<1>8. ClosingInv'
  BY DEF IInv, ClosingInv, Handled, LoginEnds, CloseAll, TypeOK, SweepType, storeVars, dropVars, poolVars, runVars, worldVars, taskVars, sweepVars
<1>9. WriteInv'
  BY DEF IInv, WriteInv, WriteOk, At, Task, CloseAll, TypeOK, SweepType, storeVars, dropVars, poolVars, runVars, worldVars, taskVars, sweepVars
<1> QED BY <1>1, <1>2, <1>3, <1>4, <1>5, <1>6, <1>7, <1>8, <1>9 DEF IInv

(* A listed session is popped, if it is still there.                       *)
LEMMA StepSweepDrop ==
  ASSUME IInv, NEW s \in Sid, SweepDrop(s)
  PROVE  IInv'
<1> USE ConstantsAssumption
<1>1. TypeOK'
  BY TypeSweeper DEF IInv
<1>2. CookieInv'
  BY DEF IInv, CookieInv, Task, SweepDrop, Pop, TypeOK, StoreType, DropType, PoolType, storeVars, dropVars, poolVars, runVars, worldVars, taskVars, sweepVars
<1>3. OwnerInv'
  BY DEF IInv, OwnerInv, StoredInv, SweepDrop, Pop, TypeOK, StoreType, DropType, PoolType, storeVars, dropVars, poolVars, runVars, worldVars, taskVars, sweepVars
<1>4. JobInv'
  BY DEF IInv, JobInv, At, Task, SweepDrop, Pop, TypeOK, StoreType, DropType, PoolType, storeVars, dropVars, poolVars, runVars, worldVars, taskVars, sweepVars
<1>5. LoginInv'
  BY DEF IInv, LoginInv, LoginOk, Sole, Task, SweepDrop, Pop, TypeOK, StoreType, DropType, PoolType, storeVars, dropVars, poolVars, runVars, worldVars, taskVars, sweepVars
<1>6. StoredInv'
  BY DEF IInv, StoredInv, Sole, Task, SweepDrop, Pop, TypeOK, StoreType, DropType, PoolType, storeVars, dropVars, poolVars, runVars, worldVars, taskVars, sweepVars
<1>7. DropInv'
  BY DEF IInv, DropInv, StoredInv, Sole, Task, SweepDrop, Pop, TypeOK, StoreType, DropType, PoolType, storeVars, dropVars, poolVars, runVars, worldVars, taskVars, sweepVars
<1>8. ClosingInv'
  BY DEF IInv, ClosingInv, Handled, LoginEnds, SweepDrop, Pop, TypeOK, StoreType, DropType, PoolType, storeVars, dropVars, poolVars, runVars, worldVars, taskVars, sweepVars
<1>9. WriteInv'
  BY DEF IInv, WriteInv, WriteOk, At, Task, SweepDrop, Pop, TypeOK, StoreType, DropType, PoolType, storeVars, dropVars, poolVars, runVars, worldVars, taskVars, sweepVars
<1> QED BY <1>1, <1>2, <1>3, <1>4, <1>5, <1>6, <1>7, <1>8, <1>9 DEF IInv

(* The session enters the store: its only thread is idle and its ticket there. *)
LEMMA StepTicketed ==
  ASSUME IInv, NEW s \in Sid, Ticketed(s)
  PROVE  IInv'
<1> USE ConstantsAssumption
<1>0. workers[s] # None
  BY DEF IInv, LoginInv, LoginOk, Sole, Ticketed
<1>1. TypeOK'
  BY <1>0, TypeTicketed DEF IInv
<1>w. PICK w \in Thread : w = workers[s] /\ Call("op", s) \in Job /\ Submit(w, Call("op", s))
  BY CallType, ConstantsAssumption DEF Ticketed, IInv, LoginInv, LoginOk, Sole, Task
<1>b. \A v \in Thread :
        /\ Len(queue'[v]) = IF v = w THEN Len(queue[v]) + 1 ELSE Len(queue[v])
        /\ queue'[w] # <<>> /\ (v # w => queue'[v] = queue[v])
        /\ \A i \in Nat : At(v, i)' =>
             \/ At(v, i) /\ queue'[v][i] = queue[v][i]
             \/ v = w /\ i = Len(queue[w]) + 1 /\ queue'[v][i] = Call("op", s)
  BY <1>w, SubmitJobs DEF IInv, TypeOK
<1>2. CookieInv'
  BY DEF IInv, CookieInv, Task, Ticketed, Goto, TypeOK, StoreType, PoolType, TaskType, RunType, storeVars, dropVars, poolVars, runVars, worldVars, taskVars, sweepVars
<1>3. OwnerInv'
  <2>1. owner[w] = s /\ UNCHANGED <<owner, workers, closed, shut, drop, victim>>
    BY <1>0, <1>w DEF IInv, OwnerInv, Ticketed, storeVars, dropVars, poolVars, runVars, worldVars, taskVars, sweepVars
  <2> QED BY <2>1, <1>b DEF IInv, OwnerInv
<1>4. JobInv'
  <2> SUFFICES ASSUME NEW v \in Thread, NEW i \in Nat, At(v, i)'
               PROVE  /\ queue'[v][i].task \in Sid => owner'[v] = queue'[v][i].task
                      /\ queue'[v][i].kind = "kinit" =>
                           owner'[v] # None /\ pc'[owner'[v]] \in {"kinit", "failed"}
    BY DEF JobInv
  <2>0. queue[w] = <<>> /\ Sole(s, w) /\ owner[w] = s /\ owner' = owner
    BY <1>w DEF IInv, LoginInv, LoginOk, OwnerInv, Sole, Ticketed, poolVars
  <2>1. CASE At(v, i) /\ queue'[v][i] = queue[v][i]
    <3>1. v # w
      BY <2>0, <2>1 DEF At
    <3>2. owner[v] # s
      BY <2>0, <3>1 DEF Sole
    <3> QED BY <2>0, <2>1, <3>2 DEF IInv, JobInv, TypeOK, PoolType, TaskType, Task, Ticketed, Goto
  <2>2. CASE v = w /\ queue'[v][i] = Call("op", s)
    BY <2>0, <2>2 DEF Call
  <2> QED BY <1>b, <2>1, <2>2
<1>5. LoginInv'
  <2> SUFFICES ASSUME NEW x \in Sid
               PROVE  LoginOk(x)'
    BY DEF LoginInv, LoginOk
  <2>1. CASE x = s
    BY <2>1 DEF IInv, LoginOk, TypeOK, TaskType, Task, Ticketed, Goto
  <2>2. CASE x # s
    <3>1. workers'[x] = workers[x] /\ pc'[x] = pc[x] /\ answer'[x] = answer[x] /\ UNCHANGED <<owner, closed, shut, drop, ccache, workers>>
      BY <2>2 DEF IInv, TypeOK, TaskType, Task, Ticketed, Goto, storeVars, dropVars, poolVars, runVars, worldVars, taskVars, sweepVars
    <3>2. x \in sessions' <=> x \in sessions
      BY <2>2 DEF Ticketed
    <3>3. pc[x] \in {"resolve", "kinit"} => queue'[workers[x]] = queue[workers[x]]
      BY <2>2, <1>w, <1>b DEF IInv, OwnerInv, LoginInv, LoginOk, Sole
    <3> QED BY <3>1, <3>2, <3>3 DEF IInv, LoginInv, LoginOk, Sole
  <2> QED BY <2>1, <2>2
<1>6. StoredInv'
  <2> SUFFICES ASSUME NEW x \in Sid, x \in sessions'
               PROVE  /\ pc'[x] \in {"connect", "in"} /\ drop'[x] = "no"
                      /\ ccache'[x] = "ticket" /\ Sole(x, workers[x])'
    BY <1>1 DEF StoredInv, TypeOK, StoreType
  <2>1. CASE x = s
    BY <2>1 DEF IInv, StoredInv, LoginInv, LoginOk, Sole, TypeOK, TaskType, Task, Ticketed, Goto, storeVars, dropVars, poolVars, runVars, worldVars, taskVars, sweepVars
  <2>2. CASE x # s
    <3>1. x \in sessions
      BY <2>2 DEF Ticketed, Goto, storeVars, dropVars, poolVars, runVars, worldVars, taskVars, sweepVars
    <3> QED BY <2>2, <3>1 DEF IInv, StoredInv, Sole, TypeOK, TaskType, Task, Ticketed, Goto, storeVars, dropVars, poolVars, runVars, worldVars, taskVars, sweepVars
  <2> QED BY <2>1, <2>2
<1>7. DropInv'
  BY DEF IInv, DropInv, LoginInv, LoginOk, Task, Ticketed, Goto, TypeOK, StoreType, PoolType, TaskType, RunType, storeVars, dropVars, poolVars, runVars, worldVars, taskVars, sweepVars
<1>8. ClosingInv'
  BY DEF IInv, ClosingInv, LoginWaits, Handled, LoginEnds, Ticketed, Goto, TypeOK, StoreType, PoolType, TaskType, RunType, storeVars, dropVars, poolVars, runVars, worldVars, taskVars, sweepVars
<1>9. WriteInv'
  <2>1. \A r \in Writes : applied'[r] = applied[r] /\ pc'[r] = pc[r]
    BY DEF IInv, TypeOK, TaskType, Task, Ticketed, Goto, storeVars, dropVars, poolVars, runVars, worldVars, taskVars, sweepVars
  <2>2. \A r \in Writes, v \in Thread, i \in Nat :
          At(v, i)' /\ queue'[v][i].task = r => At(v, i) /\ queue[v][i].task = r
    BY <1>b DEF Call
  <2> QED BY <2>1, <2>2 DEF IInv, WriteInv, WriteOk
<1> QED BY <1>1, <1>2, <1>3, <1>4, <1>5, <1>6, <1>7, <1>8, <1>9 DEF IInv

(* A failed sign-in closes its worker; its thread may still run kinit.     *)
LEMMA StepLoginFails ==
  ASSUME IInv, NEW s \in Sid, LoginFails(s)
  PROVE  IInv'
<1> USE ConstantsAssumption
<1>0. workers[s] # None /\ s \notin sessions
  BY DEF IInv, LoginInv, LoginOk, Sole, LoginFails
<1>1. TypeOK'
  BY <1>0, TypeLoginFails DEF IInv
<1>w. PICK w \in Thread : w = workers[s] /\ Call("cleanup", None) \in Job /\ Submit(w, Call("cleanup", None))
  BY CallType, ConstantsAssumption DEF LoginFails, CloseWorker, IInv, LoginInv, LoginOk, Sole, Task
<1>b. \A v \in Thread :
        /\ Len(queue'[v]) = IF v = w THEN Len(queue[v]) + 1 ELSE Len(queue[v])
        /\ queue'[w] # <<>> /\ (v # w => queue'[v] = queue[v])
        /\ \A i \in Nat : At(v, i)' =>
             \/ At(v, i) /\ queue'[v][i] = queue[v][i]
             \/ v = w /\ i = Len(queue[w]) + 1 /\ queue'[v][i] = Call("cleanup", None)
  BY <1>w, SubmitJobs DEF IInv, TypeOK
<1>2. CookieInv'
  BY DEF IInv, CookieInv, Task, LoginFails, CloseWorker, Goto, TypeOK, PoolType, WorldType, TaskType, RunType, storeVars, dropVars, poolVars, runVars, worldVars, taskVars, sweepVars
<1>3. OwnerInv'
  <2>1. /\ owner' = owner /\ drop' = drop /\ victim' = victim /\ owner[w] = s
        /\ closed' \cup shut' \subseteq closed \cup shut \cup {w}
    BY <1>0, <1>w DEF IInv, OwnerInv, LoginFails, CloseWorker, storeVars, dropVars, poolVars, runVars, worldVars, taskVars, sweepVars
  <2>2. \A x \in Sid : workers'[x] # None => workers'[x] = workers[x]
    BY DEF IInv, TypeOK, PoolType, LoginFails, CloseWorker
  <2>3. \A v \in Thread : queue'[v] # <<>> => queue[v] # <<>> \/ v = w
    BY <1>b
  <2> QED BY <2>1, <2>2, <2>3 DEF IInv, OwnerInv
<1>4. JobInv'
  <2> SUFFICES ASSUME NEW v \in Thread, NEW i \in Nat, At(v, i)'
               PROVE  /\ queue'[v][i].task \in Sid => owner'[v] = queue'[v][i].task
                      /\ queue'[v][i].kind = "kinit" =>
                           owner'[v] # None /\ pc'[owner'[v]] \in {"kinit", "failed"}
    BY DEF JobInv
  <2>1. CASE At(v, i) /\ queue'[v][i] = queue[v][i]
    BY <2>1 DEF IInv, JobInv, LoginFails, CloseWorker, Goto, TypeOK, PoolType, TaskType, Task, storeVars, dropVars, poolVars, runVars, worldVars, taskVars, sweepVars
  <2>2. CASE v = w /\ queue'[v][i] = Call("cleanup", None)
    BY <2>2, <1>w DEF IInv, Call, LoginFails, CloseWorker, Goto, storeVars, dropVars, poolVars, runVars, worldVars, taskVars, sweepVars
  <2> QED BY <1>b, <2>1, <2>2
<1>5. LoginInv'
  BY <1>w, <1>b DEF IInv, LoginInv, LoginOk, OwnerInv, Sole, Task, LoginFails, CloseWorker, Goto, TypeOK, PoolType, WorldType, TaskType, RunType, storeVars, dropVars, poolVars, runVars, worldVars, taskVars, sweepVars
<1>6. StoredInv'
  <2> SUFFICES ASSUME NEW x \in Sid, x \in sessions
               PROVE  /\ pc'[x] \in {"connect", "in"} /\ drop'[x] = "no"
                      /\ ccache'[x] = "ticket" /\ Sole(x, workers[x])'
    BY DEF IInv, TypeOK, StoreType, StoredInv, LoginFails, storeVars, dropVars, poolVars, runVars, worldVars, taskVars, sweepVars
  <2>1. x # s /\ workers[x] # workers[s]
    BY <1>0 DEF IInv, OwnerInv, StoredInv, Sole
  <2>2. Sole(x, workers[x]) /\ ccache[x] = "ticket" /\ pc[x] \in {"connect", "in"} /\ drop[x] = "no"
    BY DEF IInv, StoredInv
  <2>3. Sole(x, workers[x])'
    BY <2>1, <2>2 DEF IInv, TypeOK, PoolType, Sole, LoginFails, CloseWorker
  <2> QED BY <2>1, <2>2, <2>3 DEF IInv, TypeOK, WorldType, TaskType, Task, LoginFails, Goto, storeVars, dropVars, poolVars, runVars, worldVars, taskVars, sweepVars
<1>7. DropInv'
  BY DEF IInv, DropInv, LoginInv, LoginOk, Task, LoginFails, CloseWorker, Goto, TypeOK, PoolType, WorldType, TaskType, RunType, storeVars, dropVars, poolVars, runVars, worldVars, taskVars, sweepVars
<1>8. ClosingInv'
  BY DEF IInv, ClosingInv, Handled, LoginEnds, LoginFails, CloseWorker, Goto, TypeOK, PoolType, WorldType, TaskType, RunType, storeVars, dropVars, poolVars, runVars, worldVars, taskVars, sweepVars
<1>9. WriteInv'
  <2>1. \A r \in Writes : applied'[r] = applied[r] /\ pc'[r] = pc[r]
    BY DEF IInv, TypeOK, TaskType, Task, LoginFails, CloseWorker, Goto, storeVars, dropVars, poolVars, runVars, worldVars, taskVars, sweepVars
  <2>2. \A r \in Writes, v \in Thread, i \in Nat :
          At(v, i)' /\ queue'[v][i].task = r => At(v, i) /\ queue[v][i].task = r
    BY <1>b DEF Call
  <2> QED BY <2>1, <2>2 DEF IInv, WriteInv, WriteOk
<1> QED BY <1>1, <1>2, <1>3, <1>4, <1>5, <1>6, <1>7, <1>8, <1>9 DEF IInv

(* The lifespan closes a worker whose session is not stored.               *)
LEMMA StepShutRegistry ==
  ASSUME IInv, NEW s \in Sid, ShutRegistry(s)
  PROVE  IInv'
<1> USE ConstantsAssumption
<1>1. TypeOK'
  BY TypeShutRegistry DEF IInv
<1>w. PICK w \in Thread : w = workers[s] /\ Call("cleanup", None) \in Job /\ Submit(w, Call("cleanup", None))
  BY CallType, ConstantsAssumption DEF ShutRegistry, CloseWorker, IInv, TypeOK, PoolType, Task
<1>b. \A v \in Thread :
        /\ Len(queue'[v]) = IF v = w THEN Len(queue[v]) + 1 ELSE Len(queue[v])
        /\ queue'[w] # <<>> /\ (v # w => queue'[v] = queue[v])
        /\ \A i \in Nat : At(v, i)' =>
             \/ At(v, i) /\ queue'[v][i] = queue[v][i]
             \/ v = w /\ i = Len(queue[w]) + 1 /\ queue'[v][i] = Call("cleanup", None)
  BY <1>w, SubmitJobs DEF IInv, TypeOK
<1>2. CookieInv'
  BY DEF IInv, CookieInv, Task, ShutRegistry, CloseWorker, TypeOK, PoolType, RunType, storeVars, dropVars, poolVars, runVars, worldVars, taskVars, sweepVars
<1>3. OwnerInv'
  BY <1>w, <1>b DEF IInv, OwnerInv, ShutRegistry, CloseWorker, TypeOK, PoolType, RunType, storeVars, dropVars, poolVars, runVars, worldVars, taskVars, sweepVars
<1>4. JobInv'
  <2> SUFFICES ASSUME NEW v \in Thread, NEW i \in Nat, At(v, i)'
               PROVE  /\ queue'[v][i].task \in Sid => owner'[v] = queue'[v][i].task
                      /\ queue'[v][i].kind = "kinit" =>
                           owner'[v] # None /\ pc'[owner'[v]] \in {"kinit", "failed"}
    BY DEF JobInv
  <2>1. CASE At(v, i) /\ queue'[v][i] = queue[v][i]
    BY <2>1 DEF IInv, JobInv, ShutRegistry, CloseWorker, storeVars, dropVars, poolVars, runVars, worldVars, taskVars, sweepVars
  <2>2. CASE v = w /\ queue'[v][i] = Call("cleanup", None)
    BY <2>2, <1>w DEF IInv, Call, ShutRegistry, CloseWorker, storeVars, dropVars, poolVars, runVars, worldVars, taskVars, sweepVars
  <2> QED BY <1>b, <2>1, <2>2
<1>5. LoginInv'
  <2>1. \A x \in Sid : pc[x] \in {"new"} \cup LoginEnds /\ pc'[x] = pc[x]
    BY DEF IInv, ClosingInv, Handled, ShutRegistry, storeVars, dropVars, poolVars, runVars, worldVars, taskVars, sweepVars
  <2>2. \A x \in Sid : workers'[x] = None \/ workers'[x] = workers[x]
    BY DEF IInv, TypeOK, PoolType, ShutRegistry, CloseWorker
  <2>3. UNCHANGED <<sessions, drop, owner, answer>>
    BY DEF ShutRegistry, CloseWorker, storeVars, dropVars, poolVars, runVars, worldVars, taskVars, sweepVars
  <2> QED BY <2>1, <2>2, <2>3 DEF IInv, LoginInv, LoginOk, LoginEnds
<1>6. StoredInv'
  BY DEF IInv, StoredInv, ClosingInv, LoopFree, Sole, Task, ShutRegistry, CloseWorker, TypeOK, PoolType, RunType, storeVars, dropVars, poolVars, runVars, worldVars, taskVars, sweepVars
<1>7. DropInv'
  <2>1. drop[s] = "no"
    BY DEF IInv, TypeOK, DropType, DropInv, ClosingInv, Handled, LoopFree, DroppingOnLoop, ShutRegistry
  <2> QED BY <2>1 DEF IInv, TypeOK, PoolType, DropInv, ShutRegistry, CloseWorker, storeVars, dropVars, poolVars, runVars, worldVars, taskVars, sweepVars
<1>8. ClosingInv'
  BY DEF IInv, ClosingInv, Handled, LoginEnds, ShutRegistry, CloseWorker, TypeOK, PoolType, RunType, storeVars, dropVars, poolVars, runVars, worldVars, taskVars, sweepVars
<1>9. WriteInv'
  <2>1. \A r \in Writes : applied'[r] = applied[r] /\ pc'[r] = pc[r]
    BY DEF IInv, TypeOK, TaskType, Task, ShutRegistry, CloseWorker, storeVars, dropVars, poolVars, runVars, worldVars, taskVars, sweepVars
  <2>2. \A r \in Writes, v \in Thread, i \in Nat :
          At(v, i)' /\ queue'[v][i].task = r => At(v, i) /\ queue[v][i].task = r
    BY <1>b DEF Call
  <2> QED BY <2>1, <2>2 DEF IInv, WriteInv, WriteOk
<1> QED BY <1>1, <1>2, <1>3, <1>4, <1>5, <1>6, <1>7, <1>8, <1>9 DEF IInv

(* The dropped session's worker leaves the registry.                       *)
LEMMA StepUnregister ==
  ASSUME IInv, NEW s \in Sid, Unregister(s)
  PROVE  IInv'
<1> USE ConstantsAssumption
<1>1. TypeOK'
  BY TypeDrop DEF IInv, DropInv, Drop, Unregister, DropStep
<1>2. CookieInv'
  BY DEF IInv, CookieInv, Task, Unregister, DropStep, TypeOK, PoolType, DropType, storeVars, dropVars, poolVars, runVars, worldVars, taskVars, sweepVars
<1>3. OwnerInv'
  <2>1. workers[s] # None /\ owner[workers[s]] = s
    BY DEF IInv, OwnerInv, DropInv, Unregister, DropStep
  <2>2. \A x \in Sid : workers'[x] # None => workers'[x] = workers[x]
    BY DEF IInv, TypeOK, PoolType, Unregister
  <2>3. \A x \in Sid : /\ x = s => victim'[x] = workers[s]
                       /\ x # s => victim'[x] = victim[x] /\ drop'[x] = drop[x]
    BY DEF IInv, TypeOK, DropType, Unregister, DropStep
  <2>4. UNCHANGED <<owner, queue, shut>> /\ closed' = closed \cup {workers[s]}
    BY DEF Unregister
  <2> QED BY <2>1, <2>2, <2>3, <2>4 DEF IInv, OwnerInv
<1>4. JobInv'
  BY DEF IInv, JobInv, At, Task, Unregister, DropStep, TypeOK, PoolType, DropType, storeVars, dropVars, poolVars, runVars, worldVars, taskVars, sweepVars
<1>5. LoginInv'
  BY DEF IInv, LoginInv, LoginOk, OwnerInv, DropInv, Sole, Task, Unregister, DropStep, TypeOK, PoolType, DropType, storeVars, dropVars, poolVars, runVars, worldVars, taskVars, sweepVars
<1>6. StoredInv'
  <2> SUFFICES ASSUME NEW x \in Sid, x \in sessions
               PROVE  /\ pc'[x] \in {"connect", "in"} /\ drop'[x] = "no"
                      /\ ccache'[x] = "ticket" /\ Sole(x, workers[x])'
    BY DEF IInv, TypeOK, StoreType, StoredInv, Unregister, DropStep, storeVars, dropVars, poolVars, runVars, worldVars, taskVars, sweepVars
  <2>1. x # s
    BY DEF IInv, DropInv, Unregister, DropStep
  <2>2. Sole(x, workers[x]) /\ ccache[x] = "ticket" /\ pc[x] \in {"connect", "in"} /\ drop[x] = "no"
    BY DEF IInv, StoredInv
  <2>3. Sole(x, workers[x])'
    BY <2>1, <2>2 DEF IInv, OwnerInv, DropInv, TypeOK, PoolType, DropType, Sole, Unregister, DropStep, storeVars, dropVars, poolVars, runVars, worldVars, taskVars, sweepVars
  <2> QED BY <2>1, <2>2, <2>3 DEF IInv, TypeOK, DropType, Unregister, DropStep, storeVars, dropVars, poolVars, runVars, worldVars, taskVars, sweepVars
<1>7. DropInv'
  BY DEF IInv, DropInv, Task, Unregister, DropStep, TypeOK, PoolType, DropType, storeVars, dropVars, poolVars, runVars, worldVars, taskVars, sweepVars
<1>8. ClosingInv'
  BY DEF IInv, ClosingInv, Handled, LoginEnds, Unregister, DropStep, TypeOK, PoolType, DropType, storeVars, dropVars, poolVars, runVars, worldVars, taskVars, sweepVars
<1>9. WriteInv'
  BY DEF IInv, WriteInv, WriteOk, At, Task, Unregister, DropStep, TypeOK, PoolType, DropType, storeVars, dropVars, poolVars, runVars, worldVars, taskVars, sweepVars
<1> QED BY <1>1, <1>2, <1>3, <1>4, <1>5, <1>6, <1>7, <1>8, <1>9 DEF IInv

(* The cleanup is queued on the worker being closed.                       *)
LEMMA StepQueueCleanup ==
  ASSUME IInv, NEW s \in Sid, QueueCleanup(s)
  PROVE  IInv'
<1> USE ConstantsAssumption
<1>1. TypeOK'
  BY TypeDrop DEF IInv, OwnerInv, Drop, QueueCleanup, DropStep
<1>w. PICK w \in Thread : w = victim[s] /\ Call("cleanup", None) \in Job /\ Submit(w, Call("cleanup", None))
  BY CallType, ConstantsAssumption DEF QueueCleanup, DropStep, IInv, TypeOK, DropType, OwnerInv, Task
<1>b. \A v \in Thread :
        /\ Len(queue'[v]) = IF v = w THEN Len(queue[v]) + 1 ELSE Len(queue[v])
        /\ queue'[w] # <<>> /\ (v # w => queue'[v] = queue[v])
        /\ \A i \in Nat : At(v, i)' =>
             \/ At(v, i) /\ queue'[v][i] = queue[v][i]
             \/ v = w /\ i = Len(queue[w]) + 1 /\ queue'[v][i] = Call("cleanup", None)
  BY <1>w, SubmitJobs DEF IInv, TypeOK
<1>2. CookieInv'
  BY DEF IInv, CookieInv, Task, QueueCleanup, DropStep, TypeOK, DropType, PoolType, RunType, storeVars, dropVars, poolVars, runVars, worldVars, taskVars, sweepVars
<1>3. OwnerInv'
  BY <1>w, <1>b DEF IInv, OwnerInv, QueueCleanup, DropStep, TypeOK, DropType, PoolType, RunType, storeVars, dropVars, poolVars, runVars, worldVars, taskVars, sweepVars
<1>4. JobInv'
  <2> SUFFICES ASSUME NEW v \in Thread, NEW i \in Nat, At(v, i)'
               PROVE  /\ queue'[v][i].task \in Sid => owner'[v] = queue'[v][i].task
                      /\ queue'[v][i].kind = "kinit" =>
                           owner'[v] # None /\ pc'[owner'[v]] \in {"kinit", "failed"}
    BY DEF JobInv
  <2>1. CASE At(v, i) /\ queue'[v][i] = queue[v][i]
    BY <2>1 DEF IInv, JobInv, QueueCleanup, DropStep, storeVars, dropVars, poolVars, runVars, worldVars, taskVars, sweepVars
  <2>2. CASE v = w /\ queue'[v][i] = Call("cleanup", None)
    BY <2>2, <1>w DEF IInv, Call, QueueCleanup, DropStep, storeVars, dropVars, poolVars, runVars, worldVars, taskVars, sweepVars
  <2> QED BY <1>b, <2>1, <2>2
<1>5. LoginInv'
  BY <1>w, <1>b DEF IInv, LoginInv, LoginOk, OwnerInv, DropInv, Sole, Task, QueueCleanup, DropStep, TypeOK, DropType, PoolType, RunType, storeVars, dropVars, poolVars, runVars, worldVars, taskVars, sweepVars
<1>6. StoredInv'
  BY DEF IInv, StoredInv, DropInv, Sole, Task, QueueCleanup, DropStep, TypeOK, DropType, PoolType, RunType, storeVars, dropVars, poolVars, runVars, worldVars, taskVars, sweepVars
<1>7. DropInv'
  BY DEF IInv, DropInv, Task, QueueCleanup, DropStep, TypeOK, DropType, PoolType, RunType, storeVars, dropVars, poolVars, runVars, worldVars, taskVars, sweepVars
<1>8. ClosingInv'
  BY DEF IInv, ClosingInv, Handled, LoginEnds, QueueCleanup, DropStep, TypeOK, DropType, PoolType, RunType, storeVars, dropVars, poolVars, runVars, worldVars, taskVars, sweepVars
<1>9. WriteInv'
  <2>1. \A r \in Writes : applied'[r] = applied[r] /\ pc'[r] = pc[r]
    BY DEF IInv, TypeOK, TaskType, Task, QueueCleanup, DropStep, storeVars, dropVars, poolVars, runVars, worldVars, taskVars, sweepVars
  <2>2. \A r \in Writes, v \in Thread, i \in Nat :
          At(v, i)' /\ queue'[v][i].task = r => At(v, i) /\ queue[v][i].task = r
    BY <1>b DEF Call
  <2> QED BY <2>1, <2>2 DEF IInv, WriteInv, WriteOk
<1> QED BY <1>1, <1>2, <1>3, <1>4, <1>5, <1>6, <1>7, <1>8, <1>9 DEF IInv

(* The closing worker takes no more calls.                                 *)
LEMMA StepShutPool ==
  ASSUME IInv, NEW s \in Sid, ShutPool(s)
  PROVE  IInv'
<1> USE ConstantsAssumption
<1>1. TypeOK'
  BY TypeDrop DEF IInv, OwnerInv, Drop, ShutPool, DropStep
<1>2. CookieInv'
  BY DEF IInv, CookieInv, Task, ShutPool, DropStep, TypeOK, PoolType, DropType, storeVars, dropVars, poolVars, runVars, worldVars, taskVars, sweepVars
<1>3. OwnerInv'
  BY DEF IInv, OwnerInv, ShutPool, DropStep, TypeOK, PoolType, DropType, storeVars, dropVars, poolVars, runVars, worldVars, taskVars, sweepVars
<1>4. JobInv'
  BY DEF IInv, JobInv, At, Task, ShutPool, DropStep, TypeOK, PoolType, DropType, storeVars, dropVars, poolVars, runVars, worldVars, taskVars, sweepVars
<1>5. LoginInv'
  BY DEF IInv, LoginInv, LoginOk, OwnerInv, DropInv, Sole, Task, ShutPool, DropStep, TypeOK, PoolType, DropType, storeVars, dropVars, poolVars, runVars, worldVars, taskVars, sweepVars
<1>6. StoredInv'
  <2> SUFFICES ASSUME NEW x \in Sid, x \in sessions
               PROVE  /\ pc'[x] \in {"connect", "in"} /\ drop'[x] = "no"
                      /\ ccache'[x] = "ticket" /\ Sole(x, workers[x])'
    BY DEF IInv, TypeOK, StoreType, StoredInv, ShutPool, DropStep, storeVars, dropVars, poolVars, runVars, worldVars, taskVars, sweepVars
  <2>1. x # s
    BY DEF IInv, DropInv, ShutPool, DropStep
  <2>2. Sole(x, workers[x]) /\ ccache[x] = "ticket" /\ pc[x] \in {"connect", "in"} /\ drop[x] = "no"
    BY DEF IInv, StoredInv
  <2>3. Sole(x, workers[x])'
    BY <2>1, <2>2 DEF IInv, OwnerInv, DropInv, TypeOK, PoolType, DropType, Sole, ShutPool, DropStep, storeVars, dropVars, poolVars, runVars, worldVars, taskVars, sweepVars
  <2> QED BY <2>1, <2>2, <2>3 DEF IInv, TypeOK, DropType, ShutPool, DropStep, storeVars, dropVars, poolVars, runVars, worldVars, taskVars, sweepVars
<1>7. DropInv'
  BY DEF IInv, DropInv, Task, ShutPool, DropStep, TypeOK, PoolType, DropType, storeVars, dropVars, poolVars, runVars, worldVars, taskVars, sweepVars
<1>8. ClosingInv'
  BY DEF IInv, ClosingInv, Handled, LoginEnds, ShutPool, DropStep, TypeOK, PoolType, DropType, storeVars, dropVars, poolVars, runVars, worldVars, taskVars, sweepVars
<1>9. WriteInv'
  BY DEF IInv, WriteInv, WriteOk, At, Task, ShutPool, DropStep, TypeOK, PoolType, DropType, storeVars, dropVars, poolVars, runVars, worldVars, taskVars, sweepVars
<1> QED BY <1>1, <1>2, <1>3, <1>4, <1>5, <1>6, <1>7, <1>8, <1>9 DEF IInv

(* The ticket of a session that has left the store is removed.             *)
LEMMA StepUnlink ==
  ASSUME IInv, NEW s \in Sid, Unlink(s)
  PROVE  IInv'
<1> USE ConstantsAssumption
<1>1. TypeOK'
  BY TypeDrop DEF IInv, OwnerInv, Drop, Unlink, DropStep
<1>2. CookieInv'
  BY DEF IInv, CookieInv, Task, Unlink, DropStep, TypeOK, WorldType, DropType, storeVars, dropVars, poolVars, runVars, worldVars, taskVars, sweepVars
<1>3. OwnerInv'
  BY DEF IInv, OwnerInv, Unlink, DropStep, TypeOK, WorldType, DropType, storeVars, dropVars, poolVars, runVars, worldVars, taskVars, sweepVars
<1>4. JobInv'
  BY DEF IInv, JobInv, At, Task, Unlink, DropStep, TypeOK, WorldType, DropType, storeVars, dropVars, poolVars, runVars, worldVars, taskVars, sweepVars
<1>5. LoginInv'
  BY DEF IInv, LoginInv, LoginOk, DropInv, Sole, Task, Unlink, DropStep, TypeOK, WorldType, DropType, storeVars, dropVars, poolVars, runVars, worldVars, taskVars, sweepVars
<1>6. StoredInv'
  BY DEF IInv, StoredInv, DropInv, Sole, Task, Unlink, DropStep, TypeOK, WorldType, DropType, storeVars, dropVars, poolVars, runVars, worldVars, taskVars, sweepVars
<1>7. DropInv'
  BY DEF IInv, DropInv, Task, Unlink, DropStep, TypeOK, WorldType, DropType, storeVars, dropVars, poolVars, runVars, worldVars, taskVars, sweepVars
<1>8. ClosingInv'
  BY DEF IInv, ClosingInv, Handled, LoginEnds, Unlink, DropStep, TypeOK, WorldType, DropType, storeVars, dropVars, poolVars, runVars, worldVars, taskVars, sweepVars
<1>9. WriteInv'
  BY DEF IInv, WriteInv, WriteOk, At, Task, Unlink, DropStep, TypeOK, WorldType, DropType, storeVars, dropVars, poolVars, runVars, worldVars, taskVars, sweepVars
<1> QED BY <1>1, <1>2, <1>3, <1>4, <1>5, <1>6, <1>7, <1>8, <1>9 DEF IInv

(* A request reads the store, and pops an expired session.                 *)
LEMMA StepLookup ==
  ASSUME IInv, NEW r \in Req, Lookup(r)
  PROVE  IInv'
<1> USE ConstantsAssumption
<1>1. TypeOK'
  BY TypeRequest DEF IInv, CookieInv, Request, Lookup
<1>2. CookieInv'
  BY DEF IInv, CookieInv, Task, Lookup, Goto, Pop, TypeOK, StoreType, DropType, PoolType, TaskType, storeVars, dropVars, poolVars, runVars, worldVars, taskVars, sweepVars
<1>3. OwnerInv'
  BY DEF IInv, OwnerInv, StoredInv, Lookup, Goto, Pop, TypeOK, StoreType, DropType, PoolType, TaskType, storeVars, dropVars, poolVars, runVars, worldVars, taskVars, sweepVars
<1>4. JobInv'
  BY DEF IInv, JobInv, At, Task, Lookup, Goto, Pop, TypeOK, StoreType, DropType, PoolType, TaskType, storeVars, dropVars, poolVars, runVars, worldVars, taskVars, sweepVars
<1>5. LoginInv'
  BY DEF IInv, LoginInv, LoginOk, Sole, Task, Lookup, Goto, Pop, TypeOK, StoreType, DropType, PoolType, TaskType, storeVars, dropVars, poolVars, runVars, worldVars, taskVars, sweepVars
<1>6. StoredInv'
  BY DEF IInv, StoredInv, Sole, Task, Lookup, Goto, Pop, TypeOK, StoreType, DropType, PoolType, TaskType, storeVars, dropVars, poolVars, runVars, worldVars, taskVars, sweepVars
<1>7. DropInv'
  BY DEF IInv, DropInv, StoredInv, Sole, Task, Lookup, Goto, Pop, TypeOK, StoreType, DropType, PoolType, TaskType, storeVars, dropVars, poolVars, runVars, worldVars, taskVars, sweepVars
<1>8. ClosingInv'
  BY DEF IInv, ClosingInv, Handled, LoginEnds, Lookup, Goto, Pop, TypeOK, StoreType, DropType, PoolType, TaskType, storeVars, dropVars, poolVars, runVars, worldVars, taskVars, sweepVars
<1>9. WriteInv'
  BY DEF IInv, WriteInv, WriteOk, At, Task, Lookup, Goto, Pop, TypeOK, StoreType, DropType, PoolType, TaskType, storeVars, dropVars, poolVars, runVars, worldVars, taskVars, sweepVars
<1> QED BY <1>1, <1>2, <1>3, <1>4, <1>5, <1>6, <1>7, <1>8, <1>9 DEF IInv

(* The request has run its drop.                                           *)
LEMMA StepRefused ==
  ASSUME IInv, NEW r \in Req, Refused(r)
  PROVE  IInv'
<1> USE ConstantsAssumption
<1>1. TypeOK'
  BY TypeRequest DEF IInv, CookieInv, Request, Refused
<1>2. CookieInv'
  BY DEF IInv, CookieInv, Task, Refused, Goto, TypeOK, TaskType, storeVars, dropVars, poolVars, runVars, worldVars, taskVars, sweepVars
<1>3. OwnerInv'
  BY DEF IInv, OwnerInv, Refused, Goto, TypeOK, TaskType, storeVars, dropVars, poolVars, runVars, worldVars, taskVars, sweepVars
<1>4. JobInv'
  BY DEF IInv, JobInv, At, Task, Refused, Goto, TypeOK, TaskType, storeVars, dropVars, poolVars, runVars, worldVars, taskVars, sweepVars
<1>5. LoginInv'
  BY DEF IInv, LoginInv, LoginOk, Sole, Task, Refused, Goto, TypeOK, TaskType, storeVars, dropVars, poolVars, runVars, worldVars, taskVars, sweepVars
<1>6. StoredInv'
  BY DEF IInv, StoredInv, Sole, Task, Refused, Goto, TypeOK, TaskType, storeVars, dropVars, poolVars, runVars, worldVars, taskVars, sweepVars
<1>7. DropInv'
  BY DEF IInv, DropInv, CookieInv, Task, Refused, Goto, TypeOK, TaskType, storeVars, dropVars, poolVars, runVars, worldVars, taskVars, sweepVars
<1>8. ClosingInv'
  BY DEF IInv, ClosingInv, Handled, LoginEnds, Refused, Goto, TypeOK, TaskType, storeVars, dropVars, poolVars, runVars, worldVars, taskVars, sweepVars
<1>9. WriteInv'
  BY DEF IInv, WriteInv, WriteOk, At, Task, Refused, Goto, TypeOK, TaskType, storeVars, dropVars, poolVars, runVars, worldVars, taskVars, sweepVars
<1> QED BY <1>1, <1>2, <1>3, <1>4, <1>5, <1>6, <1>7, <1>8, <1>9 DEF IInv

(* A request refreshes last_seen.                                          *)
LEMMA StepTouch ==
  ASSUME IInv, NEW r \in Req, Touch(r)
  PROVE  IInv'
<1> USE ConstantsAssumption
<1>1. TypeOK'
  BY TypeRequest DEF IInv, CookieInv, Request, Touch
<1>2. CookieInv'
  BY DEF IInv, CookieInv, Task, Touch, Goto, TypeOK, TaskType, StoreType, storeVars, dropVars, poolVars, runVars, worldVars, taskVars, sweepVars
<1>3. OwnerInv'
  BY DEF IInv, OwnerInv, Touch, Goto, TypeOK, TaskType, StoreType, storeVars, dropVars, poolVars, runVars, worldVars, taskVars, sweepVars
<1>4. JobInv'
  BY DEF IInv, JobInv, At, Task, Touch, Goto, TypeOK, TaskType, StoreType, storeVars, dropVars, poolVars, runVars, worldVars, taskVars, sweepVars
<1>5. LoginInv'
  BY DEF IInv, LoginInv, LoginOk, Sole, Task, Touch, Goto, TypeOK, TaskType, StoreType, storeVars, dropVars, poolVars, runVars, worldVars, taskVars, sweepVars
<1>6. StoredInv'
  BY DEF IInv, StoredInv, Sole, Task, Touch, Goto, TypeOK, TaskType, StoreType, storeVars, dropVars, poolVars, runVars, worldVars, taskVars, sweepVars
<1>7. DropInv'
  BY DEF IInv, DropInv, Task, Touch, Goto, TypeOK, TaskType, StoreType, storeVars, dropVars, poolVars, runVars, worldVars, taskVars, sweepVars
<1>8. ClosingInv'
  BY DEF IInv, ClosingInv, Handled, LoginEnds, Touch, Goto, TypeOK, TaskType, StoreType, storeVars, dropVars, poolVars, runVars, worldVars, taskVars, sweepVars
<1>9. WriteInv'
  BY DEF IInv, WriteInv, WriteOk, At, Task, Touch, Goto, TypeOK, TaskType, StoreType, storeVars, dropVars, poolVars, runVars, worldVars, taskVars, sweepVars
<1> QED BY <1>1, <1>2, <1>3, <1>4, <1>5, <1>6, <1>7, <1>8, <1>9 DEF IInv

(* A request looks its worker up.                                          *)
LEMMA StepGetWorker ==
  ASSUME IInv, NEW r \in Req, GetWorker(r)
  PROVE  IInv'
<1> USE ConstantsAssumption
<1>1. TypeOK'
  BY TypeRequest DEF IInv, CookieInv, Request, GetWorker
<1>f. /\ pc[r] = "found" /\ UNCHANGED <<answer, sessions, clock, workers, owner, closed, shut, queue, phase, conn, ccache, applied, cookie, drop, dropper, victim, stale, mode>>
      /\ \E to \in {"have", "done", "make"} : pc' = [pc EXCEPT ![r] = to]
  BY DEF GetWorker, Goto, storeVars, dropVars, poolVars, runVars, worldVars, taskVars, sweepVars
<1>2. CookieInv'
  BY <1>1 DEF IInv, CookieInv, Task, GetWorker, Goto, TypeOK, TaskType, PoolType, StoredInv, Sole, OwnerInv, storeVars, poolVars
<1>3. OwnerInv'
  BY <1>f DEF IInv, OwnerInv, TypeOK, TaskType, storeVars, dropVars, poolVars, runVars, worldVars, taskVars, sweepVars
<1>4. JobInv'
  BY <1>f DEF IInv, JobInv, At, Task, TypeOK, TaskType, storeVars, dropVars, poolVars, runVars, worldVars, taskVars, sweepVars
<1>5. LoginInv'
  BY <1>f DEF IInv, LoginInv, LoginOk, Sole, Task, TypeOK, TaskType, storeVars, dropVars, poolVars, runVars, worldVars, taskVars, sweepVars
<1>6. StoredInv'
  BY <1>f DEF IInv, StoredInv, Sole, Task, TypeOK, TaskType, storeVars, dropVars, poolVars, runVars, worldVars, taskVars, sweepVars
<1>7. DropInv'
  BY <1>f DEF IInv, DropInv, Task, TypeOK, TaskType, storeVars, dropVars, poolVars, runVars, worldVars, taskVars, sweepVars
<1>8. ClosingInv'
  BY <1>f DEF IInv, ClosingInv, Handled, LoginEnds, TypeOK, TaskType, storeVars, dropVars, poolVars, runVars, worldVars, taskVars, sweepVars
<1>9. WriteInv'
  BY <1>f DEF IInv, WriteInv, WriteOk, At, Task, TypeOK, TaskType, storeVars, dropVars, poolVars, runVars, worldVars, taskVars, sweepVars
<1> QED BY <1>1, <1>2, <1>3, <1>4, <1>5, <1>6, <1>7, <1>8, <1>9 DEF IInv

(* A request makes a worker, for a session that is no longer stored.       *)
LEMMA StepMakeWorker ==
  ASSUME IInv, NEW r \in Req, MakeWorker(r)
  PROVE  IInv'
<1> USE ConstantsAssumption
<1>1. TypeOK'
  BY TypeRequest DEF IInv, CookieInv, Request, MakeWorker
<1>2. CookieInv'
  BY DEF IInv, CookieInv, Task, MakeWorker, Goto, NewWorker, Fresh, TypeOK, TaskType, PoolType, storeVars, dropVars, poolVars, runVars, worldVars, taskVars, sweepVars
<1>3. OwnerInv'
  BY DEF IInv, OwnerInv, MakeWorker, Goto, NewWorker, Fresh, TypeOK, TaskType, PoolType, storeVars, dropVars, poolVars, runVars, worldVars, taskVars, sweepVars
<1>4. JobInv'
  BY DEF IInv, JobInv, At, Task, MakeWorker, Goto, NewWorker, Fresh, TypeOK, TaskType, PoolType, storeVars, dropVars, poolVars, runVars, worldVars, taskVars, sweepVars
<1>5. LoginInv'
  BY DEF IInv, LoginInv, LoginOk, CookieInv, OwnerInv, Sole, Task, MakeWorker, Goto, NewWorker, Fresh, TypeOK, TaskType, PoolType, storeVars, dropVars, poolVars, runVars, worldVars, taskVars, sweepVars
<1>6. StoredInv'
  BY DEF IInv, StoredInv, CookieInv, Sole, Task, MakeWorker, Goto, NewWorker, Fresh, TypeOK, TaskType, PoolType, storeVars, dropVars, poolVars, runVars, worldVars, taskVars, sweepVars
<1>7. DropInv'
  BY DEF IInv, DropInv, Task, MakeWorker, Goto, NewWorker, Fresh, TypeOK, TaskType, PoolType, storeVars, dropVars, poolVars, runVars, worldVars, taskVars, sweepVars
<1>8. ClosingInv'
  BY DEF IInv, ClosingInv, Handled, LoginEnds, MakeWorker, Goto, NewWorker, Fresh, TypeOK, TaskType, PoolType, storeVars, dropVars, poolVars, runVars, worldVars, taskVars, sweepVars
<1>9. WriteInv'
  BY DEF IInv, WriteInv, WriteOk, At, Task, MakeWorker, Goto, NewWorker, Fresh, TypeOK, TaskType, PoolType, storeVars, dropVars, poolVars, runVars, worldVars, taskVars, sweepVars
<1> QED BY <1>1, <1>2, <1>3, <1>4, <1>5, <1>6, <1>7, <1>8, <1>9 DEF IInv

(* A request reads _closed.                                                *)
LEMMA StepRunCheck ==
  ASSUME IInv, NEW r \in Req, RunCheck(r)
  PROVE  IInv'
<1> USE ConstantsAssumption
<1>1. TypeOK'
  BY TypeRequest DEF IInv, CookieInv, Request, RunCheck
<1>2. CookieInv'
  BY DEF IInv, CookieInv, Task, RunCheck, Goto, TypeOK, TaskType, PoolType, storeVars, dropVars, poolVars, runVars, worldVars, taskVars, sweepVars
<1>3. OwnerInv'
  BY DEF IInv, OwnerInv, RunCheck, Goto, TypeOK, TaskType, PoolType, storeVars, dropVars, poolVars, runVars, worldVars, taskVars, sweepVars
<1>4. JobInv'
  BY DEF IInv, JobInv, At, Task, RunCheck, Goto, TypeOK, TaskType, PoolType, storeVars, dropVars, poolVars, runVars, worldVars, taskVars, sweepVars
<1>5. LoginInv'
  BY DEF IInv, LoginInv, LoginOk, Sole, Task, RunCheck, Goto, TypeOK, TaskType, PoolType, storeVars, dropVars, poolVars, runVars, worldVars, taskVars, sweepVars
<1>6. StoredInv'
  BY DEF IInv, StoredInv, Sole, Task, RunCheck, Goto, TypeOK, TaskType, PoolType, storeVars, dropVars, poolVars, runVars, worldVars, taskVars, sweepVars
<1>7. DropInv'
  BY DEF IInv, DropInv, Task, RunCheck, Goto, TypeOK, TaskType, PoolType, storeVars, dropVars, poolVars, runVars, worldVars, taskVars, sweepVars
<1>8. ClosingInv'
  BY DEF IInv, ClosingInv, Handled, LoginEnds, RunCheck, Goto, TypeOK, TaskType, PoolType, storeVars, dropVars, poolVars, runVars, worldVars, taskVars, sweepVars
<1>9. WriteInv'
  BY DEF IInv, WriteInv, WriteOk, At, Task, RunCheck, Goto, TypeOK, TaskType, PoolType, storeVars, dropVars, poolVars, runVars, worldVars, taskVars, sweepVars
<1> QED BY <1>1, <1>2, <1>3, <1>4, <1>5, <1>6, <1>7, <1>8, <1>9 DEF IInv

(* A request ends.                                                         *)
LEMMA StepAnswered ==
  ASSUME IInv, NEW r \in Req, Answered(r)
  PROVE  IInv'
<1> USE ConstantsAssumption
<1>1. TypeOK'
  BY TypeRequest DEF IInv, CookieInv, Request, Answered
<1>2. CookieInv'
  BY DEF IInv, CookieInv, Task, Answered, Goto, TypeOK, TaskType, storeVars, dropVars, poolVars, runVars, worldVars, taskVars, sweepVars
<1>3. OwnerInv'
  BY DEF IInv, OwnerInv, Answered, Goto, TypeOK, TaskType, storeVars, dropVars, poolVars, runVars, worldVars, taskVars, sweepVars
<1>4. JobInv'
  BY DEF IInv, JobInv, At, Task, Answered, Goto, TypeOK, TaskType, storeVars, dropVars, poolVars, runVars, worldVars, taskVars, sweepVars
<1>5. LoginInv'
  BY DEF IInv, LoginInv, LoginOk, Sole, Task, Answered, Goto, TypeOK, TaskType, storeVars, dropVars, poolVars, runVars, worldVars, taskVars, sweepVars
<1>6. StoredInv'
  BY DEF IInv, StoredInv, Sole, Task, Answered, Goto, TypeOK, TaskType, storeVars, dropVars, poolVars, runVars, worldVars, taskVars, sweepVars
<1>7. DropInv'
  BY DEF IInv, DropInv, Task, Answered, Goto, TypeOK, TaskType, storeVars, dropVars, poolVars, runVars, worldVars, taskVars, sweepVars
<1>8. ClosingInv'
  BY DEF IInv, ClosingInv, Handled, LoginEnds, Answered, Goto, TypeOK, TaskType, storeVars, dropVars, poolVars, runVars, worldVars, taskVars, sweepVars
<1>9. WriteInv'
  BY DEF IInv, WriteInv, WriteOk, At, Task, Answered, Goto, TypeOK, TaskType, storeVars, dropVars, poolVars, runVars, worldVars, taskVars, sweepVars
<1> QED BY <1>1, <1>2, <1>3, <1>4, <1>5, <1>6, <1>7, <1>8, <1>9 DEF IInv

(* A request's call is queued, for the first and only time.                *)
LEMMA StepRunSubmit ==
  ASSUME IInv, NEW r \in Req, RunSubmit(r), hand[r] \notin shut
  PROVE  IInv'
<1> USE ConstantsAssumption
<1>1. TypeOK'
  BY TypeRequest DEF IInv, CookieInv, Request, RunSubmit
<1>w. PICK w \in Thread : w = hand[r] /\ Call("op", r) \in Job /\ Submit(w, Call("op", r))
  BY CallType, ConstantsAssumption DEF RunSubmit, IInv, CookieInv, TypeOK, TaskType, Task
<1>b. \A v \in Thread :
        /\ Len(queue'[v]) = IF v = w THEN Len(queue[v]) + 1 ELSE Len(queue[v])
        /\ queue'[w] # <<>> /\ (v # w => queue'[v] = queue[v])
        /\ \A i \in Nat : At(v, i)' =>
             \/ At(v, i) /\ queue'[v][i] = queue[v][i]
             \/ v = w /\ i = Len(queue[w]) + 1 /\ queue'[v][i] = Call("op", r)
  BY <1>w, SubmitJobs DEF IInv, TypeOK
<1>f. /\ pc[r] = "submit" /\ pc'[r] = "wait" /\ \A t \in Task : t # r => pc'[t] = pc[t]
      /\ \A x \in Sid : pc'[x] = pc[x]
      /\ UNCHANGED <<sessions, workers, owner, closed, shut, ccache, cookie, hand, drop, dropper>>
  BY DEF IInv, TypeOK, TaskType, Task, RunSubmit, Goto, storeVars, dropVars, poolVars, runVars, worldVars, taskVars, sweepVars
<1>2. CookieInv'
  BY DEF IInv, CookieInv, Task, RunSubmit, Goto, TypeOK, TaskType, PoolType, RunType, storeVars, dropVars, poolVars, runVars, worldVars, taskVars, sweepVars
<1>3. OwnerInv'
  BY <1>w, <1>b DEF IInv, OwnerInv, CookieInv, RunSubmit, Goto, TypeOK, TaskType, PoolType, RunType, storeVars, dropVars, poolVars, runVars, worldVars, taskVars, sweepVars
<1>4. JobInv'
  <2> SUFFICES ASSUME NEW v \in Thread, NEW i \in Nat, At(v, i)'
               PROVE  /\ queue'[v][i].task \in Sid => owner[v] = queue'[v][i].task
                      /\ queue'[v][i].kind = "kinit" =>
                           owner[v] # None /\ pc'[owner[v]] \in {"kinit", "failed"}
    BY <1>f DEF JobInv
  <2>1. CASE At(v, i) /\ queue'[v][i] = queue[v][i]
    BY <1>f, <2>1 DEF IInv, JobInv, TypeOK, PoolType
  <2>2. CASE v = w /\ queue'[v][i] = Call("op", r)
    BY <2>2, <1>w DEF Call
  <2> QED BY <1>b, <2>1, <2>2
<1>5. LoginInv'
  <2>1. \A x \in Sid : pc[x] \in {"resolve", "kinit"} => queue'[workers[x]] = queue[workers[x]]
    BY <1>w, <1>b DEF IInv, CookieInv, LoginInv, LoginOk, OwnerInv, Sole, RunSubmit
  <2>2. \A x \in Sid : pc'[x] = pc[x]
    BY DEF IInv, TypeOK, TaskType, Task, RunSubmit, Goto
  <2> QED BY <2>1, <2>2 DEF IInv, LoginInv, LoginOk, Sole, RunSubmit, storeVars, dropVars, poolVars, runVars, worldVars, taskVars, sweepVars
<1>6. StoredInv'
  BY <1>f DEF IInv, StoredInv, Sole, TypeOK, StoreType
<1>7. DropInv'
  BY <1>f DEF IInv, DropInv, TypeOK, DropType, TaskType, CookieInv, Task
<1>8. ClosingInv'
  BY DEF IInv, ClosingInv, Handled, LoginEnds, RunSubmit, Goto, TypeOK, TaskType, PoolType, RunType, storeVars, dropVars, poolVars, runVars, worldVars, taskVars, sweepVars
<1>9. WriteInv'
  <2>1. /\ applied' = applied /\ pc[r] = "submit" /\ pc'[r] = "wait"
        /\ \A x \in Writes : x # r => pc'[x] = pc[x]
    BY DEF IInv, TypeOK, TaskType, Task, RunSubmit, Goto, storeVars, dropVars, poolVars, runVars, worldVars, taskVars, sweepVars
  <2>2. \A x \in Writes, v \in Thread, i \in Nat : At(v, i)' /\ queue'[v][i].task = x =>
          \/ x # r /\ At(v, i) /\ queue[v][i].task = x
          \/ x = r /\ v = w /\ i = Len(queue[w]) + 1
    BY <1>b, <2>1 DEF Call, IInv, WriteInv, WriteOk
  <2>3. r \in Writes => applied[r] = 0
    BY <2>1 DEF IInv, WriteInv, WriteOk
  <2> QED BY <2>1, <2>2, <2>3 DEF IInv, WriteInv, WriteOk
<1> QED BY <1>1, <1>2, <1>3, <1>4, <1>5, <1>6, <1>7, <1>8, <1>9 DEF IInv

(* A shut pool refuses the call.                                           *)
LEMMA StepRunRefused ==
  ASSUME IInv, NEW r \in Req, RunSubmit(r), hand[r] \in shut
  PROVE  IInv'
<1> USE ConstantsAssumption
<1>1. TypeOK'
  BY TypeRequest DEF IInv, CookieInv, Request, RunSubmit
<1>f. pc[r] = "submit" /\ pc' = [pc EXCEPT ![r] = "done"] /\ UNCHANGED <<answer, hand, sessions, clock, workers, owner, closed, shut, queue, phase, conn, ccache, applied, cookie, drop, dropper, victim, stale, mode>>
  BY DEF RunSubmit, Goto, storeVars, dropVars, poolVars, runVars, worldVars, taskVars, sweepVars
<1>2. CookieInv'
  BY <1>f DEF IInv, CookieInv, Task, TypeOK, TaskType, storeVars, dropVars, poolVars, runVars, worldVars, taskVars, sweepVars
<1>3. OwnerInv'
  BY <1>f DEF IInv, OwnerInv, TypeOK, TaskType, storeVars, dropVars, poolVars, runVars, worldVars, taskVars, sweepVars
<1>4. JobInv'
  BY <1>f DEF IInv, JobInv, At, Task, TypeOK, TaskType, storeVars, dropVars, poolVars, runVars, worldVars, taskVars, sweepVars
<1>5. LoginInv'
  BY <1>f DEF IInv, LoginInv, LoginOk, Sole, Task, TypeOK, TaskType, storeVars, dropVars, poolVars, runVars, worldVars, taskVars, sweepVars
<1>6. StoredInv'
  BY <1>f DEF IInv, StoredInv, Sole, Task, TypeOK, TaskType, storeVars, dropVars, poolVars, runVars, worldVars, taskVars, sweepVars
<1>7. DropInv'
  BY <1>f DEF IInv, DropInv, Task, TypeOK, TaskType, storeVars, dropVars, poolVars, runVars, worldVars, taskVars, sweepVars
<1>8. ClosingInv'
  BY <1>f DEF IInv, ClosingInv, Handled, LoginEnds, TypeOK, TaskType, storeVars, dropVars, poolVars, runVars, worldVars, taskVars, sweepVars
<1>9. WriteInv'
  BY <1>f DEF IInv, WriteInv, WriteOk, At, Task, TypeOK, TaskType, storeVars, dropVars, poolVars, runVars, worldVars, taskVars, sweepVars
<1> QED BY <1>1, <1>2, <1>3, <1>4, <1>5, <1>6, <1>7, <1>8, <1>9 DEF IInv

(* With the registry full nothing is made.                                 *)
LEMMA StepRefusedLogin ==
  ASSUME IInv, NEW s \in Sid, LoginStart(s), Full
  PROVE  IInv'
<1> USE ConstantsAssumption
<1>1. TypeOK'
  BY TypeLoginStart DEF IInv
<1>f. pc[s] = "new" /\ pc' = [pc EXCEPT ![s] = "refused"] /\ UNCHANGED <<answer, hand, sessions, clock, workers, owner, closed, shut, queue, phase, conn, ccache, applied, cookie, drop, dropper, victim, stale, mode>>
  BY DEF LoginStart, Goto, storeVars, dropVars, poolVars, runVars, worldVars, taskVars, sweepVars
<1>2. CookieInv'
  BY <1>f DEF IInv, CookieInv, Task, TypeOK, TaskType, storeVars, dropVars, poolVars, runVars, worldVars, taskVars, sweepVars
<1>3. OwnerInv'
  BY <1>f DEF IInv, OwnerInv, TypeOK, TaskType, storeVars, dropVars, poolVars, runVars, worldVars, taskVars, sweepVars
<1>4. JobInv'
  BY <1>f DEF IInv, JobInv, At, Task, TypeOK, TaskType, storeVars, dropVars, poolVars, runVars, worldVars, taskVars, sweepVars
<1>5. LoginInv'
  BY <1>f DEF IInv, LoginInv, LoginOk, Sole, Task, TypeOK, TaskType, storeVars, dropVars, poolVars, runVars, worldVars, taskVars, sweepVars
<1>6. StoredInv'
  BY <1>f DEF IInv, StoredInv, Sole, Task, TypeOK, TaskType, storeVars, dropVars, poolVars, runVars, worldVars, taskVars, sweepVars
<1>7. DropInv'
  BY <1>f DEF IInv, DropInv, Task, TypeOK, TaskType, storeVars, dropVars, poolVars, runVars, worldVars, taskVars, sweepVars
<1>8. ClosingInv'
  BY <1>f DEF IInv, ClosingInv, Handled, LoginEnds, TypeOK, TaskType, storeVars, dropVars, poolVars, runVars, worldVars, taskVars, sweepVars
<1>9. WriteInv'
  BY <1>f DEF IInv, WriteInv, WriteOk, At, Task, TypeOK, TaskType, storeVars, dropVars, poolVars, runVars, worldVars, taskVars, sweepVars
<1> QED BY <1>1, <1>2, <1>3, <1>4, <1>5, <1>6, <1>7, <1>8, <1>9 DEF IInv

(* A refused user name ends the sign-in where it stands.                   *)
LEMMA StepBadName ==
  ASSUME IInv, NEW s \in Sid, Resolved(s), s \in BadName
  PROVE  IInv'
<1> USE ConstantsAssumption
<1>0. workers[s] # None
  BY DEF IInv, LoginInv, LoginOk, Sole, Resolved
<1>1. TypeOK'
  BY <1>0, TypeResolved DEF IInv
<1>f. pc[s] = "resolve" /\ pc' = [pc EXCEPT ![s] = "failed"] /\ UNCHANGED <<answer, hand, sessions, clock, workers, owner, closed, shut, queue, phase, conn, ccache, applied, cookie, drop, dropper, victim, stale, mode>>
  BY DEF Resolved, Goto, storeVars, dropVars, poolVars, runVars, worldVars, taskVars, sweepVars
<1>2. CookieInv'
  BY <1>f DEF IInv, CookieInv, Task, TypeOK, TaskType, storeVars, dropVars, poolVars, runVars, worldVars, taskVars, sweepVars
<1>3. OwnerInv'
  BY <1>f DEF IInv, OwnerInv, TypeOK, TaskType, storeVars, dropVars, poolVars, runVars, worldVars, taskVars, sweepVars
<1>4. JobInv'
  BY <1>f DEF IInv, JobInv, At, Task, TypeOK, TaskType, storeVars, dropVars, poolVars, runVars, worldVars, taskVars, sweepVars
<1>5. LoginInv'
  BY <1>f DEF IInv, LoginInv, LoginOk, Sole, Task, TypeOK, TaskType, storeVars, dropVars, poolVars, runVars, worldVars, taskVars, sweepVars
<1>6. StoredInv'
  BY <1>f DEF IInv, StoredInv, Sole, Task, TypeOK, TaskType, storeVars, dropVars, poolVars, runVars, worldVars, taskVars, sweepVars
<1>7. DropInv'
  BY <1>f DEF IInv, DropInv, Task, TypeOK, TaskType, storeVars, dropVars, poolVars, runVars, worldVars, taskVars, sweepVars
<1>8. ClosingInv'
  BY <1>f DEF IInv, ClosingInv, Handled, LoginEnds, TypeOK, TaskType, storeVars, dropVars, poolVars, runVars, worldVars, taskVars, sweepVars
<1>9. WriteInv'
  BY <1>f DEF IInv, WriteInv, WriteOk, At, Task, TypeOK, TaskType, storeVars, dropVars, poolVars, runVars, worldVars, taskVars, sweepVars
<1> QED BY <1>1, <1>2, <1>3, <1>4, <1>5, <1>6, <1>7, <1>8, <1>9 DEF IInv

(* A throttled sign-in closes its worker.                                  *)
LEMMA StepThrottled ==
  ASSUME IInv, NEW s \in Sid, Resolved(s), Goto(s, "throttled"), CloseWorker(s), UNCHANGED answer
  PROVE  IInv'
<1> USE ConstantsAssumption
<1>0. workers[s] # None /\ s \notin sessions
  BY DEF IInv, LoginInv, LoginOk, Sole, Resolved
<1>1. TypeOK'
  BY <1>0, TypeResolved DEF IInv
<1>f. /\ pc[s] = "resolve" /\ pc'[s] = "throttled" /\ \A t \in Task : t # s => pc'[t] = pc[t]
      /\ UNCHANGED <<sessions, owner, ccache, applied, answer, cookie, hand, drop, dropper, victim, mode, stale>>
  BY DEF IInv, TypeOK, TaskType, Task, Resolved, CloseWorker, Goto, storeVars, dropVars, poolVars, runVars, worldVars, taskVars, sweepVars
<1>w. PICK w \in Thread : w = workers[s] /\ Call("cleanup", None) \in Job /\ Submit(w, Call("cleanup", None))
  BY CallType, ConstantsAssumption DEF CloseWorker, IInv, LoginInv, LoginOk, Sole, Task, Resolved
<1>b. \A v \in Thread :
        /\ Len(queue'[v]) = IF v = w THEN Len(queue[v]) + 1 ELSE Len(queue[v])
        /\ queue'[w] # <<>> /\ (v # w => queue'[v] = queue[v])
        /\ \A i \in Nat : At(v, i)' =>
             \/ At(v, i) /\ queue'[v][i] = queue[v][i]
             \/ v = w /\ i = Len(queue[w]) + 1 /\ queue'[v][i] = Call("cleanup", None)
  BY <1>w, SubmitJobs DEF IInv, TypeOK
<1>2. CookieInv'
  BY <1>f DEF IInv, CookieInv, Task, TypeOK, TaskType
<1>3. OwnerInv'
  <2>1. owner[w] = s /\ closed' \cup shut' \subseteq closed \cup shut \cup {w}
    BY <1>0, <1>w DEF IInv, OwnerInv, CloseWorker
  <2>2. \A x \in Sid : workers'[x] # None => workers'[x] = workers[x]
    BY DEF IInv, TypeOK, PoolType, CloseWorker
  <2>3. \A v \in Thread : queue'[v] # <<>> => queue[v] # <<>> \/ v = w
    BY <1>b
  <2> QED BY <1>f, <2>1, <2>2, <2>3 DEF IInv, OwnerInv
<1>4. JobInv'
  <2> SUFFICES ASSUME NEW v \in Thread, NEW i \in Nat, At(v, i)'
               PROVE  /\ queue'[v][i].task \in Sid => owner[v] = queue'[v][i].task
                      /\ queue'[v][i].kind = "kinit" =>
                           owner[v] # None /\ pc'[owner[v]] \in {"kinit", "failed"}
    BY <1>f DEF JobInv
  <2>1. CASE At(v, i) /\ queue'[v][i] = queue[v][i]
    BY <1>f, <2>1 DEF IInv, JobInv, TypeOK, PoolType, Task
  <2>2. CASE v = w /\ queue'[v][i] = Call("cleanup", None)
    BY <2>2, <1>w DEF Call
  <2> QED BY <1>b, <2>1, <2>2
<1>5. LoginInv'
  <2> SUFFICES ASSUME NEW x \in Sid
               PROVE  LoginOk(x)'
    BY DEF LoginInv, LoginOk
  <2>1. CASE x = s
    BY <1>f, <2>1 DEF LoginOk
  <2>2. CASE x # s
    <3>1. pc'[x] = pc[x] /\ workers'[x] = workers[x]
      BY <1>f, <2>2 DEF IInv, TypeOK, PoolType, CloseWorker, Task
    <3>2. pc[x] \in {"resolve", "kinit"} => workers[x] # w /\ queue'[workers[x]] = queue[workers[x]]
      BY <1>0, <1>w, <1>b, <2>2 DEF IInv, OwnerInv, LoginInv, LoginOk, Sole
    <3>3. Sole(x, workers[x]) /\ workers[x] # w => Sole(x, workers[x])'
      BY <1>f, <1>w, <3>1 DEF Sole, CloseWorker
    <3> QED BY <1>f, <3>1, <3>2, <3>3 DEF IInv, LoginInv, LoginOk
  <2> QED BY <2>1, <2>2
<1>6. StoredInv'
  <2> SUFFICES ASSUME NEW x \in Sid, x \in sessions
               PROVE  /\ pc'[x] \in {"connect", "in"} /\ drop'[x] = "no"
                      /\ ccache'[x] = "ticket" /\ Sole(x, workers[x])'
    BY <1>f DEF IInv, TypeOK, StoreType, StoredInv
  <2>1. x # s /\ workers[x] # workers[s]
    BY <1>0 DEF IInv, OwnerInv, StoredInv, Sole
  <2>2. Sole(x, workers[x]) /\ ccache[x] = "ticket" /\ pc[x] \in {"connect", "in"} /\ drop[x] = "no"
    BY DEF IInv, StoredInv
  <2>3. Sole(x, workers[x])'
    BY <1>f, <2>1, <2>2 DEF IInv, TypeOK, PoolType, Sole, CloseWorker
  <2> QED BY <1>f, <2>1, <2>2, <2>3 DEF Task
<1>7. DropInv'
  <2>1. drop[s] = "no" /\ \A x \in Sid : x # s => workers'[x] = workers[x]
    BY <1>f DEF IInv, LoginInv, LoginOk, TypeOK, PoolType, CloseWorker
  <2> QED BY <1>f, <2>1 DEF IInv, DropInv, TypeOK, DropType, CookieInv, Task
<1>8. ClosingInv'
  BY <1>f DEF IInv, ClosingInv, Handled, LoginEnds
<1>9. WriteInv'
  <2>2. \A r \in Writes, v \in Thread, i \in Nat :
          At(v, i)' /\ queue'[v][i].task = r => At(v, i) /\ queue[v][i].task = r
    BY <1>b DEF Call
  <2> QED BY <1>f, <2>2 DEF IInv, WriteInv, WriteOk, Task
<1> QED BY <1>1, <1>2, <1>3, <1>4, <1>5, <1>6, <1>7, <1>8, <1>9 DEF IInv

(* The ticket is asked for on the sign-in's idle thread.                   *)
LEMMA StepAskTicket ==
  ASSUME IInv, NEW s \in Sid, Resolved(s), Goto(s, "kinit"), Submit(workers[s], Call("kinit", s)), UNCHANGED poolVars
  PROVE  IInv'
<1> USE ConstantsAssumption
<1>0. /\ workers[s] # None /\ owner[workers[s]] = s /\ s \notin sessions
      /\ Sole(s, workers[s]) /\ queue[workers[s]] = <<>> /\ drop[s] = "no"
  BY DEF IInv, LoginInv, LoginOk, OwnerInv, Sole, Resolved
<1>1. TypeOK'
  BY <1>0, TypeResolved DEF IInv
<1>f. /\ pc[s] = "resolve" /\ pc'[s] = "kinit" /\ \A t \in Task : t # s => pc'[t] = pc[t]
      /\ answer'[s] = "none" /\ \A t \in Task : t # s => answer'[t] = answer[t]
      /\ UNCHANGED <<sessions, workers, owner, closed, shut, ccache, applied, cookie, hand, drop, dropper, victim, mode, stale>>
  BY DEF IInv, TypeOK, TaskType, Task, Resolved, CloseWorker, Goto, storeVars, dropVars, poolVars, runVars, worldVars, taskVars, sweepVars
<1>w. PICK w \in Thread : w = workers[s] /\ Call("kinit", s) \in Job /\ Submit(w, Call("kinit", s))
  BY CallType, ConstantsAssumption, <1>0 DEF Sole, Task
<1>b. \A v \in Thread :
        /\ Len(queue'[v]) = IF v = w THEN Len(queue[v]) + 1 ELSE Len(queue[v])
        /\ queue'[w] # <<>> /\ (v # w => queue'[v] = queue[v])
        /\ \A i \in Nat : At(v, i)' =>
             \/ At(v, i) /\ queue'[v][i] = queue[v][i]
             \/ v = w /\ i = Len(queue[w]) + 1 /\ queue'[v][i] = Call("kinit", s)
  BY <1>w, SubmitJobs DEF IInv, TypeOK
<1>2. CookieInv'
  BY <1>f DEF IInv, CookieInv, Task, TypeOK, TaskType
<1>3. OwnerInv'
  BY <1>0, <1>f, <1>w, <1>b DEF IInv, OwnerInv
<1>4. JobInv'
  <2> SUFFICES ASSUME NEW v \in Thread, NEW i \in Nat, At(v, i)'
               PROVE  /\ queue'[v][i].task \in Sid => owner'[v] = queue'[v][i].task
                      /\ queue'[v][i].kind = "kinit" =>
                           owner'[v] # None /\ pc'[owner'[v]] \in {"kinit", "failed"}
    BY DEF JobInv
  <2>1. CASE At(v, i) /\ queue'[v][i] = queue[v][i]
    BY <1>f, <2>1 DEF IInv, JobInv, TypeOK, PoolType, Task
  <2>2. CASE v = w /\ queue'[v][i] = Call("kinit", s)
    BY <1>0, <1>f, <2>2, <1>w DEF Call
  <2> QED BY <1>b, <2>1, <2>2
<1>5. LoginInv'
  <2> SUFFICES ASSUME NEW x \in Sid
               PROVE  LoginOk(x)'
    BY DEF LoginInv, LoginOk
  <2>1. CASE x = s
    <3>1. Len(queue'[w]) = Len(queue[w]) + 1 /\ queue[w] = <<>> /\ Len(<<>>) = 0
      BY <1>0, <1>w, <1>b
    <3>2. queue'[w][1] = Call("kinit", s)
      BY <1>b, <3>1 DEF At
    <3> QED BY <1>0, <1>f, <1>w, <2>1, <3>1, <3>2 DEF LoginOk, Sole, Call
  <2>2. CASE x # s
    <3>1. pc[x] \in {"resolve", "kinit"} => queue'[workers[x]] = queue[workers[x]]
      BY <1>0, <1>w, <1>b, <2>2 DEF IInv, OwnerInv, LoginInv, LoginOk, Sole
    <3> QED BY <1>f, <2>2, <3>1 DEF IInv, LoginInv, LoginOk, Sole, Task
  <2> QED BY <2>1, <2>2
<1>6. StoredInv'
  BY <1>0, <1>f DEF IInv, StoredInv, Sole, Task, TypeOK, StoreType
<1>7. DropInv'
  BY <1>0, <1>f DEF IInv, DropInv, TypeOK, DropType, CookieInv, Task
<1>8. ClosingInv'
  BY <1>f DEF IInv, ClosingInv, Handled, LoginEnds
<1>9. WriteInv'
  <2>2. \A r \in Writes, v \in Thread, i \in Nat :
          At(v, i)' /\ queue'[v][i].task = r => At(v, i) /\ queue[v][i].task = r
    BY <1>b DEF Call
  <2> QED BY <1>f, <2>2 DEF IInv, WriteInv, WriteOk, Task
<1> QED BY <1>1, <1>2, <1>3, <1>4, <1>5, <1>6, <1>7, <1>8, <1>9 DEF IInv

(* A sign-in takes a thread nobody has used.                               *)
LEMMA StepLoginRoom ==
  ASSUME IInv, NEW s \in Sid, LoginStart(s), ~Full
  PROVE  IInv'
<1> USE ConstantsAssumption
<1>1. TypeOK'
  BY TypeLoginStart DEF IInv
<1>w. PICK w \in Thread : NewWorker(s, w) /\ Call("resolve", s) \in Job /\ Submit(w, Call("resolve", s))
  BY CallType, ConstantsAssumption DEF LoginStart, Task
<1>b. \A v \in Thread :
        /\ Len(queue'[v]) = IF v = w THEN Len(queue[v]) + 1 ELSE Len(queue[v])
        /\ queue'[w] # <<>> /\ (v # w => queue'[v] = queue[v])
        /\ \A i \in Nat : At(v, i)' =>
             \/ At(v, i) /\ queue'[v][i] = queue[v][i]
             \/ v = w /\ i = Len(queue[w]) + 1 /\ queue'[v][i] = Call("resolve", s)
  BY <1>w, SubmitJobs DEF IInv, TypeOK
<1>f. /\ pc[s] = "new" /\ pc'[s] = "resolve" /\ \A t \in Task : t # s => pc'[t] = pc[t]
      /\ UNCHANGED <<sessions, closed, shut, answer, ccache, applied, cookie, hand, drop, dropper, victim, mode, stale>>
      /\ mode = "up"
  BY DEF IInv, TypeOK, TaskType, Task, LoginStart, Goto, storeVars, dropVars, poolVars, runVars, worldVars, taskVars, sweepVars
<1>g. /\ owner[w] = None /\ owner'[w] = s /\ \A v \in Thread : v # w => owner'[v] = owner[v]
      /\ workers'[s] = w /\ \A x \in Sid : x # s => workers'[x] = workers[x]
  BY <1>w DEF IInv, TypeOK, PoolType, NewWorker, Fresh
<1>h. /\ queue[w] = <<>> /\ s \notin sessions /\ drop[s] = "no" /\ \A v \in Thread : owner[v] # s
  BY <1>f, <1>g DEF IInv, OwnerInv, LoginInv, LoginOk
<1>2. CookieInv'
  BY <1>f, <1>g DEF IInv, CookieInv, OwnerInv, Task, TypeOK, TaskType
<1>3. OwnerInv'
  BY <1>b, <1>f, <1>g, <1>h DEF IInv, OwnerInv, TypeOK, PoolType, DropType
<1>4. JobInv'
  <2> SUFFICES ASSUME NEW v \in Thread, NEW i \in Nat, At(v, i)'
               PROVE  /\ queue'[v][i].task \in Sid => owner'[v] = queue'[v][i].task
                      /\ queue'[v][i].kind = "kinit" =>
                           owner'[v] # None /\ pc'[owner'[v]] \in {"kinit", "failed"}
    BY DEF JobInv
  <2>1. CASE v # w /\ At(v, i) /\ queue'[v][i] = queue[v][i]
    BY <1>f, <1>g, <1>h, <2>1 DEF IInv, JobInv, TypeOK, PoolType, Task
  <2>2. CASE v = w /\ queue'[v][i] = Call("resolve", s)
    BY <1>g, <2>2 DEF Call
  <2> QED BY <1>b, <1>h, <2>1, <2>2 DEF At
<1>5. LoginInv'
  <2> SUFFICES ASSUME NEW x \in Sid
               PROVE  LoginOk(x)'
    BY DEF LoginInv, LoginOk
  <2>1. CASE x = s
    <3>1. w \notin closed \cup shut
      BY <1>g, <1>w DEF IInv, OwnerInv
    <3>2. Len(queue'[w]) = Len(queue[w]) + 1 /\ queue[w] = <<>> /\ Len(<<>>) = 0
      BY <1>w, <1>b, <1>h
    <3>3. queue'[w][1] = Call("resolve", s)
      BY <1>b, <3>2 DEF At
    <3> QED BY <1>f, <1>g, <1>h, <1>w, <2>1, <3>1, <3>2, <3>3 DEF Call, IInv, LoginInv, LoginOk, Sole
  <2>2. CASE x # s
    BY <1>b, <1>f, <1>g, <1>h, <2>2 DEF IInv, LoginInv, LoginOk, Sole, OwnerInv, Task
  <2> QED BY <2>1, <2>2
<1>6. StoredInv'
  BY <1>f, <1>g, <1>h DEF IInv, StoredInv, Sole, Task, TypeOK, StoreType
<1>7. DropInv'
  BY <1>f, <1>g, <1>h DEF IInv, DropInv, TypeOK, DropType, CookieInv, Task
<1>8. ClosingInv'
  BY <1>f DEF IInv, ClosingInv
<1>9. WriteInv'
  <2>2. \A r \in Writes, v \in Thread, i \in Nat :
          At(v, i)' /\ queue'[v][i].task = r => At(v, i) /\ queue[v][i].task = r
    BY <1>b DEF Call
  <2> QED BY <1>f, <2>2 DEF IInv, WriteInv, WriteOk, Task
<1> QED BY <1>1, <1>2, <1>3, <1>4, <1>5, <1>6, <1>7, <1>8, <1>9 DEF IInv

(* A thread goes on with its call.                                         *)
LEMMA StepThreadOn ==
  ASSUME IInv, NEW w \in Thread, ThreadStep(w), UNCHANGED <<queue, answer>>
  PROVE  IInv'
<1> USE ConstantsAssumption
<1>1. TypeOK'
  BY TypeThreadStep DEF IInv, OwnerInv
<1>f. UNCHANGED <<sessions, clock, drop, dropper, victim, workers, owner, closed, shut, pc, cookie, hand, stale, mode, queue, answer>>
  BY DEF ThreadStep, storeVars, dropVars, poolVars, runVars, worldVars, taskVars, sweepVars
<1>0. queue[w] # <<>> /\ owner[w] # None /\ owner[w] \in Sid
  BY DEF IInv, TypeOK, PoolType, OwnerInv, ThreadStep, Resolve, OpenCache, FillCache, Connect, Operate, Reconnect, Cleanup, Running
<1>j. /\ At(w, 1) /\ Head(queue[w]) = queue[w][1] /\ queue[w][1] \in Job
  BY <1>0, QueueLemma DEF At, IInv, TypeOK, RunType
<1>k. queue[w][1].kind = "kinit" => pc[owner[w]] \in {"kinit", "failed"}
  BY <1>j DEF IInv, JobInv
<1>s. \A x \in Sid : pc[x] \in {"resolve", "kinit"} /\ owner[w] = x =>
        /\ w = workers[x] /\ Len(queue[w]) = 1 /\ answer[x] \in {"none", "timeout"}
        /\ queue[w][1].kind = pc[x]
  BY <1>0 DEF IInv, LoginInv, LoginOk, Sole
<1>c. \A x \in Sid : ccache'[x] # ccache[x] => x = owner[w] /\ queue[w][1].kind = "kinit"
  BY <1>j DEF IInv, TypeOK, WorldType, ThreadStep, Resolve, OpenCache, FillCache, Connect, Operate, Reconnect, Cleanup, Running, worldVars
<1>n. \A r \in Writes : applied'[r] = applied[r]
  <2>1. ~\E res \in {"ok", "error"} : Finish(w, res)
    BY <1>0, QueueLemma DEF Finish, IInv, TypeOK, RunType
  <2> QED BY <2>1 DEF ThreadStep, Resolve, OpenCache, FillCache, Connect, Operate, Reconnect, Cleanup, Running, worldVars
<1>2. CookieInv'
  BY <1>f DEF IInv, CookieInv
<1>3. OwnerInv'
  BY <1>f DEF IInv, OwnerInv
<1>4. JobInv'
  BY <1>f DEF IInv, JobInv, At
<1>5. LoginInv'
  <2>1. \A x \in Sid : pc[x] = "kinit" /\ answer[x] = "ok" => ccache'[x] = ccache[x]
    BY <1>c, <1>s
  <2> QED BY <1>f, <2>1 DEF IInv, LoginInv, LoginOk, Sole
<1>6. StoredInv'
  <2>1. \A x \in sessions : ccache'[x] = ccache[x]
    BY <1>c, <1>k DEF IInv, StoredInv, TypeOK, StoreType
  <2> QED BY <1>f, <2>1 DEF IInv, StoredInv, Sole, TypeOK, StoreType
<1>7. DropInv'
  BY <1>f DEF IInv, DropInv
<1>8. ClosingInv'
  BY <1>f DEF IInv, ClosingInv, Handled
<1>9. WriteInv'
  BY <1>f, <1>n DEF IInv, WriteInv, WriteOk, At
<1> QED BY <1>1, <1>2, <1>3, <1>4, <1>5, <1>6, <1>7, <1>8, <1>9 DEF IInv

(* A thread ends its call, and its queue moves up.                         *)
LEMMA StepThreadFinish ==
  ASSUME IInv, NEW w \in Thread, ThreadStep(w),
         NEW res \in {"ok", "error"}, Finish(w, res)
  PROVE  IInv'
<1> USE ConstantsAssumption
<1>1. TypeOK'
  BY TypeThreadStep DEF IInv, OwnerInv
<1>f. UNCHANGED <<sessions, clock, drop, dropper, victim, workers, owner, closed, shut, pc, cookie, hand, stale, mode>>
  BY DEF ThreadStep, storeVars, dropVars, poolVars, runVars, worldVars, taskVars, sweepVars
<1>0. queue[w] # <<>> /\ owner[w] # None /\ owner[w] \in Sid
  BY DEF IInv, TypeOK, PoolType, OwnerInv, ThreadStep, Resolve, OpenCache, FillCache, Connect, Operate, Reconnect, Cleanup, Running
<1>j. /\ At(w, 1) /\ Head(queue[w]) = queue[w][1] /\ queue[w][1] \in Job
  BY <1>0, QueueLemma DEF At, IInv, TypeOK, RunType
<1>k. queue[w][1].kind = "kinit" => pc[owner[w]] \in {"kinit", "failed"}
  BY <1>j DEF IInv, JobInv
<1>s. \A x \in Sid : pc[x] \in {"resolve", "kinit"} /\ owner[w] = x =>
        /\ w = workers[x] /\ Len(queue[w]) = 1 /\ answer[x] \in {"none", "timeout"}
        /\ queue[w][1].kind = pc[x]
  BY <1>0 DEF IInv, LoginInv, LoginOk, Sole
<1>c. \A x \in Sid : ccache'[x] # ccache[x] => x = owner[w] /\ queue[w][1].kind = "kinit"
  BY <1>j DEF IInv, TypeOK, WorldType, ThreadStep, Resolve, OpenCache, FillCache, Connect, Operate, Reconnect, Cleanup, Running, worldVars
<1>b. \A v \in Thread :
        /\ Len(queue'[v]) = IF v = w THEN Len(queue[v]) - 1 ELSE Len(queue[v])
        /\ v # w => queue'[v] = queue[v]
        /\ \A i \in Nat : At(v, i)' =>
             \E k \in Nat : At(v, k) /\ queue'[v][i] = queue[v][k]
                            /\ k = IF v = w THEN i + 1 ELSE i
  BY <1>0, FinishJobs DEF IInv, TypeOK
<1>a. \A x \in Task : answer'[x] # answer[x] =>
        answer[x] = "none" /\ queue[w][1].task = x /\ answer'[x] = res
  BY <1>j DEF Finish, IInv, TypeOK, TaskType
<1>o. \A x \in Sid : queue[w][1].task = x => owner[w] = x
  BY <1>j DEF IInv, JobInv
<1>2. CookieInv'
  BY <1>f DEF IInv, CookieInv
<1>3. OwnerInv'
  <2>1. \A v \in Thread : queue'[v] # <<>> => queue[v] # <<>>
    BY <1>0, <1>b
  <2> QED BY <1>f, <2>1 DEF IInv, OwnerInv
<1>4. JobInv'
  BY <1>f, <1>b DEF IInv, JobInv
<1>5. LoginInv'
  <2> SUFFICES ASSUME NEW x \in Sid
               PROVE  LoginOk(x)'
    BY DEF LoginInv, LoginOk
  <2>1. CASE owner[w] # x
    <3>1. answer'[x] = answer[x] /\ ccache'[x] = ccache[x]
      BY <1>a, <1>o, <1>c, <2>1 DEF Task
    <3>2. pc[x] \in {"resolve", "kinit"} => workers[x] # w /\ queue'[workers[x]] = queue[workers[x]]
      BY <1>b, <2>1 DEF IInv, LoginInv, LoginOk, OwnerInv, Sole
    <3> QED BY <1>f, <3>1, <3>2 DEF IInv, LoginInv, LoginOk, Sole
  <2>2. CASE owner[w] = x
    <3>1. pc[x] # "new"
      BY <2>2 DEF IInv, LoginInv, LoginOk
    <3>2. pc[x] \in {"resolve", "kinit"} => Len(queue'[w]) = 0
      <4>1. pc[x] \in {"resolve", "kinit"} => Len(queue[w]) = 1
        BY <1>s, <2>2
      <4>2. Len(queue'[w]) = Len(queue[w]) - 1
        BY <1>b
      <4> QED BY <4>1, <4>2
    <3>3. pc[x] \in {"resolve", "kinit"} => queue'[w] = <<>> /\ w = workers[x]
      BY <1>1, <1>s, <2>2, <3>2 DEF TypeOK, RunType
    <3>4. pc[x] = "kinit" /\ answer'[x] = "ok" => ccache'[x] = "ticket"
      <4> SUFFICES ASSUME pc[x] = "kinit", answer'[x] = "ok"
                   PROVE  ccache'[x] = "ticket"
        OBVIOUS
      <4>1. queue[w][1].kind = "kinit" /\ answer[x] # "ok"
        BY <1>s, <2>2
      <4>2. queue[w][1].task = x /\ res = "ok"
        BY <1>a, <4>1 DEF Task
      <4>3. Finish(w, "ok") /\ ~Finish(w, "error")
        BY <4>1, <4>2, <1>j DEF Finish, IInv, TypeOK, TaskType, Task
      <4>4. FillCache(w)
        BY <4>1, <4>3, <1>j DEF ThreadStep, Resolve, OpenCache, FillCache, Connect, Operate, Reconnect, Cleanup, Running
      <4> QED BY <2>2, <4>3, <4>4 DEF FillCache, IInv, TypeOK, WorldType
    <3> QED BY <1>f, <3>1, <3>3, <3>4 DEF IInv, LoginInv, LoginOk, Sole
  <2> QED BY <2>1, <2>2
<1>6. StoredInv'
  <2>1. \A x \in sessions : ccache'[x] = ccache[x]
    BY <1>c, <1>k DEF IInv, StoredInv, TypeOK, StoreType
  <2> QED BY <1>f, <2>1 DEF IInv, StoredInv, Sole, TypeOK, StoreType
<1>7. DropInv'
  BY <1>f DEF IInv, DropInv
<1>8. ClosingInv'
  BY <1>f DEF IInv, ClosingInv, Handled
<1>9. WriteInv'
  <2> SUFFICES ASSUME NEW r \in Writes
               PROVE  WriteOk(r)'
    BY DEF WriteInv, WriteOk
  <2>0. WriteOk(r)
    BY DEF IInv, WriteInv, WriteOk
  <2>1. applied'[r] = applied[r] \/ (queue[w][1].task = r /\ applied'[r] = applied[r] + 1)
    BY <1>j DEF IInv, TypeOK, WorldType, ThreadStep, Resolve, OpenCache, FillCache, Connect, Operate, Reconnect, Cleanup, Running, worldVars
  <2>2. CASE queue[w][1].task = r
    <3>1. applied[r] = 0 /\ pc[r] \in {"wait", "done"}
      BY <1>j, <2>0, <2>2 DEF WriteOk
    <3>2. \A v \in Thread, i \in Nat : At(v, i)' => queue'[v][i].task # r
      <4> SUFFICES ASSUME NEW v \in Thread, NEW i \in Nat, At(v, i)', queue'[v][i].task = r
                   PROVE  FALSE
        OBVIOUS
      <4>1. PICK k \in Nat : At(v, k) /\ queue'[v][i] = queue[v][k] /\ k = IF v = w THEN i + 1 ELSE i
        BY <1>b
      <4>2. v = w /\ k = 1
        BY <1>j, <2>0, <2>2, <4>1 DEF WriteOk
      <4>3. i = 0
        BY <4>1, <4>2
      <4> QED BY <4>3 DEF At
    <3> QED BY <1>f, <2>1, <3>1, <3>2 DEF WriteOk
  <2>3. CASE queue[w][1].task # r
    <3>1. applied'[r] = applied[r]
      BY <2>1, <2>3
    <3>2. ASSUME NEW v \in Thread, NEW i \in Nat, At(v, i)', queue'[v][i].task = r
          PROVE  \A u \in Thread, j \in Nat : At(u, j)' /\ queue'[u][j].task = r => u = v /\ i = j
      <4> SUFFICES ASSUME NEW u \in Thread, NEW j \in Nat, At(u, j)', queue'[u][j].task = r
                   PROVE  u = v /\ i = j
        OBVIOUS
      <4>1. PICK k \in Nat : At(v, k) /\ queue'[v][i] = queue[v][k] /\ k = IF v = w THEN i + 1 ELSE i
        BY <1>b, <3>2
      <4>2. PICK l \in Nat : At(u, l) /\ queue'[u][j] = queue[u][l] /\ l = IF u = w THEN j + 1 ELSE j
        BY <1>b
      <4>3. u = v /\ k = l
        BY <2>0, <3>2, <4>1, <4>2 DEF WriteOk
      <4> QED BY <4>1, <4>2, <4>3
    <3>3. ASSUME NEW v \in Thread, NEW i \in Nat, At(v, i)', queue'[v][i].task = r
          PROVE  applied[r] = 0 /\ pc[r] \in {"wait", "done"}
      BY <1>b, <2>0, <3>3 DEF WriteOk
    <3> QED BY <1>f, <2>0, <3>1, <3>2, <3>3 DEF WriteOk
  <2> QED BY <2>2, <2>3
<1> QED BY <1>1, <1>2, <1>3, <1>4, <1>5, <1>6, <1>7, <1>8, <1>9 DEF IInv

---------------------------------------------------------------------------
(* The inductive invariant holds at the start.                             *)
LEMMA InitIInv == Init => IInv
<1> SUFFICES ASSUME Init PROVE IInv
  OBVIOUS
<1> USE ConstantsAssumption
<1>1. TypeOK
  BY TypeInit
<1>2. \A w \in Thread, i \in Nat : ~At(w, i)
  BY DEF Init, At
<1>3. CookieInv /\ OwnerInv /\ StoredInv /\ DropInv /\ ClosingInv
  BY DEF Init, Task, CookieInv, OwnerInv, StoredInv, DropInv, ClosingInv
<1>4. JobInv
  BY <1>2 DEF JobInv
<1>5. LoginInv
  BY DEF Init, Task, LoginInv, LoginOk
<1>6. WriteInv
  BY <1>2 DEF Init, WriteInv, WriteOk
<1> QED BY <1>1, <1>3, <1>4, <1>5, <1>6 DEF IInv

(* A stuttering step preserves it.                                         *)
LEMMA StepStutter ==
  ASSUME IInv, UNCHANGED vars
  PROVE  IInv'
<1>1. UNCHANGED <<sessions, clock, drop, dropper, victim, workers, owner, closed, shut,
                  queue, phase, conn, ccache, applied, pc, answer, cookie, hand, stale, mode>>
  BY DEF vars, storeVars, dropVars, poolVars, runVars, worldVars, taskVars, sweepVars
<1>2. TypeOK'
  BY <1>1 DEF IInv, TypeOK, StoreType, DropType, PoolType, RunType, WorldType, TaskType,
     SweepType
<1>3. (CookieInv /\ OwnerInv /\ JobInv)'
  BY <1>1 DEF IInv, CookieInv, OwnerInv, JobInv, At
<1>4. (LoginInv /\ StoredInv)'
  BY <1>1 DEF IInv, LoginInv, LoginOk, StoredInv, Sole
<1>5. (DropInv /\ ClosingInv /\ WriteInv)'
  BY <1>1 DEF IInv, DropInv, ClosingInv, Handled, WriteInv, WriteOk, At
<1> QED BY <1>2, <1>3, <1>4, <1>5 DEF IInv

(* The actions with several outcomes, one step lemma per outcome.          *)
LEMMA StepLogin ==
  ASSUME IInv, NEW s \in Sid, Login(s)
  PROVE  IInv'
<1>1. CASE LoginStart(s)
  BY <1>1, StepRefusedLogin, StepLoginRoom
<1>2. CASE Resolved(s)
  <2>1. CASE s \in BadName
    BY <1>2, <2>1, StepBadName
  <2>2. CASE s \notin BadName
    <3>1. \/ Goto(s, "throttled") /\ CloseWorker(s) /\ UNCHANGED answer
          \/ Goto(s, "kinit") /\ Submit(workers[s], Call("kinit", s)) /\ UNCHANGED poolVars
      BY <1>2, <2>2 DEF Resolved
    <3> QED BY <1>2, <3>1, StepThrottled, StepAskTicket
  <2> QED BY <2>1, <2>2
<1> QED
  BY <1>1, <1>2, StepLoginFails, StepTicketed, StepSignedIn, StepConnectFails DEF Login

(* Every step of a request.                                                *)
LEMMA StepRequest ==
  ASSUME IInv, NEW r \in Req, Request(r)
  PROVE  IInv'
<1>1. CASE RunSubmit(r)
  BY <1>1, StepRunSubmit, StepRunRefused
<1> QED
  BY <1>1, StepLookup, StepRefused, StepTouch, StepGetWorker, StepMakeWorker, StepRunCheck,
     StepAnswered DEF Request

(* Every step of a worker thread.                                          *)
LEMMA StepThread ==
  ASSUME IInv, NEW w \in Thread, ThreadStep(w)
  PROVE  IInv'
<1>1. \/ UNCHANGED <<queue, answer>>
      \/ \E res \in {"ok", "error"} : Finish(w, res)
  BY DEF ThreadStep, Resolve, OpenCache, FillCache, Connect, Operate, Reconnect, Cleanup
<1> QED BY <1>1, StepThreadOn, StepThreadFinish

(* Every step preserves the inductive invariant.                           *)
LEMMA StepNext == IInv /\ [Next]_vars => IInv'
<1> SUFFICES ASSUME IInv, [Next]_vars PROVE IInv'
  OBVIOUS
<1>1. CASE \E s \in Sid : Login(s) \/ Logout(s) \/ Drop(s) \/ Lapse(s) \/ SweepDrop(s)
                          \/ ShutRegistry(s)
  <2> PICK s \in Sid : Login(s) \/ Logout(s) \/ Drop(s) \/ Lapse(s) \/ SweepDrop(s)
                         \/ ShutRegistry(s)
    BY <1>1
  <2>1. CASE Drop(s)
    BY <2>1, StepUnregister, StepQueueCleanup, StepShutPool, StepUnlink DEF Drop
  <2> QED BY <2>1, StepLogin, StepLogout, StepLapse, StepSweepDrop, StepShutRegistry
<1>2. CASE \E r \in Req : Request(r)
  BY <1>2, StepRequest
<1>3. CASE \E t \in Task : GiveUp(t)
  BY <1>3, StepGiveUp
<1>4. CASE \E w \in Thread : ThreadStep(w)
  BY <1>4, StepThread
<1>5. CASE Sweep \/ CloseAll
  BY <1>5, StepSweep, StepCloseAll
<1>6. CASE UNCHANGED vars
  BY <1>6, StepStutter
<1> QED BY <1>1, <1>2, <1>3, <1>4, <1>5, <1>6 DEF Next

(* The inductive invariant holds in every reachable state, for any number  *)
(* of sessions, requests and threads, and any capacity of the registry.    *)
THEOREM Invariant == Spec => []IInv
<1> QED BY InitIInv, StepNext, PTL DEF Spec

---------------------------------------------------------------------------
(* Every variable keeps its type: above all, the queues only ever hold     *)
(* well-formed calls, each naming who waits for it.                        *)
THEOREM TypeCorrect == Spec => []TypeOK
<1>1. IInv => TypeOK
  BY DEF IInv
<1> QED BY <1>1, Invariant, PTL

(* A session in the store always has its ticket on disk and its worker     *)
(* registered and open: SessionStore.drop takes the session out before it  *)
(* closes the one and removes the other, and no abandoned sign-in enters.  *)
THEOREM SessionServedHolds == Spec => []SessionServed
<1>1. IInv => SessionServed
  BY ConstantsAssumption DEF IInv, StoredInv, Sole, SessionServed, TypeOK, StoreType
<1> QED BY <1>1, Invariant, PTL

(* A session in the store has its calls on one thread only, so they are    *)
(* serialised, whatever timed out and whoever made workers for sessions    *)
(* that had left the store.                                                *)
THEOREM OneThreadHolds == Spec => []OneThreadPerSession
<1>1. IInv => OneThreadPerSession
  BY DEF IInv, StoredInv, Sole, OneThreadPerSession
<1> QED BY <1>1, Invariant, PTL

(* ad_write sends a modification at most once: a call is queued once,      *)
(* leaves its queue when it is applied, and a lost connection does not put *)
(* it back.                                                                *)
THEOREM WrittenOnceHolds == Spec => []WrittenOnce
<1>1. IInv => WrittenOnce
  BY DEF IInv, WriteInv, WriteOk, WrittenOnce
<1> QED BY <1>1, Invariant, PTL

(* Only a sign-in whose ticket request has been answered in time enters    *)
(* the store, so no session id comes back after it has left or failed.     *)
THEOREM NeverRevivedHolds == Spec => NeverRevived
<1>1. ASSUME IInv, Next, NEW s \in Sid, s \in sessions' \ sessions
      PROVE  pc[s] = "kinit" /\ ccache[s] = "ticket"
  <2>1. CASE \E x \in Sid : Ticketed(x)
    <3>1. Ticketed(s)
      BY <1>1, <2>1 DEF Ticketed
    <3> QED BY <1>1, <3>1 DEF Ticketed, IInv, LoginInv, LoginOk
  <2>2. CASE ~\E x \in Sid : Ticketed(x)
    <3>1. sessions' \subseteq sessions
      BY <1>1, <2>2 DEF Next, Login, Logout, Drop, Lapse, SweepDrop, ShutRegistry, Request,
         GiveUp, ThreadStep, Sweep, CloseAll, LoginStart, Resolved, LoginFails, SignedIn,
         ConnectFails, Pop, DropStep, Unregister, QueueCleanup, ShutPool, Unlink, Lookup,
         Refused, Touch, GetWorker, MakeWorker, RunCheck, RunSubmit, Answered, vars, storeVars
    <3> QED BY <1>1, <3>1
  <2> QED BY <2>1, <2>2
<1>2. IInv /\ [Next]_vars => [OnlyTicketedEnter]_vars
  BY <1>1 DEF OnlyTicketedEnter
<1> QED BY <1>2, Invariant, PTL DEF Spec, NeverRevived

---------------------------------------------------------------------------
(* What is left behind. Two more invariants, on top of IInv: TicketsInv,   *)
(* as long as nobody stops waiting for kinit, and HandlesInv, as long as   *)
(* no session lapses under a request.                                      *)

(* A worker that is closing has its cleanup queued last and then its pool  *)
(* shut.                                                                   *)
Closing(w) == w \in shut \/ \E s \in Sid : drop[s] = "shutdown" /\ victim[s] = w

(* A ticket request is waited for, so a cache is written only for a        *)
(* sign-in that still holds it, or a session that is stored or going.      *)
AwaitedInv ==
  /\ \A s \in Sid : pc[s] = "kinit" => answer[s] # "timeout"
  /\ \A w \in Thread, i \in Nat : At(w, i) /\ queue[w][i].kind = "kinit" => pc[owner[w]] = "kinit"
TicketInv == \A s \in Sid : ccache[s] # "absent" => s \in sessions \/ drop[s] # "no" \/ pc[s] = "kinit"

(* Nothing lapses: only the event loop drops sessions, and nobody is       *)
(* between the check of a worker and the submission meanwhile.             *)
LoopInv ==
  /\ \A s \in Sid : clock[s] = "live" /\ dropper[s] = None
  /\ \A r \in Req : pc[r] # "expired"
  /\ \A r \in Req : pc[r] = "submit" => /\ \A s \in Sid : drop[s] = "no"
                                        /\ stale = {} /\ hand[r] \notin closed
ClosedInv ==
  /\ shut \subseteq closed
  /\ \A s \in Sid : drop[s] \in {"cleanup", "shutdown"} => victim[s] \in closed
  /\ \A w \in closed : w \in shut \/ \E s \in Sid : drop[s] \in {"cleanup", "shutdown"} /\ victim[s] = w
LastInv ==
  \A w \in Thread : Closing(w) =>
    IF queue[w] = <<>> THEN w \notin conn ELSE queue[w][Len(queue[w])].kind = "cleanup"
GoingInv ==
  /\ \A s \in Sid : drop[s] = "unregister" => Sole(s, workers[s])
  /\ \A s \in Sid, w \in Thread : drop[s] \in {"cleanup", "shutdown", "unlink"} /\ owner[w] = s
                                    => w \in closed \/ queue[w] = <<>>
  /\ \A r \in Req : pc[r] = "make" => drop[cookie[r]] # "unregister"
HandleInv ==
  \A w \in conn : /\ owner[w] # None
                  /\ \/ w \in closed
                     \/ /\ workers[owner[w]] = w
                        /\ owner[w] \in sessions \/ drop[owner[w]] = "unregister"
TicketsInv == AwaitedInv /\ TicketInv
HandlesInv == LoopInv /\ ClosedInv /\ LastInv /\ GoingInv /\ HandleInv

(* A step that lets no sign-in begin or end its ticket request, queues no  *)
(* such request, and writes no cache but for one.                          *)
LEMMA TicketsFrame ==
  ASSUME TypeOK, OwnerInv, TicketsInv,
         \A s \in Sid : /\ pc'[s] = "kinit" <=> pc[s] = "kinit"
                        /\ answer'[s] = "timeout" /\ pc[s] = "kinit" => answer[s] = "timeout"
                        /\ ccache'[s] # "absent" => ccache[s] # "absent" \/ pc[s] = "kinit"
                        /\ s \in sessions \/ drop[s] # "no"
                             => s \in sessions' \/ drop'[s] # "no" \/ ccache'[s] = "absent",
         \A w \in Thread, i \in Nat : At(w, i)' /\ queue'[w][i].kind = "kinit" =>
            owner'[w] = owner[w] /\ \E k \in Nat : At(w, k) /\ queue[w][k].kind = "kinit"
  PROVE  TicketsInv'
<1>1. ASSUME NEW w \in Thread, NEW i \in Nat, At(w, i)', queue'[w][i].kind = "kinit"
      PROVE  pc'[owner'[w]] = "kinit"
  <2>1. PICK k \in Nat : At(w, k) /\ queue[w][k].kind = "kinit"
    BY <1>1
  <2>2. pc[owner[w]] = "kinit"
    BY <2>1 DEF TicketsInv, AwaitedInv
  <2>3. owner[w] \in Sid
    <3>1. queue[w] # <<>>
      BY <2>1 DEF At
    <3> QED BY <3>1 DEF OwnerInv, TypeOK, PoolType
  <2>4. owner'[w] = owner[w]
    BY <1>1
  <2> QED BY <2>2, <2>3, <2>4
<1>2. AwaitedInv'
  BY <1>1 DEF TicketsInv, AwaitedInv
<1>3. TicketInv'
  BY DEF TicketsInv, TicketInv
<1> QED BY <1>2, <1>3 DEF TicketsInv

(* A call other than a ticket request is queued, or nothing is.            *)
LEMMA KinitsSubmit ==
  ASSUME TypeOK, OwnerInv, NEW w \in Thread, NEW j \in Job, j.kind # "kinit",
         Submit(w, j), \A v \in Thread : queue[v] # <<>> => owner'[v] = owner[v]
  PROVE  \A v \in Thread, i \in Nat : At(v, i)' /\ queue'[v][i].kind = "kinit" =>
            owner'[v] = owner[v] /\ \E k \in Nat : At(v, k) /\ queue[v][k].kind = "kinit"
<1> SUFFICES ASSUME NEW v \in Thread, NEW i \in Nat, At(v, i)', queue'[v][i].kind = "kinit"
             PROVE  owner'[v] = owner[v] /\ \E k \in Nat : At(v, k) /\ queue[v][k].kind = "kinit"
  OBVIOUS
<1>1. At(v, i) /\ queue'[v][i] = queue[v][i]
  BY SubmitJobs DEF TypeOK
<1>2. queue[v] # <<>>
  BY <1>1 DEF At
<1> QED BY <1>1, <1>2
(* No call is queued.                                                      *)
LEMMA KinitsSame ==
  ASSUME UNCHANGED queue, \A v \in Thread : queue[v] # <<>> => owner'[v] = owner[v]
  PROVE  \A v \in Thread, i \in Nat : At(v, i)' /\ queue'[v][i].kind = "kinit" =>
            owner'[v] = owner[v] /\ \E k \in Nat : At(v, k) /\ queue[v][k].kind = "kinit"
<1> SUFFICES ASSUME NEW v \in Thread, NEW i \in Nat, At(v, i)', queue'[v][i].kind = "kinit"
             PROVE  owner'[v] = owner[v] /\ \E k \in Nat : At(v, k) /\ queue[v][k].kind = "kinit"
  OBVIOUS
<1>1. At(v, i) /\ queue'[v][i] = queue[v][i]
  BY DEF At
<1>2. queue[v] # <<>>
  BY <1>1 DEF At
<1> QED BY <1>1, <1>2

(* A sign-in whose answer is there has no call queued any more.            *)
LEMMA AnsweredEmpty ==
  ASSUME IInv, TicketsInv, NEW s \in Sid, pc[s] = "kinit", answer[s] # "none"
  PROVE  \A w \in Thread : owner[w] = s => queue[w] = <<>>
  BY DEF IInv, LoginInv, LoginOk, Sole, TicketsInv, AwaitedInv

(* Signing in.                                                             *)
LEMMA TicketsLogin ==
  ASSUME IInv, TicketsInv, NEW s \in Sid, Login(s)
  PROVE  TicketsInv'
<1> USE ConstantsAssumption
<1>0. TypeOK /\ OwnerInv /\ pc \in [Task -> SidStates \cup ReqStates] /\ s \in Task
  BY DEF IInv, TypeOK, TaskType, Task
<1>1. CASE LoginStart(s)
  <2>1. pc'[s] # "kinit" /\ pc[s] # "kinit" /\ \A t \in Sid \ {s} : pc'[t] = pc[t]
    BY <1>0, <1>1 DEF LoginStart, Goto, Task
  <2>2. UNCHANGED <<answer, ccache, sessions, drop>>
    BY <1>1 DEF LoginStart, storeVars, dropVars, worldVars
  <2>3. CASE UNCHANGED <<poolVars, queue>>
    BY <1>0, <2>1, <2>2, <2>3, KinitsSame, TicketsFrame DEF poolVars
  <2>4. CASE \E w \in Thread : NewWorker(s, w) /\ Submit(w, Call("resolve", s))
    <3>1. PICK w \in Thread : NewWorker(s, w) /\ Submit(w, Call("resolve", s))
      BY <2>4
    <3>2. \A v \in Thread : queue[v] # <<>> => owner'[v] = owner[v]
      BY <1>0, <3>1 DEF NewWorker, Fresh, OwnerInv, TypeOK, PoolType
    <3>3. Call("resolve", s) \in Job /\ Call("resolve", s).kind # "kinit"
      BY CallType DEF Call, Task
    <3> QED BY <1>0, <2>1, <2>2, <3>1, <3>2, <3>3, KinitsSubmit, TicketsFrame
  <2> QED BY <1>1, <2>3, <2>4 DEF LoginStart
<1>2. CASE Resolved(s)
  <2>1. pc[s] = "resolve" /\ \A t \in Sid \ {s} : pc'[t] = pc[t]
    BY <1>0, <1>2 DEF Resolved, Goto, Task
  <2>2. UNCHANGED <<ccache, sessions, drop, owner>> /\ \A t \in Sid : answer'[t] = "timeout" => answer[t] = "timeout"
    <3>1. UNCHANGED <<ccache, sessions, drop, owner>>
      BY <1>2 DEF Resolved, CloseWorker, storeVars, dropVars, worldVars, poolVars
    <3>2. UNCHANGED answer \/ answer' = [answer EXCEPT ![s] = "none"]
      BY <1>2 DEF Resolved
    <3> QED BY <1>0, <3>1, <3>2 DEF TypeOK, TaskType, Task
  <2>3. workers[s] \in Thread /\ owner[workers[s]] = s
    BY <1>0, <2>1 DEF IInv, LoginInv, LoginOk, Sole, OwnerInv
  <2>4. CASE pc'[s] # "kinit" /\ UNCHANGED queue
    BY <1>0, <2>1, <2>2, <2>4, KinitsSame, TicketsFrame
  <2>5. CASE pc'[s] # "kinit" /\ CloseWorker(s)
    <3>1. Call("cleanup", None) \in Job /\ Call("cleanup", None).kind # "kinit"
      BY CallType DEF Call, Task
    <3> QED BY <1>0, <2>1, <2>2, <2>3, <2>5, <3>1, KinitsSubmit, TicketsFrame DEF CloseWorker
  <2>6. CASE pc'[s] = "kinit" /\ Submit(workers[s], Call("kinit", s)) /\ answer'[s] = "none"
    <3>1. Call("kinit", s) \in Job
      BY CallType DEF Task
    <3>2. ASSUME NEW w \in Thread, NEW i \in Nat, At(w, i)', queue'[w][i].kind = "kinit"
          PROVE  pc'[owner'[w]] = "kinit"
      <4>1. CASE w = workers[s]
        BY <2>2, <2>3, <2>6, <4>1
      <4>2. CASE w # workers[s]
        <5>1. At(w, i) /\ queue[w][i].kind = "kinit"
          BY <1>0, <2>3, <2>6, <3>1, <3>2, <4>2, SubmitJobs DEF TypeOK
        <5>2. pc[owner[w]] = "kinit"
          BY <5>1 DEF TicketsInv, AwaitedInv
        <5>3. owner[w] \in Sid
          BY <1>0, <5>1 DEF At, OwnerInv, TypeOK, PoolType
        <5> QED BY <2>1, <2>2, <5>2, <5>3
      <4> QED BY <4>1, <4>2
    <3>3. AwaitedInv'
      BY <2>1, <2>2, <2>6, <3>2 DEF AwaitedInv, TicketsInv
    <3>4. TicketInv'
      BY <2>1, <2>2, <2>6 DEF TicketInv, TicketsInv
    <3> QED BY <3>3, <3>4 DEF TicketsInv
  <2> QED BY <1>0, <1>2, <2>4, <2>5, <2>6 DEF Resolved, Goto, TypeOK, TaskType
<1>3. CASE LoginFails(s) \/ Ticketed(s)
  <2>1. /\ pc[s] \in {"resolve", "kinit"} /\ answer[s] # "none" /\ pc'[s] # "kinit"
        /\ \A t \in Sid \ {s} : pc'[t] = pc[t]
        /\ \A t \in Sid : answer'[t] = "timeout" => answer[t] = "timeout"
        /\ UNCHANGED <<drop, owner>> /\ sessions \subseteq sessions'
        /\ \A t \in Sid \ {s} : ccache'[t] = ccache[t]
        /\ s \in sessions' \/ ccache'[s] = "absent"
    BY <1>0, <1>3 DEF LoginFails, Ticketed, CloseWorker, Goto, storeVars, dropVars, worldVars, poolVars,
       IInv, TypeOK, TaskType, WorldType, Task
  <2>2. workers[s] \in Thread /\ owner[workers[s]] = s
    BY <1>0, <2>1 DEF IInv, LoginInv, LoginOk, Sole, OwnerInv
  <2>3. PICK j \in Job : j.kind # "kinit" /\ Submit(workers[s], j)
    <3>1. CASE LoginFails(s)
      BY <3>1, CallType DEF LoginFails, CloseWorker, Call, Task
    <3>2. CASE Ticketed(s)
      BY <3>2, CallType DEF Ticketed, Call, Task
    <3> QED BY <1>3, <3>1, <3>2
  <2>4. ASSUME NEW w \in Thread, NEW i \in Nat, At(w, i)', queue'[w][i].kind = "kinit"
        PROVE  pc'[owner'[w]] = "kinit"
    <3>1. PICK k \in Nat : At(w, k) /\ queue[w][k].kind = "kinit"
      BY <1>0, <2>1, <2>2, <2>3, <2>4, KinitsSubmit
    <3>2. pc[owner[w]] = "kinit" /\ owner[w] \in Sid
      BY <1>0, <3>1 DEF At, OwnerInv, TypeOK, PoolType, TicketsInv, AwaitedInv
    <3>3. owner[w] # s
      BY <2>1, <3>1, <3>2, AnsweredEmpty DEF At
    <3> QED BY <2>1, <3>2, <3>3
  <2>5. AwaitedInv'
    BY <2>1, <2>4 DEF AwaitedInv, TicketsInv
  <2>6. TicketInv'
    BY <2>1 DEF TicketInv, TicketsInv
  <2> QED BY <2>5, <2>6 DEF TicketsInv
<1>4. CASE SignedIn(s) \/ ConnectFails(s)
  <2>1. /\ \A t \in Sid : pc'[t] = "kinit" <=> pc[t] = "kinit"
        /\ UNCHANGED <<answer, ccache, queue, owner>>
    BY <1>0, <1>4 DEF SignedIn, ConnectFails, Goto, Task, runVars, worldVars, poolVars
  <2>2. \A t \in Sid : t \in sessions \/ drop[t] # "no" => t \in sessions' \/ drop'[t] # "no"
    BY <1>0, <1>4 DEF SignedIn, ConnectFails, Pop, storeVars, dropVars, TypeOK, DropType
  <2> QED BY <1>0, <2>1, <2>2, KinitsSame, TicketsFrame
<1> QED BY <1>1, <1>2, <1>3, <1>4 DEF Login

(* Signing out, the steps of a drop, the sweeper's drops, the end.         *)
LEMMA TicketsSid ==
  ASSUME IInv, TicketsInv, NEW s \in Sid,
         Logout(s) \/ Drop(s) \/ Lapse(s) \/ SweepDrop(s) \/ ShutRegistry(s)
  PROVE  TicketsInv'
<1> USE ConstantsAssumption
<1>0. TypeOK /\ OwnerInv
  BY DEF IInv
<1>1. UNCHANGED <<pc, answer, owner>>
  BY DEF Logout, Drop, Unregister, QueueCleanup, ShutPool, Unlink, DropStep, Lapse, SweepDrop,
     ShutRegistry, CloseWorker, taskVars, poolVars
<1>2. \A x \in Sid : ccache'[x] # "absent" => ccache[x] # "absent"
  BY <1>0 DEF Logout, Drop, Unregister, QueueCleanup, ShutPool, Unlink, DropStep, Lapse,
     SweepDrop, ShutRegistry, CloseWorker, worldVars, TypeOK, WorldType
<1>3. \A x \in Sid : x \in sessions \/ drop[x] # "no"
                       => x \in sessions' \/ drop'[x] # "no" \/ ccache'[x] = "absent"
  <2>1. CASE Logout(s) \/ SweepDrop(s)
    BY <1>0, <2>1 DEF Logout, SweepDrop, Pop, storeVars, dropVars, TypeOK, DropType
  <2>2. CASE Lapse(s) \/ ShutRegistry(s)
    BY <2>2 DEF Lapse, ShutRegistry, storeVars, dropVars
  <2>3. CASE Unregister(s) \/ QueueCleanup(s) \/ ShutPool(s)
    BY <1>0, <2>3 DEF Unregister, QueueCleanup, ShutPool, DropStep, storeVars, TypeOK, DropType
  <2>4. CASE Unlink(s)
    BY <1>0, <2>4 DEF Unlink, DropStep, storeVars, TypeOK, DropType, WorldType
  <2> QED BY <2>1, <2>2, <2>3, <2>4 DEF Drop
<1>4. \A v \in Thread, i \in Nat : At(v, i)' /\ queue'[v][i].kind = "kinit" =>
         owner'[v] = owner[v] /\ \E k \in Nat : At(v, k) /\ queue[v][k].kind = "kinit"
  <2>0. Call("cleanup", None) \in Job /\ Call("cleanup", None).kind # "kinit"
    BY CallType DEF Call, Task
  <2>1. CASE UNCHANGED queue
    BY <1>1, <2>1, KinitsSame
  <2>2. CASE ShutRegistry(s)
    <3>1. workers[s] \in Thread /\ Submit(workers[s], Call("cleanup", None))
      BY <1>0, <2>2 DEF ShutRegistry, CloseWorker, TypeOK, PoolType
    <3> QED BY <1>0, <1>1, <2>0, <3>1, KinitsSubmit
  <2>3. CASE QueueCleanup(s)
    <3>1. victim[s] \in Thread /\ Submit(victim[s], Call("cleanup", None))
      BY <1>0, <2>3 DEF QueueCleanup, DropStep, OwnerInv, TypeOK, DropType
    <3> QED BY <1>0, <1>1, <2>0, <3>1, KinitsSubmit
  <2> QED BY <2>1, <2>2, <2>3 DEF Logout, Drop, Unregister, ShutPool, Unlink, Lapse, SweepDrop, runVars
<1> QED BY <1>0, <1>1, <1>2, <1>3, <1>4, TicketsFrame

(* The sweeper's list, the end of the lifespan, and a stuttering step.     *)
LEMMA TicketsIdle ==
  ASSUME IInv, TicketsInv, Sweep \/ CloseAll \/ UNCHANGED vars
  PROVE  TicketsInv'
<1>1. UNCHANGED <<pc, answer, owner, ccache, sessions, drop, queue>>
  BY DEF Sweep, CloseAll, vars, storeVars, dropVars, poolVars, runVars, worldVars, taskVars
<1> QED BY <1>1, KinitsSame, TicketsFrame DEF IInv

(* A request.                                                              *)
LEMMA TicketsRequest ==
  ASSUME IInv, TicketsInv, NEW r \in Req, Request(r)
  PROVE  TicketsInv'
<1> USE ConstantsAssumption
<1>0. TypeOK /\ OwnerInv
  BY DEF IInv
<1>1. UNCHANGED <<answer, ccache>> /\ \A s \in Sid : pc'[s] = pc[s]
  BY <1>0 DEF Request, Lookup, Refused, Touch, GetWorker, MakeWorker, RunCheck, RunSubmit,
     Answered, Goto, worldVars, TypeOK, TaskType, Task
<1>2. \A s \in Sid : s \in sessions \/ drop[s] # "no" => s \in sessions' \/ drop'[s] # "no"
  BY <1>0 DEF Request, Lookup, Refused, Touch, GetWorker, MakeWorker, RunCheck, RunSubmit,
     Answered, Pop, storeVars, dropVars, TypeOK, DropType
<1>3. \A v \in Thread : queue[v] # <<>> => owner'[v] = owner[v]
  BY <1>0 DEF Request, Lookup, Refused, Touch, GetWorker, MakeWorker, RunCheck, RunSubmit,
     Answered, NewWorker, Fresh, poolVars, OwnerInv, TypeOK, PoolType
<1>4. \A v \in Thread, i \in Nat : At(v, i)' /\ queue'[v][i].kind = "kinit" =>
         owner'[v] = owner[v] /\ \E k \in Nat : At(v, k) /\ queue[v][k].kind = "kinit"
  <2>1. CASE UNCHANGED queue
    BY <1>3, <2>1, KinitsSame
  <2>2. CASE RunSubmit(r) /\ Submit(hand[r], Call("op", r))
    <3>1. hand[r] \in Thread
      BY <1>0, <2>2 DEF RunSubmit, IInv, CookieInv, TypeOK, TaskType
    <3>2. Call("op", r) \in Job /\ Call("op", r).kind # "kinit"
      BY CallType DEF Call, Task
    <3> QED BY <1>0, <1>3, <2>2, <3>1, <3>2, KinitsSubmit
  <2> QED BY <2>1, <2>2 DEF Request, Lookup, Refused, Touch, GetWorker, MakeWorker, RunCheck,
     RunSubmit, Answered, runVars
<1> QED BY <1>0, <1>1, <1>2, <1>4, TicketsFrame

(* A timeout: not of a ticket request.                                     *)
LEMMA TicketsGiveUp ==
  ASSUME IInv, TicketsInv, "kinit" \notin Slow, NEW t \in Task, GiveUp(t)
  PROVE  TicketsInv'
<1>1. UNCHANGED <<pc, owner, ccache, sessions, drop, queue>>
  BY DEF GiveUp, storeVars, dropVars, poolVars, runVars, worldVars
<1>2. \A s \in Sid : answer'[s] = "timeout" /\ pc[s] = "kinit" => answer[s] = "timeout"
  BY DEF GiveUp, IInv, TypeOK, TaskType, Task
<1> QED BY <1>1, <1>2, KinitsSame, TicketsFrame DEF IInv

(* A worker thread: the cache it writes is its own sign-in's, which waits. *)
LEMMA TicketsThread ==
  ASSUME IInv, TicketsInv, NEW w \in Thread, ThreadStep(w)
  PROVE  TicketsInv'
<1>0. TypeOK /\ OwnerInv
  BY DEF IInv
<1>1. UNCHANGED <<pc, owner, sessions, drop>>
  BY DEF ThreadStep, storeVars, dropVars, poolVars
<1>2. queue[w] # <<>> /\ owner[w] \in Sid
  BY <1>0 DEF TypeOK, PoolType, OwnerInv, ThreadStep, Resolve, OpenCache, FillCache, Connect,
     Operate, Reconnect, Cleanup, Running
<1>3. At(w, 1) /\ Head(queue[w]) = queue[w][1]
  BY <1>0, <1>2, QueueLemma DEF At, TypeOK, RunType
<1>4. queue[w][1].kind = "kinit" => pc[owner[w]] = "kinit"
  BY <1>3 DEF TicketsInv, AwaitedInv
<1>5. \A s \in Sid : ccache'[s] # ccache[s] => pc[s] = "kinit"
  BY <1>0, <1>3, <1>4 DEF ThreadStep, Resolve, OpenCache, FillCache, Connect, Operate,
     Reconnect, Cleanup, Running, worldVars, TypeOK, WorldType
<1>6. \A t \in Task : answer'[t] = "timeout" => answer[t] = "timeout"
  BY <1>0 DEF ThreadStep, Resolve, OpenCache, FillCache, Connect, Operate,
     Reconnect, Cleanup, Finish, TypeOK, TaskType
<1>7. \A v \in Thread, i \in Nat : At(v, i)' /\ queue'[v][i].kind = "kinit" =>
         owner'[v] = owner[v] /\ \E k \in Nat : At(v, k) /\ queue[v][k].kind = "kinit"
  <2>1. CASE UNCHANGED queue
    BY <1>1, <2>1, KinitsSame
  <2>2. CASE \E res \in {"ok", "error"} : Finish(w, res)
    BY <1>0, <1>1, <1>2, <2>2, FinishJobs DEF TypeOK
  <2> QED BY <2>1, <2>2 DEF ThreadStep, Resolve, OpenCache, FillCache, Connect, Operate,
     Reconnect, Cleanup
<1> QED BY <1>0, <1>1, <1>5, <1>6, <1>7, TicketsFrame DEF Task

(* Every step, if a caller never stops waiting for its ticket request.     *)
LEMMA TicketsNext ==
  ASSUME "kinit" \notin Slow
  PROVE  IInv /\ TicketsInv /\ [Next]_vars => TicketsInv'
<1> SUFFICES ASSUME IInv, TicketsInv, [Next]_vars PROVE TicketsInv'
  OBVIOUS
<1>1. CASE \E s \in Sid : Login(s) \/ Logout(s) \/ Drop(s) \/ Lapse(s) \/ SweepDrop(s)
                          \/ ShutRegistry(s)
  BY <1>1, TicketsLogin, TicketsSid
<1>2. CASE \E r \in Req : Request(r)
  BY <1>2, TicketsRequest
<1>3. CASE \E t \in Task : GiveUp(t)
  BY <1>3, TicketsGiveUp
<1>4. CASE \E w \in Thread : ThreadStep(w)
  BY <1>4, TicketsThread
<1> QED BY <1>1, <1>2, <1>3, <1>4, TicketsIdle DEF Next

(* Nothing is on disk or queued at the start.                              *)
LEMMA TicketsInit == Init => TicketsInv
  BY ConstantsAssumption DEF Init, TicketsInv, AwaitedInv, TicketInv, At, Task

(* Unless a caller stops waiting for kinit, every ticket on disk once all  *)
(* handlers have ended is that of a stored session.                        *)
THEOREM NoStrayTicketHolds ==
  ASSUME "kinit" \notin Slow
  PROVE  Spec => []NoStrayTicket
<1>1. TicketsInv => NoStrayTicket
  BY DEF TicketsInv, TicketInv, NoStrayTicket, Settled, Handled, LoginEnds
<1> QED BY <1>1, Invariant, TicketsInit, TicketsNext, PTL DEF Spec

(* With no session lapsing the event loop alone drops sessions.            *)
LEMMA LoopFreeIs ==
  ASSUME LoopInv, TypeOK, LoopFree
  PROVE  \A s \in Sid : drop[s] = "no"
  BY DEF LoopInv, LoopFree, DroppingOnLoop, TypeOK, DropType

(* No request takes a session out of the store.                            *)
LEMMA LoopNext ==
  ASSUME IInv, LoopInv, Lapsing = {}, [Next]_vars
  PROVE  LoopInv'
<1> USE ConstantsAssumption
<1>0. TypeOK
  BY DEF IInv
<1>1. ASSUME NEW s \in Sid, Login(s) \/ Logout(s) \/ ShutRegistry(s) PROVE LoopInv'
  <2>1. LoopFree /\ UNCHANGED <<clock, hand>> /\ \A r \in Req : pc'[r] = pc[r]
    BY <1>0, <1>1 DEF Login, LoginStart, Resolved, LoginFails, Ticketed, SignedIn, ConnectFails, Logout,
       ShutRegistry, Pop, storeVars, taskVars, Goto, TypeOK, TaskType, Task
  <2>2. \A x \in Sid : dropper'[x] = None
    BY <1>0, <1>1 DEF Login, LoginStart, Resolved, LoginFails, Ticketed, SignedIn, ConnectFails, Logout,
       ShutRegistry, Pop, dropVars, LoopInv, TypeOK, DropType
  <2> QED BY <2>1, <2>2 DEF LoopInv, LoopFree
<1>2. ASSUME NEW s \in Sid, Drop(s) \/ SweepDrop(s) PROVE LoopInv'
  <2>1. UNCHANGED <<clock, hand, pc>> /\ \A r \in Req : pc[r] # "submit"
    BY <1>0, <1>2 DEF Drop, Unregister, QueueCleanup, ShutPool, Unlink, DropStep, SweepDrop, Pop, storeVars,
       taskVars, LoopInv
  <2>2. \A x \in Sid : dropper'[x] = None
    BY <1>0, <1>2 DEF Drop, Unregister, QueueCleanup, ShutPool, Unlink, DropStep, SweepDrop, Pop, dropVars,
       LoopInv, TypeOK, DropType
  <2> QED BY <2>1, <2>2 DEF LoopInv
<1>3. ASSUME NEW r \in Req, Request(r) PROVE LoopInv'
  <2>1. UNCHANGED <<drop, dropper, stale, closed>> /\ \A s \in Sid : clock'[s] = clock[s]
    BY <1>0, <1>3 DEF Request, Lookup, Refused, Touch, GetWorker, MakeWorker, RunCheck, RunSubmit,
       Answered, Expired, LoopInv, IInv, CookieInv, TypeOK, StoreType, TaskType, storeVars, dropVars, poolVars,
       sweepVars
  <2>2. \A q \in Req : pc'[q] # "expired"
    BY <1>0, <1>3 DEF Request, Lookup, Refused, Touch, GetWorker, MakeWorker, RunCheck, RunSubmit,
       Answered, Expired, LoopInv, Goto, TypeOK, TaskType, Task
  <2>3. \A q \in Req : pc'[q] = "submit" => hand'[q] = hand[q] /\ (pc[q] = "submit" \/ RunCheck(q))
    BY <1>0, <1>3 DEF Request, Lookup, Refused, Touch, GetWorker, MakeWorker, RunCheck, RunSubmit,
       Answered, Goto, TypeOK, TaskType, Task
  <2>4. \A q \in Req : RunCheck(q) /\ pc'[q] = "submit" => LoopFree /\ hand[q] \notin closed
    BY <1>0 DEF RunCheck, Goto, TypeOK, TaskType, Task
  <2>5. LoopFree => /\ \A s \in Sid : drop[s] = "no"
                    /\ stale = {}
    BY <1>0, LoopFreeIs DEF LoopFree
  <2> QED BY <2>1, <2>2, <2>3, <2>4, <2>5 DEF LoopInv
<1>4. CASE Sweep \/ CloseAll
  BY <1>4 DEF Sweep, CloseAll, LoopInv, LoopFree, storeVars, dropVars, poolVars, taskVars
<1>5. CASE (\E t \in Task : GiveUp(t)) \/ (\E w \in Thread : ThreadStep(w)) \/ UNCHANGED vars
  BY <1>5 DEF GiveUp, ThreadStep, LoopInv, vars, storeVars, dropVars, poolVars, taskVars, sweepVars
<1>6. ~\E s \in Sid : Lapse(s)
  BY DEF Lapse
<1> QED BY <1>1, <1>2, <1>3, <1>4, <1>5, <1>6 DEF Next

(* A closed worker is being closed or has its pool shut.                   *)
LEMMA ClosedNext ==
  ASSUME IInv, ClosedInv, [Next]_vars
  PROVE  ClosedInv'
<1> USE ConstantsAssumption
<1>0. TypeOK /\ OwnerInv
  BY DEF IInv
<1>1. ASSUME NEW s \in Sid, UNCHANGED <<drop, victim>>, CloseWorker(s) PROVE ClosedInv'
  BY <1>1 DEF CloseWorker, ClosedInv
<1>2. ASSUME NEW s \in Sid, drop[s] = "no", UNCHANGED <<victim, closed, shut>>,
             drop' = [drop EXCEPT ![s] = "unregister"]
      PROVE  ClosedInv'
  <2>1. \A x \in Sid : x # s => drop'[x] = drop[x]
    BY <1>0, <1>2 DEF TypeOK, DropType
  <2>2. drop'[s] = "unregister"
    BY <1>0, <1>2 DEF TypeOK, DropType
  <2> QED BY <1>2, <2>1, <2>2 DEF ClosedInv
<1>3. ASSUME UNCHANGED <<drop, victim, closed, shut>> PROVE ClosedInv'
  BY <1>3 DEF ClosedInv
<1>4. ASSUME NEW s \in Sid, Login(s) \/ Logout(s) \/ ShutRegistry(s) \/ Lapse(s) \/ SweepDrop(s)
      PROVE  ClosedInv'
  <2>1. CASE Resolved(s) \/ LoginFails(s) \/ ShutRegistry(s)
    BY <1>1, <1>3, <2>1 DEF Resolved, LoginFails, ShutRegistry, dropVars, poolVars
  <2>2. CASE ConnectFails(s) \/ Logout(s) \/ SweepDrop(s)
    BY <1>2, <1>3, <2>2 DEF ConnectFails, Logout, SweepDrop, Pop, dropVars, poolVars, IInv, StoredInv
  <2>3. CASE LoginStart(s) \/ Ticketed(s) \/ SignedIn(s) \/ Lapse(s)
    BY <1>3, <2>3 DEF LoginStart, Ticketed, SignedIn, Lapse, dropVars, poolVars
  <2> QED BY <1>4, <2>1, <2>2, <2>3 DEF Login
<1>5. ASSUME NEW s \in Sid, Drop(s) PROVE ClosedInv'
  <2>1. CASE Unregister(s)
    <3>1. /\ drop'[s] = "cleanup" /\ victim'[s] = workers[s] /\ closed' = closed \cup {workers[s]}
          /\ shut' = shut /\ drop[s] = "unregister"
          /\ \A x \in Sid : x # s => drop'[x] = drop[x] /\ victim'[x] = victim[x]
      BY <1>0, <2>1 DEF Unregister, DropStep, TypeOK, DropType
    <3> QED BY <3>1 DEF ClosedInv
  <2>2. CASE QueueCleanup(s)
    <3>1. /\ drop[s] = "cleanup" /\ drop'[s] = "shutdown" /\ UNCHANGED <<victim, closed, shut>>
          /\ \A x \in Sid : x # s => drop'[x] = drop[x]
      BY <1>0, <2>2 DEF QueueCleanup, DropStep, poolVars, TypeOK, DropType
    <3> QED BY <3>1 DEF ClosedInv
  <2>3. CASE ShutPool(s)
    <3>1. /\ drop[s] = "shutdown" /\ drop'[s] = "unlink" /\ closed' = closed
          /\ shut' = shut \cup {victim[s]}
          /\ \A x \in Sid : x # s => drop'[x] = drop[x] /\ victim'[x] = victim[x]
      BY <1>0, <2>3 DEF ShutPool, DropStep, TypeOK, DropType
    <3> QED BY <3>1 DEF ClosedInv
  <2>4. CASE Unlink(s)
    <3>1. /\ drop[s] = "unlink" /\ drop'[s] = "no" /\ UNCHANGED <<victim, closed, shut>>
          /\ \A x \in Sid : x # s => drop'[x] = drop[x]
      BY <1>0, <2>4 DEF Unlink, DropStep, poolVars, TypeOK, DropType
    <3> QED BY <3>1 DEF ClosedInv
  <2> QED BY <1>5, <2>1, <2>2, <2>3, <2>4 DEF Drop
<1>6. ASSUME NEW r \in Req, Request(r) PROVE ClosedInv'
  <2>1. CASE Lookup(r)
    BY <1>2, <1>3, <2>1 DEF Lookup, Pop, dropVars, poolVars, IInv, StoredInv
  <2>2. CASE ~Lookup(r)
    BY <1>3, <1>6, <2>2 DEF Request, Refused, Touch, GetWorker, MakeWorker, RunCheck, RunSubmit,
       Answered, dropVars, poolVars
  <2> QED BY <2>1, <2>2
<1>7. CASE \/ Sweep \/ CloseAll \/ UNCHANGED vars
           \/ (\E t \in Task : GiveUp(t)) \/ (\E w \in Thread : ThreadStep(w))
  BY <1>3, <1>7 DEF Sweep, CloseAll, GiveUp, ThreadStep, vars, dropVars, poolVars
<1> QED BY <1>4, <1>5, <1>6, <1>7 DEF Next

(* Calls go to workers that are not closing, cleanups aside.               *)
LastOk(w) == IF queue[w] = <<>> THEN w \notin conn ELSE queue[w][Len(queue[w])].kind = "cleanup"

(* A step that starts no closing but of workers it hands a cleanup.        *)
LEMMA LastSubmit ==
  ASSUME TypeOK, LastInv, NEW w \in Thread, NEW j \in Job, Submit(w, j), UNCHANGED conn,
         \/ j.kind = "cleanup" /\ \A v \in Thread : Closing(v)' => Closing(v) \/ v = w
         \/ ~Closing(w) /\ \A v \in Thread : Closing(v)' => Closing(v)
  PROVE  LastInv'
<1> SUFFICES ASSUME NEW v \in Thread, Closing(v)' PROVE LastOk(v)'
  BY DEF LastInv, LastOk, Closing
<1>1. CASE v # w
  <2>1. queue'[v] = queue[v] /\ Closing(v)
    BY <1>1, SubmitJobs DEF TypeOK
  <2> QED BY <2>1 DEF LastInv, LastOk
<1>2. CASE v = w
  <2>1. j.kind = "cleanup"
    BY <1>2
  <2>2. queue'[w] = Append(queue[w], j) /\ queue[w] \in Seq(Job)
    BY DEF Submit, TypeOK, RunType
  <2>3. queue'[w][Len(queue'[w])] = j /\ queue'[w] # <<>>
    <3>1. Len(Append(queue[w], j)) = Len(queue[w]) + 1 /\ Append(queue[w], j)[Len(queue[w]) + 1] = j
      BY <2>2, QueueLemma
    <3>2. Len(queue[w]) \in Nat
      BY <2>2
    <3> QED BY <2>2, <3>1, <3>2
  <2> QED BY <1>2, <2>1, <2>3 DEF LastOk
<1> QED BY <1>1, <1>2

(* A step that queues nothing and opens no connection.                     *)
LEMMA LastSame ==
  ASSUME LastInv, UNCHANGED queue, conn' \subseteq conn,
         \A v \in Thread : Closing(v)' => Closing(v)
  PROVE  LastInv'
  BY DEF LastInv

(* A closing worker has its cleanup last, or no connection.                *)
LEMMA LastNext ==
  ASSUME IInv, HandlesInv, [Next]_vars
  PROVE  LastInv'
<1> USE ConstantsAssumption
<1>0. TypeOK /\ OwnerInv /\ LoopInv /\ ClosedInv /\ LastInv
  BY DEF IInv, HandlesInv
<1>o. \A w \in Thread : Closing(w) => w \in closed /\ owner[w] # None
  BY <1>0 DEF Closing, ClosedInv, OwnerInv
<1>c. Call("cleanup", None) \in Job /\ Call("cleanup", None).kind = "cleanup"
  BY CallType DEF Call, Task
<1>1. ASSUME NEW s \in Sid, workers[s] # None, CloseWorker(s), UNCHANGED <<drop, victim, conn>>
      PROVE  LastInv'
  <2>1. workers[s] \in Thread /\ Submit(workers[s], Call("cleanup", None))
    BY <1>0, <1>1 DEF CloseWorker, TypeOK, PoolType
  <2>2. \A v \in Thread : Closing(v)' => Closing(v) \/ v = workers[s]
    BY <1>1 DEF CloseWorker, Closing
  <2> QED BY <1>0, <1>1, <1>c, <2>1, <2>2, LastSubmit
<1>2. ASSUME UNCHANGED <<shut, victim, queue, conn>>, NEW s \in Sid, drop[s] = "no",
             \A x \in Sid : drop'[x] = drop[x] \/ drop'[x] = "unregister"
      PROVE  LastInv'
  BY <1>0, <1>2, LastSame DEF Closing
<1>3. ASSUME UNCHANGED <<shut, drop, victim, conn>>, NEW w \in Thread, NEW j \in Job, Submit(w, j),
             ~Closing(w)
      PROVE  LastInv'
  BY <1>0, <1>3, LastSubmit DEF Closing
<1>4. ASSUME UNCHANGED <<shut, drop, victim, queue, conn>> PROVE LastInv'
  BY <1>0, <1>4, LastSame DEF Closing
<1>5. ASSUME NEW s \in Sid, Login(s) \/ Logout(s) \/ ShutRegistry(s) \/ Lapse(s) \/ SweepDrop(s)
      PROVE  LastInv'
  <2>1. CASE LoginStart(s)
    <3>1. CASE UNCHANGED <<poolVars, queue>>
      BY <1>4, <2>1, <3>1 DEF LoginStart, dropVars, poolVars, worldVars
    <3>2. CASE \E w \in Thread : NewWorker(s, w) /\ Submit(w, Call("resolve", s))
      <4>1. PICK w \in Thread : NewWorker(s, w) /\ Submit(w, Call("resolve", s))
        BY <3>2
      <4>2. Call("resolve", s) \in Job /\ ~Closing(w)
        BY <1>o, <4>1, CallType DEF Task, NewWorker, Fresh
      <4>3. UNCHANGED <<shut, drop, victim, conn>>
        BY <2>1 DEF LoginStart, dropVars, worldVars, poolVars
      <4> QED BY <1>3, <4>1, <4>2, <4>3
    <3> QED BY <2>1, <3>1, <3>2 DEF LoginStart
  <2>2. CASE Resolved(s) \/ LoginFails(s) \/ Ticketed(s)
    <3>1. pc[s] \in {"resolve", "kinit"} /\ UNCHANGED <<drop, victim, conn>>
      BY <2>2 DEF Resolved, LoginFails, Ticketed, dropVars, worldVars
    <3>2. workers[s] # None /\ workers[s] \in Thread /\ ~Closing(workers[s])
      BY <1>o, <3>1 DEF IInv, LoginInv, LoginOk, Sole
    <3>3. CASE CloseWorker(s)
      BY <1>1, <3>1, <3>2, <3>3
    <3>4. CASE UNCHANGED <<queue, shut>>
      BY <1>4, <3>1, <3>4
    <3>5. CASE UNCHANGED shut /\ \E j \in Job : Submit(workers[s], j)
      BY <1>3, <3>1, <3>2, <3>5
    <3>6. Call("kinit", s) \in Job /\ Call("op", s) \in Job
      BY CallType DEF Task
    <3> QED BY <2>2, <3>3, <3>4, <3>5, <3>6 DEF Resolved, LoginFails, Ticketed, poolVars
  <2>3. CASE ShutRegistry(s)
    BY <1>1, <2>3 DEF ShutRegistry, dropVars, worldVars
  <2>4. CASE SignedIn(s) \/ Lapse(s)
    BY <1>4, <2>4 DEF SignedIn, Lapse, dropVars, poolVars, worldVars, runVars
  <2>5. CASE ConnectFails(s) \/ Logout(s) \/ SweepDrop(s)
    <3>1. UNCHANGED <<shut, victim, queue, conn>>
      BY <2>5 DEF ConnectFails, Logout, SweepDrop, Pop, poolVars, worldVars, runVars, dropVars
    <3>2. CASE s \in sessions
      <4>1. drop[s] = "no"
        BY <3>2 DEF IInv, StoredInv
      <4>2. \A x \in Sid : drop'[x] = drop[x] \/ drop'[x] = "unregister"
        BY <1>0, <2>5, <3>2 DEF ConnectFails, Logout, SweepDrop, Pop, TypeOK, DropType
      <4> QED BY <1>2, <3>1, <4>1, <4>2
    <3>3. CASE s \notin sessions
      BY <1>4, <2>5, <3>1, <3>3 DEF ConnectFails, Logout, SweepDrop, Pop, dropVars
    <3> QED BY <3>2, <3>3
  <2> QED BY <1>5, <2>1, <2>2, <2>3, <2>4, <2>5 DEF Login
<1>6. ASSUME NEW s \in Sid, Drop(s) PROVE LastInv'
  <2>0. UNCHANGED conn
    BY <1>6 DEF Drop, Unregister, QueueCleanup, ShutPool, Unlink, worldVars
  <2>1. CASE QueueCleanup(s)
    <3>1. victim[s] \in Thread /\ Submit(victim[s], Call("cleanup", None))
      BY <1>0, <2>1 DEF QueueCleanup, DropStep, OwnerInv, TypeOK, DropType
    <3>2. \A v \in Thread : Closing(v)' => Closing(v) \/ v = victim[s]
      BY <1>0, <2>1 DEF QueueCleanup, DropStep, poolVars, Closing, TypeOK, DropType
    <3> QED BY <1>0, <1>c, <2>0, <3>1, <3>2, LastSubmit
  <2>2. CASE Unregister(s) \/ ShutPool(s) \/ Unlink(s)
    <3>1. UNCHANGED queue
      BY <2>2 DEF Unregister, ShutPool, Unlink
    <3>2. \A v \in Thread : Closing(v)' => Closing(v)
      BY <1>0, <2>2 DEF Unregister, ShutPool, Unlink, DropStep, poolVars, Closing, TypeOK, DropType
    <3> QED BY <1>0, <2>0, <3>1, <3>2, LastSame
  <2> QED BY <1>6, <2>1, <2>2 DEF Drop
<1>7. ASSUME NEW r \in Req, Request(r) PROVE LastInv'
  <2>1. UNCHANGED <<shut, drop, victim, conn>>
    BY <1>0, <1>7 DEF Request, Lookup, Refused, Touch, GetWorker, MakeWorker, RunCheck, RunSubmit,
       Answered, Expired, LoopInv, dropVars, poolVars, worldVars, TypeOK, StoreType
  <2>2. CASE UNCHANGED queue
    BY <1>4, <2>1, <2>2
  <2>3. CASE RunSubmit(r) /\ Submit(hand[r], Call("op", r))
    <3>1. hand[r] \in Thread /\ hand[r] \notin closed
      BY <1>0, <2>3 DEF RunSubmit, LoopInv, IInv, CookieInv, TypeOK, TaskType
    <3>2. Call("op", r) \in Job
      BY CallType DEF Task
    <3> QED BY <1>3, <1>o, <2>1, <2>3, <3>1, <3>2
  <2> QED BY <1>7, <2>2, <2>3 DEF Request, Lookup, Refused, Touch, GetWorker, MakeWorker, RunCheck,
     RunSubmit, Answered, runVars
<1>8. ASSUME NEW w \in Thread, ThreadStep(w) PROVE LastInv'
  <2>1. UNCHANGED <<shut, drop, victim>> /\ queue[w] # <<>> /\ conn' \ conn \subseteq {w}
    BY <1>8 DEF ThreadStep, dropVars, poolVars, Resolve, OpenCache, FillCache, Connect, Operate,
       Reconnect, Cleanup, Running, worldVars
  <2>2. queue[w] \in Seq(Job) /\ Len(queue[w]) \in Nat /\ Len(queue[w]) > 0 /\ Head(queue[w]) = queue[w][1]
    BY <1>0, <2>1 DEF TypeOK, RunType
  <2> SUFFICES ASSUME NEW v \in Thread, Closing(v)' PROVE LastOk(v)'
    BY DEF LastInv, LastOk
  <2>3. Closing(v) /\ LastOk(v)
    BY <1>0, <2>1 DEF Closing, LastInv, LastOk
  <2>4. CASE v # w
    <3>1. queue'[v] = queue[v]
      BY <1>0, <1>8, <2>4 DEF ThreadStep, Resolve, OpenCache, FillCache, Connect, Operate,
         Reconnect, Cleanup, Finish, TypeOK, RunType
    <3> QED BY <2>1, <2>3, <2>4, <3>1 DEF LastOk
  <2>5. CASE v = w /\ UNCHANGED queue
    BY <2>1, <2>3, <2>5 DEF LastOk
  <2>6. CASE v = w /\ \E res \in {"ok", "error"} : Finish(w, res)
    <3>1. queue'[w] = Tail(queue[w])
      BY <1>0, <2>6 DEF Finish, TypeOK, RunType
    <3>2. CASE Tail(queue[w]) # <<>>
      <4>1. /\ Tail(queue[w]) \in Seq(Job) /\ Len(Tail(queue[w])) = Len(queue[w]) - 1
            /\ \A i \in 1..Len(Tail(queue[w])) : Tail(queue[w])[i] = queue[w][i + 1]
        BY <2>1, <2>2, QueueLemma
      <4>2. Len(Tail(queue[w])) > 0 /\ Len(Tail(queue[w])) \in Nat
        BY <3>2, <4>1
      <4>3. Tail(queue[w])[Len(Tail(queue[w]))] = queue[w][Len(queue[w])]
        BY <2>2, <4>1, <4>2
      <4> QED BY <2>1, <2>3, <2>6, <3>1, <3>2, <4>3 DEF LastOk
    <3>3. CASE Tail(queue[w]) = <<>>
      <4>1. Len(queue[w]) = 1
        <5>1. Len(Tail(queue[w])) = Len(queue[w]) - 1
          BY <2>1, <2>2, QueueLemma
        <5>2. \A q : q = <<>> => Len(q) = 0
          OBVIOUS
        <5>3. Len(Tail(queue[w])) = 0
          BY <3>3, <5>2, Zenon
        <5> QED BY <2>2, <5>1, <5>3
      <4>2. Head(queue[w]).kind = "cleanup"
        BY <2>1, <2>2, <2>3, <2>6, <4>1 DEF LastOk
      <4>3. Cleanup(w)
        BY <1>8, <4>2 DEF ThreadStep, Resolve, OpenCache, FillCache, Connect, Operate, Reconnect, Running
      <4> QED BY <2>6, <3>1, <3>3, <4>3 DEF Cleanup, LastOk
    <3> QED BY <3>2, <3>3
  <2>7. UNCHANGED queue \/ \E res \in {"ok", "error"} : Finish(w, res)
    BY <1>8 DEF ThreadStep, Resolve, OpenCache, FillCache, Connect, Operate, Reconnect, Cleanup
  <2> QED BY <2>4, <2>5, <2>6, <2>7
<1>9. CASE Sweep \/ CloseAll \/ UNCHANGED vars \/ (\E t \in Task : GiveUp(t))
  BY <1>4, <1>9 DEF Sweep, CloseAll, GiveUp, vars, dropVars, poolVars, runVars, worldVars
<1> QED BY <1>5, <1>6, <1>7, <1>8, <1>9 DEF Next

(* A thread made for a session that is being dropped is closed or idle.    *)
LEMMA GoingNext ==
  ASSUME IInv, HandlesInv, [Next]_vars
  PROVE  GoingInv'
<1> USE ConstantsAssumption
<1>0. TypeOK /\ OwnerInv /\ LoopInv /\ ClosedInv /\ GoingInv
  BY DEF IInv, HandlesInv
<1>1. ASSUME \A x \in Sid : drop'[x] = "no", LoopFree,
             \A r \in Req : pc'[r] = "make" => pc[r] = "make" /\ cookie'[r] = cookie[r]
      PROVE  GoingInv'
  <2>1. \A r \in Req : pc'[r] = "make" => cookie'[r] \in Sid
    BY <1>0, <1>1 DEF IInv, CookieInv, TypeOK, TaskType
  <2> QED BY <1>1, <2>1 DEF GoingInv
<1>2. ASSUME NEW s \in Sid, s \in sessions, drop' = [drop EXCEPT ![s] = "unregister"],
             UNCHANGED <<poolVars, queue, pc, cookie>> \/
               /\ UNCHANGED <<poolVars, queue, cookie>>
               /\ \A r \in Req : pc'[r] = "make" => pc[r] = "make"
      PROVE  GoingInv'
  <2>1. Sole(s, workers[s]) /\ \A r \in Req : pc[r] = "make" => cookie[r] # s /\ cookie[r] \in Sid
    BY <1>0, <1>2 DEF IInv, StoredInv, CookieInv, TypeOK, TaskType
  <2>2. drop'[s] = "unregister" /\ \A x \in Sid : x # s => drop'[x] = drop[x]
    BY <1>0, <1>2 DEF TypeOK, DropType
  <2>3. UNCHANGED <<workers, owner, closed, shut, queue, cookie>>
    BY <1>2 DEF poolVars
  <2> QED BY <1>0, <1>2, <2>1, <2>2, <2>3 DEF GoingInv, Sole
<1>3. ASSUME UNCHANGED <<drop, poolVars, queue, cookie>>,
             \A r \in Req : pc'[r] = "make" => pc[r] = "make"
      PROVE  GoingInv'
  BY <1>0, <1>3 DEF GoingInv, Sole, poolVars
<1>4. ASSUME NEW s \in Sid, Login(s) \/ Logout(s) \/ ShutRegistry(s) \/ Lapse(s) \/ SweepDrop(s)
      PROVE  GoingInv'
  <2>0. UNCHANGED cookie /\ \A r \in Req : pc'[r] = pc[r]
    BY <1>0, <1>4 DEF Login, LoginStart, Resolved, LoginFails, Ticketed, SignedIn, ConnectFails, Logout,
       ShutRegistry, Lapse, SweepDrop, taskVars, Goto, TypeOK, TaskType, Task
  <2>1. CASE LoginStart(s) \/ Resolved(s) \/ LoginFails(s) \/ Ticketed(s) \/ SignedIn(s) \/ ShutRegistry(s)
    <3>1. LoopFree /\ UNCHANGED drop
      BY <2>1 DEF LoginStart, Resolved, LoginFails, Ticketed, SignedIn, ShutRegistry, dropVars
    <3>2. \A x \in Sid : drop'[x] = "no"
      BY <1>0, <3>1, LoopFreeIs
    <3> QED BY <1>1, <2>0, <3>1, <3>2
  <2>2. CASE Lapse(s)
    BY <1>3, <2>0, <2>2 DEF Lapse, dropVars, runVars
  <2>3. CASE ConnectFails(s) \/ Logout(s) \/ SweepDrop(s)
    BY <1>2, <1>3, <2>0, <2>3 DEF ConnectFails, Logout, SweepDrop, Pop, dropVars, runVars
  <2> QED BY <1>4, <2>1, <2>2, <2>3 DEF Login
<1>5. ASSUME NEW s \in Sid, Drop(s) PROVE GoingInv'
  <2>1. UNCHANGED <<owner, pc, cookie>> /\ closed \subseteq closed'
    BY <1>5 DEF Drop, Unregister, QueueCleanup, ShutPool, Unlink, DropStep, taskVars, poolVars
  <2>2. drop'[s] # "unregister" /\ drop[s] # "no" /\ \A x \in Sid : x # s => drop'[x] = drop[x]
    BY <1>0, <1>5 DEF Drop, Unregister, QueueCleanup, ShutPool, Unlink, DropStep, TypeOK, DropType
  <2>3. ASSUME NEW x \in Sid, drop'[x] = "unregister" PROVE Sole(x, workers[x])'
    <3>1. x # s /\ Sole(x, workers[x])
      BY <1>0, <2>2, <2>3 DEF GoingInv
    <3>2. owner[workers[x]] = x
      BY <1>0, <3>1 DEF Sole, OwnerInv
    <3>3. CASE Unregister(s)
      <4>1. workers[s] # None /\ owner[workers[s]] = s
        BY <1>0, <3>3 DEF Unregister, DropStep, IInv, DropInv, OwnerInv
      <4>2. workers'[x] = workers[x] /\ closed' = closed \cup {workers[s]} /\ shut' = shut
        BY <1>0, <3>1, <3>3 DEF Unregister, DropStep, TypeOK, PoolType
      <4> QED BY <2>1, <3>1, <3>2, <4>1, <4>2 DEF Sole
    <3>4. CASE ShutPool(s)
      <4>1. owner[victim[s]] = s
        BY <1>0, <3>4 DEF ShutPool, DropStep, OwnerInv
      <4>2. workers' = workers /\ closed' = closed /\ shut' = shut \cup {victim[s]}
        BY <3>4 DEF ShutPool, DropStep
      <4> QED BY <2>1, <3>1, <3>2, <4>1, <4>2 DEF Sole
    <3>5. CASE QueueCleanup(s) \/ Unlink(s)
      BY <3>1, <3>5 DEF QueueCleanup, Unlink, poolVars, Sole
    <3> QED BY <1>5, <3>3, <3>4, <3>5 DEF Drop
  <2>4. ASSUME NEW x \in Sid, NEW w \in Thread, drop'[x] \in {"cleanup", "shutdown", "unlink"}, owner[w] = x
        PROVE  w \in closed' \/ queue'[w] = <<>>
    <3>1. CASE Unregister(s) /\ x = s
      BY <1>0, <2>4, <3>1 DEF Unregister, DropStep, GoingInv, Sole
    <3>2. CASE QueueCleanup(s)
      <4>1. w \in closed \/ queue[w] = <<>>
        BY <1>0, <2>2, <2>4, <3>2 DEF GoingInv, QueueCleanup, DropStep
      <4>2. victim[s] \in closed /\ victim[s] \in Thread
        BY <1>0, <3>2 DEF QueueCleanup, DropStep, ClosedInv, OwnerInv, TypeOK, DropType
      <4>3. w # victim[s] => queue'[w] = queue[w]
        BY <1>0, <3>2, <4>2 DEF QueueCleanup, Submit, TypeOK, RunType
      <4> QED BY <2>1, <4>1, <4>2, <4>3
    <3>3. CASE ~QueueCleanup(s) /\ ~(Unregister(s) /\ x = s)
      <4>1. queue' = queue
        BY <1>5, <3>3 DEF Drop, Unregister, ShutPool, Unlink
      <4>2. drop[x] \in {"cleanup", "shutdown", "unlink"}
        BY <1>0, <1>5, <2>2, <2>4, <3>3 DEF Drop, Unregister, ShutPool, Unlink, DropStep, TypeOK, DropType
      <4> QED BY <1>0, <2>1, <2>4, <4>1, <4>2 DEF GoingInv
    <3> QED BY <3>1, <3>2, <3>3
  <2>5. \A r \in Req : pc[r] = "make" => drop'[cookie[r]] # "unregister"
    <3>1. \A r \in Req : pc[r] = "make" => cookie[r] \in Sid
      BY <1>0 DEF IInv, CookieInv, TypeOK, TaskType
    <3> QED BY <1>0, <2>2, <3>1 DEF GoingInv
  <2> QED BY <2>1, <2>3, <2>4, <2>5 DEF GoingInv
<1>6. ASSUME NEW r \in Req, Request(r) PROVE GoingInv'
  <2>1. UNCHANGED <<drop, closed, shut>>
    BY <1>0, <1>6 DEF Request, Lookup, Refused, Touch, GetWorker, MakeWorker, RunCheck, RunSubmit,
       Answered, Expired, LoopInv, dropVars, poolVars, TypeOK, StoreType
  <2>2. CASE MakeWorker(r)
    <3>1. PICK w \in Thread : NewWorker(cookie[r], w)
      BY <2>2 DEF MakeWorker
    <3>2. /\ pc[r] = "make" /\ cookie[r] \in Sid /\ drop[cookie[r]] # "unregister"
          /\ queue[w] = <<>> /\ owner[w] = None /\ UNCHANGED <<queue, cookie>>
      BY <1>0, <2>2, <3>1 DEF MakeWorker, NewWorker, Fresh, GoingInv, IInv, CookieInv, OwnerInv, TypeOK,
         TaskType, runVars
    <3>3. /\ owner'[w] = cookie[r] /\ \A v \in Thread : v # w => owner'[v] = owner[v]
          /\ \A x \in Sid : x # cookie[r] => workers'[x] = workers[x]
      BY <1>0, <3>1 DEF NewWorker, TypeOK, PoolType
    <3>4. \A q \in Req : pc'[q] = "make" => pc[q] = "make"
      BY <1>0, <2>2 DEF MakeWorker, Goto, TypeOK, TaskType, Task
    <3> QED BY <1>0, <2>1, <3>2, <3>3, <3>4 DEF GoingInv, Sole
  <2>3. CASE GetWorker(r)
    <3>1. UNCHANGED <<workers, owner, queue, cookie>>
      BY <2>3 DEF GetWorker, poolVars, runVars
    <3>2. \A q \in Req : pc'[q] = "make" => pc[q] = "make" \/ (q = r /\ workers[cookie[r]] = None /\ pc[r] = "found")
      BY <1>0, <2>3 DEF GetWorker, Goto, TypeOK, TaskType, Task
    <3>3. pc[r] = "found" => cookie[r] \in Sid
      BY <1>0 DEF IInv, CookieInv, TypeOK, TaskType
    <3>4. pc[r] = "found" /\ workers[cookie[r]] = None => drop[cookie[r]] # "unregister"
      BY <1>0, <3>3 DEF GoingInv, Sole
    <3> QED BY <1>0, <2>1, <3>1, <3>2, <3>4 DEF GoingInv, Sole
  <2>4. CASE RunSubmit(r)
    <3>1. \A x \in Sid : drop'[x] = "no"
      BY <1>0, <2>1, <2>4 DEF RunSubmit, LoopInv
    <3>2. \A q \in Req : pc'[q] = "make" => pc[q] = "make" /\ cookie'[q] \in Sid
      BY <1>0, <2>4 DEF RunSubmit, Goto, TypeOK, TaskType, Task, IInv, CookieInv
    <3> QED BY <3>1, <3>2 DEF GoingInv
  <2>5. CASE Lookup(r)
    <3>1. UNCHANGED <<workers, owner, queue>>
      BY <2>5 DEF Lookup, poolVars, runVars
    <3>2. \A q \in Req : pc'[q] = "make" => pc[q] = "make" /\ cookie'[q] = cookie[q]
      BY <1>0, <2>5 DEF Lookup, Goto, TypeOK, TaskType, Task
    <3> QED BY <1>0, <2>1, <3>1, <3>2 DEF GoingInv, Sole
  <2>6. CASE Refused(r) \/ Touch(r) \/ RunCheck(r) \/ Answered(r)
    <3>1. UNCHANGED <<poolVars, queue, cookie>>
      BY <2>6 DEF Refused, Touch, RunCheck, Answered, runVars
    <3>2. \A q \in Req : pc'[q] = "make" => pc[q] = "make"
      BY <1>0, <2>6 DEF Refused, Touch, RunCheck, Answered, Goto, TypeOK, TaskType, Task
    <3> QED BY <1>3, <2>1, <3>1, <3>2
  <2> QED BY <1>6, <2>2, <2>3, <2>4, <2>5, <2>6 DEF Request
<1>7. ASSUME NEW w \in Thread, ThreadStep(w) PROVE GoingInv'
  <2>1. UNCHANGED <<drop, workers, owner, closed, shut, pc, cookie>>
    BY <1>7 DEF ThreadStep, dropVars, poolVars
  <2>2. \A v \in Thread : queue[v] = <<>> => queue'[v] = <<>>
    BY <1>0, <1>7 DEF ThreadStep, Resolve, OpenCache, FillCache, Connect, Operate,
       Reconnect, Cleanup, Running, Finish, TypeOK, RunType
  <2> QED BY <1>0, <2>1, <2>2 DEF GoingInv, Sole
<1>8. CASE Sweep \/ CloseAll \/ UNCHANGED vars \/ (\E t \in Task : GiveUp(t))
  BY <1>3, <1>8 DEF Sweep, CloseAll, GiveUp, vars, dropVars, runVars, taskVars
<1> QED BY <1>4, <1>5, <1>6, <1>7, <1>8 DEF Next

(* A worker with an open connection is its session's or closed.            *)
LEMMA HandleNext ==
  ASSUME IInv, TicketsInv, HandlesInv, [Next]_vars
  PROVE  HandleInv'
<1> USE ConstantsAssumption
<1>0. TypeOK /\ OwnerInv /\ LoopInv /\ ClosedInv /\ GoingInv /\ HandleInv
  BY DEF IInv, HandlesInv
<1>h. \A w \in conn : w \in Thread /\ (owner[w] # None => owner[w] \in Sid)
  BY <1>0 DEF TypeOK, WorldType, PoolType
<1>1. ASSUME NEW s \in Sid, Login(s) \/ Logout(s) \/ ShutRegistry(s) \/ Lapse(s) \/ SweepDrop(s)
      PROVE  HandleInv'
  <2>1. UNCHANGED conn
    BY <1>1 DEF Login, LoginStart, Resolved, LoginFails, Ticketed, SignedIn, ConnectFails, Logout,
       ShutRegistry, Lapse, SweepDrop, worldVars
  <2>2. \A x \in Sid : x \in sessions => x \in sessions' \/ drop'[x] = "unregister"
    BY <1>0, <1>1 DEF Login, LoginStart, Resolved, LoginFails, Ticketed, SignedIn, ConnectFails, Logout,
       ShutRegistry, Lapse, SweepDrop, Pop, storeVars, TypeOK, DropType
  <2>3. \A x \in Sid : drop[x] = "unregister" => drop'[x] = "unregister"
    BY <1>0, <1>1 DEF Login, LoginStart, Resolved, LoginFails, Ticketed, SignedIn, ConnectFails, Logout,
       ShutRegistry, Lapse, SweepDrop, Pop, dropVars, TypeOK, DropType
  <2>4. closed \subseteq closed' /\ \A w \in Thread : owner[w] # None => owner'[w] = owner[w]
    BY <1>0, <1>1 DEF Login, LoginStart, Resolved, LoginFails, Ticketed, SignedIn, ConnectFails, Logout,
       ShutRegistry, Lapse, SweepDrop, CloseWorker, NewWorker, Fresh, poolVars, TypeOK, PoolType
  <2>5. \A x \in Sid : workers'[x] = workers[x] \/ workers[x] \in closed' \/ workers[x] = None
    BY <1>0, <1>1 DEF Login, LoginStart, Resolved, LoginFails, Ticketed, SignedIn, ConnectFails, Logout,
       ShutRegistry, Lapse, SweepDrop, CloseWorker, NewWorker, Fresh, poolVars, TypeOK, PoolType,
       IInv, LoginInv, LoginOk
  <2> QED BY <1>0, <1>h, <2>1, <2>2, <2>3, <2>4, <2>5 DEF HandleInv
<1>2. ASSUME NEW s \in Sid, Drop(s) PROVE HandleInv'
  <2>1. UNCHANGED <<conn, owner, sessions>> /\ closed \subseteq closed'
    BY <1>2 DEF Drop, Unregister, QueueCleanup, ShutPool, Unlink, DropStep, poolVars, worldVars, storeVars
  <2>2. \A x \in Sid : drop[x] = "unregister" => drop'[x] = "unregister" \/ workers[x] \in closed'
    BY <1>0, <1>2 DEF Drop, Unregister, QueueCleanup, ShutPool, Unlink, DropStep, TypeOK, DropType
  <2>3. \A x \in Sid : workers'[x] = workers[x] \/ workers[x] \in closed'
    BY <1>0, <1>2 DEF Drop, Unregister, QueueCleanup, ShutPool, Unlink, DropStep, poolVars, TypeOK, PoolType
  <2> QED BY <1>0, <1>h, <2>1, <2>2, <2>3 DEF HandleInv
<1>3. ASSUME NEW r \in Req, Request(r) PROVE HandleInv'
  <2>1. UNCHANGED <<conn, sessions, drop, closed>>
    BY <1>0, <1>3 DEF Request, Lookup, Refused, Touch, GetWorker, MakeWorker, RunCheck, RunSubmit,
       Answered, Expired, LoopInv, dropVars, storeVars, poolVars, worldVars, TypeOK, StoreType
  <2>2. \A w \in Thread : owner[w] # None => owner'[w] = owner[w]
    BY <1>0, <1>3 DEF Request, Lookup, Refused, Touch, GetWorker, MakeWorker, RunCheck, RunSubmit,
       Answered, NewWorker, Fresh, poolVars, TypeOK, PoolType
  <2>3. \A x \in Sid : workers'[x] # workers[x] => x \notin sessions /\ drop[x] # "unregister"
    <3>1. CASE MakeWorker(r)
      <4>1. pc[r] = "make" /\ cookie[r] \in Sid /\ \A x \in Sid : x # cookie[r] => workers'[x] = workers[x]
        BY <1>0, <3>1 DEF MakeWorker, NewWorker, TypeOK, PoolType, TaskType, IInv, CookieInv
      <4> QED BY <1>0, <4>1 DEF GoingInv, IInv, CookieInv
    <3>2. CASE ~MakeWorker(r)
      BY <1>3, <3>2 DEF Request, Lookup, Refused, Touch, GetWorker, RunCheck, RunSubmit, Answered, poolVars
    <3> QED BY <3>1, <3>2
  <2> QED BY <1>0, <1>h, <2>1, <2>2, <2>3 DEF HandleInv
<1>4. ASSUME NEW w \in Thread, ThreadStep(w) PROVE HandleInv'
  <2>1. UNCHANGED <<sessions, drop, workers, owner, closed>>
    BY <1>4 DEF ThreadStep, storeVars, dropVars, poolVars
  <2>2. CASE conn' \subseteq conn
    BY <1>0, <2>1, <2>2 DEF HandleInv
  <2>3. CASE Connect(w) /\ w \notin conn /\ conn' = conn \cup {w} /\ ccache[owner[w]] = "ticket"
    <3>0. PICK s \in Sid : s = owner[w]
      BY <1>0, <2>3 DEF Connect, Running, OwnerInv, TypeOK, PoolType
    <3>1. queue[w] # <<>> /\ Head(queue[w]).kind = "op" /\ s # None
      BY <2>3 DEF Connect, Running
    <3>2. s \in sessions \/ drop[s] # "no" \/ pc[s] = "kinit"
      BY <2>3, <3>0, <3>1 DEF TicketsInv, TicketInv
    <3>3. ASSUME s \in sessions
          PROVE  w \in closed \/ (workers[s] = w /\ (s \in sessions \/ drop[s] = "unregister"))
      BY <3>0, <3>1, <3>3 DEF IInv, StoredInv, Sole
    <3>4. ASSUME drop[s] = "unregister"
          PROVE  w \in closed \/ (workers[s] = w /\ (s \in sessions \/ drop[s] = "unregister"))
      BY <1>0, <3>0, <3>1, <3>4 DEF GoingInv, Sole
    <3>5. ASSUME drop[s] \in {"cleanup", "shutdown", "unlink"}
          PROVE  w \in closed \/ (workers[s] = w /\ (s \in sessions \/ drop[s] = "unregister"))
      BY <1>0, <3>0, <3>1, <3>5 DEF GoingInv
    <3>6. pc[s] # "kinit"
      <4> SUFFICES ASSUME pc[s] = "kinit" PROVE FALSE
        OBVIOUS
      <4>1. w = workers[s]
        BY <3>0, <3>1 DEF IInv, LoginInv, LoginOk, Sole
      <4>2. queue[w][1].kind = "kinit"
        BY <3>0, <3>1, <4>1 DEF IInv, LoginInv, LoginOk
      <4>3. Head(queue[w]) = queue[w][1]
        BY <1>0, <3>0, <3>1, QueueLemma DEF TypeOK, RunType
      <4> QED BY <3>0, <3>1, <4>2, <4>3
    <3>7. w \in closed \/ (workers[s] = w /\ (s \in sessions \/ drop[s] = "unregister"))
      BY <1>0, <3>0, <3>1, <3>2, <3>3, <3>4, <3>5, <3>6 DEF TypeOK, DropType, IInv, StoredInv, GoingInv, Sole
    <3> QED BY <1>0, <2>1, <2>3, <3>0, <3>1, <3>7 DEF HandleInv
  <2> QED BY <1>4, <2>2, <2>3 DEF ThreadStep, Resolve, OpenCache, FillCache, Connect, Operate,
     Reconnect, Cleanup, worldVars
<1>5. CASE Sweep \/ CloseAll \/ UNCHANGED vars \/ (\E t \in Task : GiveUp(t))
  BY <1>0, <1>5 DEF Sweep, CloseAll, GiveUp, vars, storeVars, dropVars, poolVars, worldVars, HandleInv
<1> QED BY <1>1, <1>2, <1>3, <1>4, <1>5 DEF Next

(* No worker is closing and no connection is open at the start.            *)
LEMMA HandlesInit ==
  ASSUME Init, Lapsing = {}
  PROVE  HandlesInv
  BY ConstantsAssumption DEF Init, HandlesInv, LoopInv, ClosedInv, LastInv, Closing, GoingInv, HandleInv, Task

(* Every step, if no session lapses.                                       *)
LEMMA HandlesNext ==
  ASSUME Lapsing = {}
  PROVE  IInv /\ TicketsInv /\ HandlesInv /\ [Next]_vars => HandlesInv'
  BY LoopNext, ClosedNext, LastNext, GoingNext, HandleNext DEF HandlesInv

(* While no session lapses and nobody stops waiting for kinit, whatever    *)
(* ends leaves neither a ticket nor a connection behind.                   *)
THEOREM NothingLeftBehindHolds ==
  ASSUME Lapsing = {}, "kinit" \notin Slow
  PROVE  Spec => []NothingLeftBehind
<1>1. TicketsInv => NoStrayTicket
  BY DEF TicketsInv, TicketInv, NoStrayTicket, Settled, Handled, LoginEnds
<1>2. IInv /\ HandlesInv => ClosedHoldsNoHandle
  BY DEF IInv, TypeOK, PoolType, HandlesInv, LastInv, Closing, ClosedHoldsNoHandle
<1>3. IInv /\ TicketsInv /\ HandlesInv => ShutdownEmpties
  <2> SUFFICES ASSUME IInv, TicketsInv, HandlesInv, Stopped
               PROVE  conn = {} /\ \A s \in Sid : ccache[s] = "absent"
    BY DEF ShutdownEmpties
  <2>1. \A s \in Sid : drop[s] = "no"
    BY LoopFreeIs DEF Stopped, IInv, HandlesInv
  <2>2. sessions = {} /\ \A s \in Sid : pc[s] # "kinit"
    BY DEF Stopped, LoopFree, IInv, ClosingInv, Handled, LoginEnds
  <2>3. \A s \in Sid : ccache[s] = "absent"
    BY <2>1, <2>2 DEF TicketsInv, TicketInv
  <2>4. ASSUME NEW w \in conn PROVE FALSE
    <3>1. w \in Thread /\ owner[w] \in Sid /\ queue[w] = <<>>
      BY <2>4 DEF HandlesInv, HandleInv, IInv, TypeOK, WorldType, PoolType, Stopped
    <3>2. w \in closed
      BY <2>4, <3>1, ConstantsAssumption DEF HandlesInv, HandleInv, Stopped
    <3>3. w \in shut
      BY <2>1, <3>2 DEF HandlesInv, ClosedInv
    <3> QED BY <2>4, <3>1, <3>3 DEF HandlesInv, LastInv, Closing
  <2> QED BY <2>3, <2>4
<1>4. IInv /\ TicketsInv /\ HandlesInv => NothingLeftBehind
  BY <1>1, <1>2, <1>3 DEF NothingLeftBehind
<1>5. Init => TicketsInv /\ HandlesInv
  BY TicketsInit, HandlesInit
<1>6. IInv /\ TicketsInv /\ HandlesInv /\ [Next]_vars => TicketsInv' /\ HandlesInv'
  BY TicketsNext, HandlesNext
<1> QED BY <1>4, <1>5, <1>6, Invariant, PTL DEF Spec
=============================================================================
