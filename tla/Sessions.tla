------------------------------ MODULE Sessions ------------------------------
(***************************************************************************)
(* The life of a signed-in session: the session store, the registry of     *)
(* worker threads, the worker threads with their queues, the Kerberos      *)
(* credential caches on tmpfs, the sign-in, sign-out and request handlers, *)
(* the sweeper and the shutdown of the process.                            *)
(*                                                                         *)
(* Three kinds of thread interleave:                                       *)
(*   - the event loop runs one coroutine at a time, up to its next await;  *)
(*   - FastAPI runs the synchronous dependencies of a request (the store   *)
(*     lookup, the registry lookup) on a thread pool, one step of them at  *)
(*     a time between any two steps of the others;                         *)
(*   - each session's worker thread runs the calls of its queue in order.  *)
(*                                                                         *)
(* Sources: auth/session.py, core/executor.py, ad/access.py, auth/deps.py, *)
(* api/v1/auth.py, acquire_ticket and destroy_ticket of auth/kerberos.py,  *)
(* and the sweeper and lifespan of main.py, in src/backend/samadcon.       *)
(***************************************************************************)
EXTENDS Naturals, Sequences, FiniteSets

CONSTANTS
  Sid,          \* session ids, one sign-in attempt each
  Req,          \* authenticated requests, one call each
  Writes,       \* the requests served by ad_write; the others use ad_read
  Thread,       \* worker threads the process may start
  None,         \* no worker, no session, the event loop
  MaxSessions,  \* ExecutorRegistry.max_sessions
  Lapsing,      \* sessions whose idle timeout or ticket may run out
  BadName,      \* sign-ins whose user name parse_principal refuses
  Slow          \* what a caller may stop waiting for: a set of task states

Task == Sid \cup Req

ASSUME ConstantsAssumption ==
  /\ Sid \cap Req = {}
  /\ None \notin Sid \cup Req \cup Thread
  /\ Writes \subseteq Req
  /\ MaxSessions \in Nat

VARIABLES
  sessions,  \* SessionStore._sessions, the ids in it
  clock,     \* per session: "live", "idle" (last_seen too old), "over" (ticket ended)
  workers,   \* ExecutorRegistry._workers
  owner,     \* the session id a worker thread was made for
  closed,    \* workers with _closed set
  shut,      \* workers whose pool accepts no more work
  queue,     \* per worker the calls submitted and not finished, first one running
  phase,     \* how far the running call is
  conn,      \* workers whose state holds an open DirectoryConnection
  ccache,    \* per session the credential cache: "absent", "empty", "ticket"
  applied,   \* per write request, how often its change reached the directory
  pc,        \* where each sign-in and each request is
  answer,    \* what its awaited call has come to
  cookie,    \* the session id a request carries
  hand,      \* the worker a request's dependency returned
  drop,      \* how far SessionStore.drop is with a session it has popped
  dropper,   \* who runs it: a request's pool thread, or None for the event loop
  victim,    \* the worker it is closing
  stale,     \* the sweeper's and close_all's list of sessions still to drop
  mode       \* "up", then "closing" once the lifespan has ended

storeVars  == <<sessions, clock>>
dropVars   == <<drop, dropper, victim>>
poolVars   == <<workers, owner, closed, shut>>
runVars    == <<queue, phase>>
worldVars  == <<conn, ccache, applied>>
taskVars   == <<pc, answer, cookie, hand>>
sweepVars  == <<stale, mode>>
vars == <<storeVars, dropVars, poolVars, runVars, worldVars, taskVars, sweepVars>>

LoginWaits == {"resolve", "kinit", "connect"}
Waits      == LoginWaits \cup {"wait"}
LoginEnds  == {"in", "failed", "throttled", "refused"}
SidStates  == {"new"} \cup LoginWaits \cup LoginEnds
ReqStates  == {"idle", "expired", "touch", "found", "make", "have", "submit",
               "wait", "done"}
Job == [kind : {"resolve", "kinit", "op", "cleanup"}, task : Task \cup {None}]

StoreType ==
  /\ sessions \subseteq Sid
  /\ clock \in [Sid -> {"live", "idle", "over"}]
DropType ==
  /\ drop \in [Sid -> {"no", "unregister", "cleanup", "shutdown", "unlink"}]
  /\ dropper \in [Sid -> Req \cup {None}]
  /\ victim \in [Sid -> Thread \cup {None}]
PoolType ==
  /\ workers \in [Sid -> Thread \cup {None}]
  /\ owner \in [Thread -> Sid \cup {None}]
  /\ closed \subseteq Thread
  /\ shut \subseteq Thread
RunType ==
  /\ queue \in [Thread -> Seq(Job)]
  /\ phase \in [Thread -> {"start", "file", "call", "again"}]
WorldType ==
  /\ conn \subseteq Thread
  /\ ccache \in [Sid -> {"absent", "empty", "ticket"}]
  /\ applied \in [Writes -> Nat]
TaskType ==
  /\ pc \in [Task -> SidStates \cup ReqStates]
  /\ \A s \in Sid : pc[s] \in SidStates
  /\ \A r \in Req : pc[r] \in ReqStates
  /\ answer \in [Task -> {"none", "ok", "error", "timeout"}]
  /\ cookie \in [Req -> Sid \cup {None}]
  /\ hand \in [Req -> Thread \cup {None}]
SweepType ==
  /\ stale \subseteq Sid
  /\ mode \in {"up", "closing"}
TypeOK == StoreType /\ DropType /\ PoolType /\ RunType /\ WorldType /\ TaskType /\ SweepType

Init ==
  /\ sessions = {} /\ clock = [s \in Sid |-> "live"]
  /\ workers = [s \in Sid |-> None] /\ owner = [w \in Thread |-> None]
  /\ closed = {} /\ shut = {}
  /\ queue = [w \in Thread |-> <<>>] /\ phase = [w \in Thread |-> "start"]
  /\ conn = {} /\ ccache = [s \in Sid |-> "absent"]
  /\ applied = [r \in Writes |-> 0]
  /\ pc = [t \in Task |-> IF t \in Sid THEN "new" ELSE "idle"]
  /\ answer = [t \in Task |-> "none"]
  /\ cookie = [r \in Req |-> None] /\ hand = [r \in Req |-> None]
  /\ drop = [s \in Sid |-> "no"] /\ dropper = [s \in Sid |-> None]
  /\ victim = [s \in Sid |-> None]
  /\ stale = {} /\ mode = "up"

---------------------------------------------------------------------------
(* The event loop is between two coroutines: nobody on it is inside a drop *)
(* or between the closed check and the submission of SessionWorker.run.    *)
DroppingOnLoop == \E s \in Sid : drop[s] # "no" /\ dropper[s] = None
LoopFree ==
  /\ ~DroppingOnLoop
  /\ stale = {}
  /\ \A r \in Req : pc[r] # "submit"

\* Faulty variant: the idle timeout alone, the ticket's end forgotten.
ExpiredIdleOnly(s) == clock[s] = "idle"
Expired(s) == clock[s] # "live"

(* The registry is full: ExecutorRegistry.get makes no further worker.     *)
Full == Cardinality({s \in Sid : workers[s] # None}) >= MaxSessions

(* A thread nobody has used: SessionWorker.__init__.                       *)
Fresh == {w \in Thread : owner[w] = None}
NewWorker(s, w) ==
  /\ w \in Fresh
  /\ owner' = [owner EXCEPT ![w] = s]
  /\ workers' = [workers EXCEPT ![s] = w]

\* Faulty variant: the call forgets who waits for it.
CallBare(kind, t) == [kind |-> kind]
Call(kind, t) == [kind |-> kind, task |-> t]
Submit(w, job) == queue' = [queue EXCEPT ![w] = Append(@, job)]
Goto(t, state) == pc' = [pc EXCEPT ![t] = state]

(* SessionStore.drop takes the session out of the store under the lock;    *)
(* whoever got it goes on to close its worker and remove its ticket.       *)
\* Faulty variant: the worker is closed and the ticket removed first.
PopLast(s, who) ==
  IF s \in sessions
  THEN /\ drop' = [drop EXCEPT ![s] = "unregister"]
       /\ dropper' = [dropper EXCEPT ![s] = who]
       /\ UNCHANGED <<storeVars, victim>>
  ELSE UNCHANGED <<storeVars, dropVars>>
Pop(s, who) ==
  IF s \in sessions
  THEN /\ sessions' = sessions \ {s}
       /\ drop' = [drop EXCEPT ![s] = "unregister"]
       /\ dropper' = [dropper EXCEPT ![s] = who]
       /\ UNCHANGED <<clock, victim>>
  ELSE UNCHANGED <<storeVars, dropVars>>

(* ExecutorRegistry.drop in one step, where no other thread can hold the   *)
(* worker: closed, the cleanup queued behind what is there, the pool shut. *)
CloseWorker(s) ==
  /\ workers' = [workers EXCEPT ![s] = None]
  /\ closed' = closed \cup {workers[s]}
  /\ shut' = shut \cup {workers[s]}
  /\ Submit(workers[s], Call("cleanup", None))
  /\ UNCHANGED owner

---------------------------------------------------------------------------
(* Signing in: POST /auth/login.                                           *)

(* A new session id and its worker, and the first call on it; with the     *)
(* registry full the request is refused before anything is made.           *)
LoginStart(s) ==
  /\ mode = "up" /\ LoopFree /\ pc[s] = "new"
  /\ \/ Full /\ Goto(s, "refused") /\ UNCHANGED <<poolVars, queue>>
     \/ /\ ~Full
        /\ \E w \in Thread : NewWorker(s, w) /\ Submit(w, Call("resolve", s))
        /\ Goto(s, "resolve")
        /\ UNCHANGED <<closed, shut>>
  /\ UNCHANGED <<storeVars, dropVars, phase, worldVars, answer, cookie, hand,
                 sweepVars>>

(* The target is known: a refused name ends the handler where it stands; a *)
(* throttled one drops the worker; otherwise the ticket is asked for.      *)
Resolved(s) ==
  /\ LoopFree /\ pc[s] = "resolve" /\ answer[s] = "ok"
  /\ \/ /\ s \in BadName
        /\ Goto(s, "failed")
        /\ UNCHANGED <<poolVars, queue, answer>>
     \/ /\ s \notin BadName
        /\ Goto(s, "throttled") /\ CloseWorker(s)
        /\ UNCHANGED answer
     \/ /\ s \notin BadName
        /\ Submit(workers[s], Call("kinit", s))
        /\ Goto(s, "kinit") /\ answer' = [answer EXCEPT ![s] = "none"]
        /\ UNCHANGED poolVars
  /\ UNCHANGED <<storeVars, dropVars, phase, worldVars, cookie, hand, sweepVars>>

(* _fail: the worker is dropped, the ticket removed, the failure recorded. *)
LoginFails(s) ==
  /\ LoopFree /\ pc[s] \in {"resolve", "kinit"}
  /\ answer[s] \in {"error", "timeout"}
  /\ Goto(s, "failed") /\ CloseWorker(s)
  /\ ccache' = [ccache EXCEPT ![s] = "absent"]
  /\ UNCHANGED <<storeVars, dropVars, phase, conn, applied, answer, cookie, hand,
                 sweepVars>>

(* The ticket is there: the session enters the store and connects.         *)
\* Faulty variant: a ticket request that timed out is taken for granted.
TicketedLate(s) ==
  /\ LoopFree /\ pc[s] = "kinit" /\ answer[s] \in {"ok", "timeout"}
  /\ sessions' = sessions \cup {s}
  /\ Submit(workers[s], Call("op", s))
  /\ Goto(s, "connect") /\ answer' = [answer EXCEPT ![s] = "none"]
  /\ UNCHANGED <<clock, dropVars, poolVars, phase, worldVars, cookie, hand, sweepVars>>
Ticketed(s) ==
  /\ LoopFree /\ pc[s] = "kinit" /\ answer[s] = "ok"
  /\ sessions' = sessions \cup {s}
  /\ Submit(workers[s], Call("op", s))
  /\ Goto(s, "connect") /\ answer' = [answer EXCEPT ![s] = "none"]
  /\ UNCHANGED <<clock, dropVars, poolVars, phase, worldVars, cookie, hand, sweepVars>>

(* The first connection answered: the cookie goes out.                     *)
SignedIn(s) ==
  /\ LoopFree /\ pc[s] = "connect" /\ answer[s] = "ok"
  /\ Goto(s, "in")
  /\ UNCHANGED <<storeVars, dropVars, poolVars, runVars, worldVars, answer, cookie,
                 hand, sweepVars>>

(* The DC did not accept it, or did not answer: the session is dropped.    *)
ConnectFails(s) ==
  /\ LoopFree /\ pc[s] = "connect" /\ answer[s] \in {"error", "timeout"}
  /\ Goto(s, "failed") /\ Pop(s, None)
  /\ UNCHANGED <<poolVars, runVars, worldVars, answer, cookie, hand, sweepVars>>

(* POST /auth/logout, on the event loop: whether store.get finds it        *)
(* expired or not, the session named by the cookie is dropped.             *)
Logout(s) ==
  /\ mode = "up" /\ LoopFree /\ pc[s] = "in" /\ s \in sessions
  /\ Pop(s, None)
  /\ UNCHANGED <<poolVars, runVars, worldVars, taskVars, sweepVars>>

---------------------------------------------------------------------------
(* SessionStore.drop after the pop, one step per statement that another    *)
(* thread could come between.                                              *)

DropStep(s, from, to) ==
  /\ drop[s] = from
  /\ drop' = [drop EXCEPT ![s] = to]
  /\ UNCHANGED <<storeVars, dropper, phase, taskVars, sweepVars>>

(* ExecutorRegistry.drop pops the worker, SessionWorker.close marks it. A  *)
(* popped session always has one (SessionServed), so the test for None in  *)
(* the code has a single outcome.                                          *)
Unregister(s) ==
  /\ DropStep(s, "unregister", "cleanup")
  /\ workers' = [workers EXCEPT ![s] = None]
  /\ closed' = closed \cup {workers[s]}
  /\ victim' = [victim EXCEPT ![s] = workers[s]]
  /\ UNCHANGED <<owner, shut, queue, worldVars>>

(* close() queues the release of the handles behind the pending calls ...  *)
\* Faulty variant: the pool is shut first and refuses the cleanup.
QueueNothing(s) ==
  /\ DropStep(s, "cleanup", "shutdown")
  /\ UNCHANGED <<poolVars, victim, queue, worldVars>>
QueueCleanup(s) ==
  /\ DropStep(s, "cleanup", "shutdown")
  /\ Submit(victim[s], Call("cleanup", None))
  /\ UNCHANGED <<poolVars, victim, worldVars>>

(* ... and then lets the pool take no more work.                           *)
\* Faulty variant: the pending calls are thrown away with the pool.
ShutPoolNow(s) ==
  /\ DropStep(s, "shutdown", "unlink")
  /\ shut' = shut \cup {victim[s]}
  /\ queue' = [queue EXCEPT ![victim[s]] = IF @ = <<>> THEN @ ELSE <<Head(@)>>]
  /\ victim' = [victim EXCEPT ![s] = None]
  /\ UNCHANGED <<workers, owner, closed, worldVars>>
ShutPool(s) ==
  /\ DropStep(s, "shutdown", "unlink")
  /\ shut' = shut \cup {victim[s]}
  /\ victim' = [victim EXCEPT ![s] = None]
  /\ UNCHANGED <<workers, owner, closed, queue, worldVars>>

(* destroy_ticket removes the credential cache.                            *)
\* Faulty variant: only a request that found the session expired removes it.
UnlinkOnRequest(s) ==
  /\ DropStep(s, "unlink", "no")
  /\ ccache' = IF dropper[s] = None THEN ccache ELSE [ccache EXCEPT ![s] = "absent"]
  /\ UNCHANGED <<poolVars, victim, queue, conn, applied>>
Unlink(s) ==
  /\ DropStep(s, "unlink", "no")
  /\ ccache' = [ccache EXCEPT ![s] = "absent"]
  /\ UNCHANGED <<poolVars, victim, queue, conn, applied>>

Drop(s) == Unregister(s) \/ QueueCleanup(s) \/ ShutPool(s) \/ Unlink(s)

(* Time passes for a session in the store.                                 *)
Lapse(s) ==
  /\ s \in sessions \cap Lapsing
  /\ \/ clock[s] = "live" /\ clock' = [clock EXCEPT ![s] = "idle"]
     \/ clock[s] # "over" /\ clock' = [clock EXCEPT ![s] = "over"]
  /\ UNCHANGED <<sessions, dropVars, poolVars, runVars, worldVars, taskVars, sweepVars>>

(* SessionStore.sweep lists the expired sessions under the lock ...        *)
Sweep ==
  /\ mode = "up" /\ LoopFree
  /\ stale' = {s \in sessions : Expired(s)} /\ stale' # {}
  /\ UNCHANGED <<storeVars, dropVars, poolVars, runVars, worldVars, taskVars, mode>>

(* ... and drops them one after the other without an await in between, as  *)
(* close_all does with its list.                                           *)
SweepDrop(s) ==
  /\ s \in stale /\ ~DroppingOnLoop
  /\ stale' = stale \ {s}
  /\ Pop(s, None)
  /\ UNCHANGED <<poolVars, runVars, worldVars, taskVars, mode>>

---------------------------------------------------------------------------
(* An authenticated request. Its dependencies run on the thread pool.      *)

(* current_session: SessionStore.get with the cookie's session id. The     *)
(* handler's answer to a session that is not there is 401.                 *)
Lookup(r) ==
  /\ mode = "up" /\ pc[r] = "idle"
  /\ \E s \in {x \in Sid : pc[x] = "in"} :
       /\ cookie' = [cookie EXCEPT ![r] = s]
       /\ \/ /\ s \notin sessions
             /\ Goto(r, "done") /\ UNCHANGED <<storeVars, dropVars>>
          \/ /\ s \in sessions /\ Expired(s)
             /\ Goto(r, "expired") /\ Pop(s, r)
          \/ /\ s \in sessions /\ ~Expired(s)
             /\ Goto(r, "touch") /\ UNCHANGED <<storeVars, dropVars>>
  /\ UNCHANGED <<poolVars, runVars, worldVars, answer, hand, sweepVars>>

(* The drop this request runs is over: SessionExpired.                     *)
Refused(r) ==
  /\ pc[r] = "expired" /\ drop[cookie[r]] = "no"
  /\ Goto(r, "done")
  /\ UNCHANGED <<storeVars, dropVars, poolVars, runVars, worldVars, answer, cookie,
                 hand, sweepVars>>

Touch(r) ==
  /\ pc[r] = "touch" /\ Goto(r, "found")
  /\ clock' = IF clock[cookie[r]] = "idle"
              THEN [clock EXCEPT ![cookie[r]] = "live"] ELSE clock
  /\ UNCHANGED <<sessions, dropVars, poolVars, runVars, worldVars, answer, cookie,
                 hand, sweepVars>>

(* session_worker: ExecutorRegistry.get looks the worker up ...            *)
\* Faulty variant: a worker of its own for every request.
GetWorkerAnew(r) ==
  /\ pc[r] = "found" /\ Goto(r, "make") /\ UNCHANGED hand
  /\ UNCHANGED <<storeVars, dropVars, poolVars, runVars, worldVars, answer, cookie,
                 sweepVars>>
GetWorker(r) ==
  /\ pc[r] = "found"
  /\ LET w == workers[cookie[r]] IN
       \/ w # None /\ Goto(r, "have") /\ hand' = [hand EXCEPT ![r] = w]
       \/ w = None /\ Full /\ Goto(r, "done") /\ UNCHANGED hand
       \/ w = None /\ ~Full /\ Goto(r, "make") /\ UNCHANGED hand
  /\ UNCHANGED <<storeVars, dropVars, poolVars, runVars, worldVars, answer, cookie,
                 sweepVars>>

(* ... and, finding none and room for one, makes one.                      *)
MakeWorker(r) ==
  /\ pc[r] = "make"
  /\ \E w \in Thread : /\ NewWorker(cookie[r], w)
                       /\ hand' = [hand EXCEPT ![r] = w]
  /\ Goto(r, "have")
  /\ UNCHANGED <<storeVars, dropVars, closed, shut, runVars, worldVars, answer, cookie,
                 sweepVars>>

(* The endpoint, on the event loop: SessionWorker.run checks _closed ...   *)
RunCheck(r) ==
  /\ LoopFree /\ pc[r] = "have"
  /\ Goto(r, IF hand[r] \in closed THEN "done" ELSE "submit")
  /\ UNCHANGED <<storeVars, dropVars, poolVars, runVars, worldVars, answer, cookie,
                 hand, sweepVars>>

(* ... and submits the call; a pool that was shut in between refuses it.   *)
RunSubmit(r) ==
  /\ pc[r] = "submit"
  /\ \/ hand[r] \in shut /\ Goto(r, "done") /\ UNCHANGED queue
     \/ hand[r] \notin shut /\ Goto(r, "wait") /\ Submit(hand[r], Call("op", r))
  /\ UNCHANGED <<storeVars, dropVars, poolVars, phase, worldVars, answer, cookie, hand,
                 sweepVars>>

Answered(r) ==
  /\ LoopFree /\ pc[r] = "wait" /\ answer[r] # "none"
  /\ Goto(r, "done")
  /\ UNCHANGED <<storeVars, dropVars, poolVars, runVars, worldVars, answer, cookie,
                 hand, sweepVars>>

(* wait_for runs out: the caller gets OperationTimeout, the call goes on.  *)
GiveUp(t) ==
  /\ pc[t] \in Waits \cap Slow /\ answer[t] = "none"
  /\ answer' = [answer EXCEPT ![t] = "timeout"]
  /\ UNCHANGED <<storeVars, dropVars, poolVars, runVars, worldVars, pc, cookie, hand,
                 sweepVars>>

---------------------------------------------------------------------------
(* A worker thread runs the first call of its queue.                       *)

Running(w, kind, at) ==
  /\ queue[w] # <<>> /\ Head(queue[w]).kind = kind /\ phase[w] = at

(* The call returns or raises; an abandoned result is discarded.           *)
Finish(w, result) ==
  LET t == Head(queue[w]).task IN
    /\ queue' = [queue EXCEPT ![w] = Tail(@)]
    /\ phase' = [phase EXCEPT ![w] = "start"]
    /\ answer' = IF t \in Task /\ answer[t] = "none"
                 THEN [answer EXCEPT ![t] = result] ELSE answer

Resolve(w) ==
  /\ Running(w, "resolve", "start")
  /\ \E result \in {"ok", "error"} : Finish(w, result)
  /\ UNCHANGED worldVars

(* acquire_ticket creates the file with tight permissions first, unless    *)
(* the password is missing or the realm cannot be registered ...           *)
OpenCache(w) ==
  /\ Running(w, "kinit", "start")
  /\ \/ /\ ccache' = [ccache EXCEPT ![owner[w]] = "empty"]
        /\ phase' = [phase EXCEPT ![w] = "file"]
        /\ UNCHANGED <<queue, answer>>
     \/ Finish(w, "error") /\ UNCHANGED ccache
  /\ UNCHANGED <<conn, applied>>

(* ... and has the ticket written to it, or removes it again.              *)
FillCache(w) ==
  /\ Running(w, "kinit", "file")
  /\ \E got \in BOOLEAN :
       /\ ccache' = [ccache EXCEPT ![owner[w]] = IF got THEN "ticket" ELSE "absent"]
       /\ Finish(w, IF got THEN "ok" ELSE "error")
  /\ UNCHANGED <<conn, applied>>

(* _connection: the cached connection, or a new one from the ticket.       *)
Connect(w) ==
  /\ Running(w, "op", "start")
  /\ \/ /\ w \in conn \/ ccache[owner[w]] = "ticket"
        /\ conn' = conn \cup {w}
        /\ phase' = [phase EXCEPT ![w] = "call"]
        /\ UNCHANGED <<queue, answer>>
     \/ /\ w \notin conn
        /\ Finish(w, "error") /\ UNCHANGED conn
  /\ UNCHANGED <<ccache, applied>>

(* The function runs. A write that fails may have changed the directory or *)
(* not.                                                                    *)
Operate(w) ==
  /\ Running(w, "op", "call") \/ Running(w, "op", "again")
  /\ LET t == Head(queue[w]).task IN
       \E result \in {"ok", "error"} :
         /\ Finish(w, result)
         /\ \/ t \in Writes /\ applied' = [applied EXCEPT ![t] = @ + 1]
            \/ (t \in Writes => result = "error") /\ UNCHANGED applied
  /\ UNCHANGED <<conn, ccache>>

(* ad_read only: the connection was lost; the handle is forgotten and the  *)
(* search goes to a new one, once.                                         *)
\* Faulty variant: a modification is sent again, too.
ReconnectAny(w) ==
  /\ Running(w, "op", "call")
  /\ LET t == Head(queue[w]).task IN
       applied' = IF t \in Writes THEN [applied EXCEPT ![t] = @ + 1] ELSE applied
  /\ ccache[owner[w]] = "ticket"
  /\ phase' = [phase EXCEPT ![w] = "again"]
  /\ UNCHANGED <<conn, queue, answer, ccache>>
Reconnect(w) ==
  /\ Running(w, "op", "call") /\ Head(queue[w]).task \notin Writes
  /\ \/ /\ ccache[owner[w]] = "ticket"
        /\ phase' = [phase EXCEPT ![w] = "again"]
        /\ UNCHANGED <<conn, queue, answer>>
     \/ conn' = conn \ {w} /\ Finish(w, "error")
  /\ UNCHANGED <<ccache, applied>>

(* close()'s _cleanup: every handle is closed on the thread that opened it.*)
Cleanup(w) ==
  /\ Running(w, "cleanup", "start")
  /\ conn' = conn \ {w}
  /\ Finish(w, "ok")
  /\ UNCHANGED <<ccache, applied>>

ThreadStep(w) ==
  /\ \/ Resolve(w) \/ OpenCache(w) \/ FillCache(w)
     \/ Connect(w) \/ Operate(w) \/ Reconnect(w) \/ Cleanup(w)
  /\ UNCHANGED <<storeVars, dropVars, poolVars, pc, cookie, hand, sweepVars>>

---------------------------------------------------------------------------
(* The lifespan ends once the server has answered its requests: close_all, *)
(* then ExecutorRegistry.shutdown.                                         *)
Handled == /\ \A s \in Sid : pc[s] \in {"new"} \cup LoginEnds
           /\ \A r \in Req : pc[r] \in {"idle", "done"}

\* Faulty variant: the store is left as it is.
CloseNone ==
  /\ mode = "up" /\ LoopFree /\ Handled
  /\ mode' = "closing" /\ stale' = {}
  /\ UNCHANGED <<storeVars, dropVars, poolVars, runVars, worldVars, taskVars>>
CloseAll ==
  /\ mode = "up" /\ LoopFree /\ Handled
  /\ mode' = "closing" /\ stale' = sessions
  /\ UNCHANGED <<storeVars, dropVars, poolVars, runVars, worldVars, taskVars>>

ShutRegistry(s) ==
  /\ mode = "closing" /\ LoopFree /\ workers[s] # None
  /\ CloseWorker(s)
  /\ UNCHANGED <<storeVars, dropVars, phase, worldVars, taskVars, sweepVars>>

(* The process has stopped.                                                *)
Stopped ==
  /\ mode = "closing" /\ LoopFree
  /\ \A s \in Sid : workers[s] = None
  /\ \A w \in Thread : queue[w] = <<>>

Login(s) == LoginStart(s) \/ Resolved(s) \/ LoginFails(s) \/ Ticketed(s)
              \/ SignedIn(s) \/ ConnectFails(s)
Request(r) == Lookup(r) \/ Refused(r) \/ Touch(r) \/ GetWorker(r) \/ MakeWorker(r)
                \/ RunCheck(r) \/ RunSubmit(r) \/ Answered(r)

Next ==
  \/ \E s \in Sid : Login(s) \/ Logout(s) \/ Drop(s) \/ Lapse(s) \/ SweepDrop(s)
                      \/ ShutRegistry(s)
  \/ \E r \in Req : Request(r)
  \/ \E t \in Task : GiveUp(t)
  \/ \E w \in Thread : ThreadStep(w)
  \/ Sweep
  \/ CloseAll
  \/ Stopped /\ UNCHANGED vars

(* The event loop and the thread pool run whatever is ready, the sweeper   *)
(* wakes every minute, and every blocking call ends: the LDAP searches,    *)
(* the SMB calls and kinit carry time limits of their own. Users need not  *)
(* sign in, sign out or send requests, and sessions need not lapse.        *)
Fairness ==
  /\ \A s \in Sid : /\ WF_vars(Resolved(s) \/ LoginFails(s) \/ Ticketed(s)
                                 \/ SignedIn(s) \/ ConnectFails(s))
                    /\ WF_vars(Drop(s)) /\ WF_vars(SweepDrop(s))
                    /\ WF_vars(ShutRegistry(s))
  /\ \A r \in Req : WF_vars((Request(r) /\ pc[r] # "idle"))
  /\ \A w \in Thread : WF_vars(ThreadStep(w))
  /\ WF_vars(Sweep)

Spec     == Init /\ [][Next]_vars
FairSpec == Spec /\ Fairness

---------------------------------------------------------------------------
(* A session in the store can be served: its ticket is on disk, and the    *)
(* registry still has the worker thread its sign-in made, open for calls.  *)
(* (SessionStore.drop pops the session before it closes and unlinks.)      *)
SessionServed ==
  \A s \in sessions :
    /\ ccache[s] = "ticket"
    /\ workers[s] # None
    /\ workers[s] \notin closed \cup shut

(* While a session is in the store no second thread has calls of it: its   *)
(* operations are serialised by the one queue of its worker, also when     *)
(* callers have stopped waiting (module docstring of core/executor.py).    *)
OneThreadPerSession ==
  \A s \in sessions, w \in Thread :
    owner[w] = s /\ queue[w] # <<>> => w = workers[s]

(* A modification reaches the directory at most once, whatever connection  *)
(* was lost and whoever stopped waiting (ad_write: "Never retried").       *)
WrittenOnce == \A r \in Writes : applied[r] <= 1

Settled == /\ Handled
           /\ \A s \in Sid : drop[s] = "no"
           /\ \A w \in Thread : queue[w] = <<>>

(* Once every handler has ended and every worker is idle, a ticket is on   *)
(* disk only for a session in the store: failed sign-ins, sign-outs and    *)
(* expiry leave none behind (main.py, the sweeper's comment).              *)
NoStrayTicket ==
  Settled => \A s \in Sid : ccache[s] # "absent" => s \in sessions

(* A worker whose pool is shut and whose queue has run dry holds no        *)
(* connection (SessionWorker.close: handles are released first, on the     *)
(* thread that opened them).                                               *)
ClosedHoldsNoHandle ==
  \A w \in shut : queue[w] = <<>> => w \notin conn

(* Once every handler has ended, the registry keeps one worker per session *)
(* in the store and no other (ExecutorRegistry's docstring).               *)
WorkerPerActiveSession ==
  Settled => \A s \in Sid : workers[s] # None => s \in sessions

(* Never do two threads run calls of the same session id (core/executor.py:*)
(* "operations of one session are serialised by construction").            *)
NeverTwoThreads ==
  \A v, w \in Thread :
    owner[v] = owner[w] /\ queue[v] # <<>> /\ queue[w] # <<>>
      /\ Head(queue[v]).kind = "op" /\ Head(queue[w]).kind = "op" => v = w

(* After the shutdown no ticket is on disk and no connection is open       *)
(* (lifespan: "Destroys every ticket and releases the Samba handles").     *)
ShutdownEmpties ==
  Stopped => conn = {} /\ \A s \in Sid : ccache[s] = "absent"

(* Whatever ends - a sign-in that fails, a session, a worker, the program -*)
(* leaves neither a ticket nor a connection behind.                        *)
NothingLeftBehind == NoStrayTicket /\ ClosedHoldsNoHandle /\ ShutdownEmpties

(* What a step that adds a session to the store may start from.            *)
OnlyTicketedEnter ==
  \A s \in Sid : s \in sessions' \ sessions => pc[s] = "kinit" /\ ccache[s] = "ticket"

(* A session id that has left the store never enters it again, and a       *)
(* sign-in that failed never enters it: no late answer revives it.         *)
NeverRevived == [][OnlyTicketedEnter]_vars

(* A session whose ticket has ended leaves the store and its credential    *)
(* cache is removed, whether or not its user comes back (the sweeper).     *)
LapsedTicketRemoved ==
  \A s \in Sid : (s \in sessions /\ clock[s] = "over")
                    ~> (s \notin sessions /\ ccache[s] = "absent")

(* Every sign-in and every request that waits gets its answer and ends,    *)
(* also when its session is dropped while its call is queued.              *)
HandlersEnd ==
  /\ \A s \in Sid : pc[s] \in LoginWaits ~> pc[s] \in LoginEnds
  /\ \A r \in Req : pc[r] \in Waits ~> pc[r] = "done"
=============================================================================
