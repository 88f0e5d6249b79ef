------------------------------- MODULE Server -------------------------------
(***************************************************************************)
(* A gldap Server: Run's accept loop, concurrent calls of Stop and Router, *)
(* the RWMutex and the connWg WaitGroup between them, and the connections  *)
(* of module Conn, each accepted by Run and counted in connWg.  A starter  *)
(* does what testdirectory.Start does after its go statement for Run: it   *)
(* calls Ready until that is true, and then dials.                         *)
(*                                                                         *)
(* The RWMutex prefers writers: a writer that waits (muWriter) keeps new   *)
(* readers out.  Run and Router hold it for one step, Stop holds the read  *)
(* lock (muReaders) from its first step to its return.                     *)
(***************************************************************************)
EXTENDS Conn

CONSTANTS
  Stoppers,     \* callers of Stop
  Starters,     \* callers of Ready that dial when it says true
  TLSListener,  \* Run was given WithTLSConfig
  Faults        \* calls of the net package that may fail, a subset of NetCalls

NetCalls == {"listen", "accept", "closeListener"}

ASSUME ServerAssumption ==
  /\ ConnIDs \subseteq Nat \ {0}
  /\ TLSListener \in BOOLEAN
  /\ Faults \subseteq NetCalls
  /\ "elsewhere" \in Panics

VARIABLES
  runPc,         \* where Run is
  connID,        \* its connection counter
  listener,      \* s.listener
  listenerReady, \* s.listenerReady
  srvRouter,     \* s.router
  newRouter,     \* the argument of the Router call under way
  muWriter,      \* the writer waiting for s.mu, if any
  muReaders,     \* the Stop calls holding its read lock
  connWg,        \* the counter of s.connWg
  stopPc,        \* where each call of Stop is
  startPc        \* where each starter is

runVars == <<runPc, connID, listener, listenerReady>>
routerVars == <<srvRouter, newRouter, muWriter>>
stopVars == <<muReaders, stopPc>>
serverVars == <<runVars, routerVars, stopVars, connWg, startPc>>
vars == <<connVars, serverVars>>

RunPCs == {"init", "locking", "listened", "wrapping", "loop", "accept", "accepted",
           "returned", "failed"}
StopPCs == {"idle", "rlock", "close", "cancel", "wait", "waiting", "released",
            "returned", "failed", "panicked"}
StartPCs == {"polling", "ready", "connected", "refused"}

\* The goroutines of accepted connections that have not called connWg.Done.
Counted(c) == pc[c] \in {"start", "top", "notify", "read", "handler", "return"}

Init ==
  /\ ConnInit
  /\ runPc = "init"
  /\ connID = 0
  /\ listener = "nil"
  /\ listenerReady = FALSE
  /\ srvRouter = DefaultRouter
  /\ newRouter = DefaultRouter
  /\ muWriter = "none"
  /\ muReaders = {}
  /\ connWg = 0
  /\ stopPc = [s \in Stoppers |-> "idle"]
  /\ startPc = [d \in Starters |-> "polling"]

RunGoto(from, to) == runPc = from /\ runPc' = to

StopGoto(s, from, to) ==
  /\ stopPc[s] = from
  /\ stopPc' = [stopPc EXCEPT ![s] = to]

\* Lock: a writer announces itself when no other writer is waiting ...
muLock(who) == muWriter = "none" /\ muWriter' = who

\* ... and gets the lock, for the length of one step, when the readers are gone.
muLocked(who) == muWriter = who /\ muReaders = {} /\ muWriter' = "none"
-----------------------------------------------------------------------------
(* Run.                                                                    *)

runLockReady ==
  /\ ~crashed
  /\ \/ runPc = "init" /\ ~listenerReady /\ listenerReady' = TRUE /\ UNCHANGED <<runPc, muWriter>>
     \/ muLock("run") /\ listenerReady /\ UNCHANGED listenerReady
        /\ (RunGoto("init", "locking") \/ (TLSListener /\ RunGoto("listened", "wrapping")))
  /\ UNCHANGED <<connVars, connID, listener, srvRouter, newRouter, stopVars, connWg, startPc>>
runLock ==
  /\ ~crashed
  /\ muLock("run")
  /\ \/ RunGoto("init", "locking")
     \/ TLSListener /\ RunGoto("listened", "wrapping")
  /\ UNCHANGED <<connVars, connID, listener, listenerReady, srvRouter, newRouter, stopVars, connWg, startPc>>

\* The listener is ready, whether or not Listen failed.
runListen ==
  /\ ~crashed
  /\ muLocked("run")
  /\ listenerReady' = TRUE
  /\ \/ RunGoto("locking", "listened") /\ listener' = "open"
     \/ "listen" \in Faults /\ RunGoto("locking", "failed") /\ listener' = "nil"
  /\ UNCHANGED <<connVars, connID, srvRouter, newRouter, stopVars, connWg, startPc>>

\* With a TLS configuration the listener is wrapped under the lock; the wrapped
\* one stays the socket that is open or closed.
runServe ==
  /\ ~crashed
  /\ \/ TLSListener /\ RunGoto("wrapping", "loop") /\ muLocked("run")
     \/ ~TLSListener /\ RunGoto("listened", "loop") /\ UNCHANGED muWriter
  /\ UNCHANGED <<connVars, connID, listener, listenerReady, srvRouter, newRouter, stopVars, connWg, startPc>>

\* The head of the accept loop.  A cancelled context ends Run; the listener is
\* left as it is.
runLoop ==
  /\ ~crashed
  /\ connID' = connID + 1
  /\ \/ shutdown /\ RunGoto("loop", "returned")
     \/ ~shutdown /\ RunGoto("loop", "accept")
  /\ UNCHANGED <<connVars, listener, listenerReady, routerVars, stopVars, connWg, startPc>>

\* Accept returns a connection, and newConn gives it the router of the moment.
\* Bound: the clients open Cardinality(ConnIDs) connections.
Accept ==
  /\ connID \in ConnIDs
  /\ listener = "open"
  /\ RunGoto("accept", "accepted")
  /\ newConn(connID, srvRouter)
  /\ UNCHANGED <<connID, listener, listenerReady, routerVars, stopVars, connWg, startPc>>

\* Accept fails: on a closed listener Run returns nil, else the error.
acceptError ==
  /\ ~crashed
  /\ \/ listener = "closed" /\ RunGoto("accept", "returned")
     \/ listener = "open" /\ "accept" \in Faults /\ RunGoto("accept", "failed")
  /\ UNCHANGED <<connVars, connID, listener, listenerReady, routerVars, stopVars, connWg, startPc>>

connWgAddForgotten == UNCHANGED connWg
connWgAdd == connWg' = connWg + 1

\* The connection is counted and its goroutine started.
runGo ==
  /\ RunGoto("accepted", "loop")
  /\ goServe(connID)
  /\ connWgAdd
  /\ UNCHANGED <<connID, listener, listenerReady, routerVars, stopVars, startPc>>

\* The deferred connWg.Done, before the connection is closed; the last one
\* releases every Stop that waits.
runConnDone(c) ==
  /\ connDone(c)
  /\ connWg' = connWg - 1
  /\ stopPc' = [s \in Stoppers |->
                  IF connWg = 1 /\ stopPc[s] = "waiting" THEN "released" ELSE stopPc[s]]
  /\ UNCHANGED <<runVars, routerVars, muReaders, startPc>>
-----------------------------------------------------------------------------
(* Stop, called once by each of Stoppers.                                  *)

stopCall(s) ==
  /\ ~crashed
  /\ StopGoto(s, "idle", "rlock")
  /\ UNCHANGED <<connVars, runVars, routerVars, muReaders, connWg, startPc>>

\* shutdownCancel is never nil, so there is always something to shut down.
stopRLock(s) ==
  /\ ~crashed
  /\ muWriter = "none"
  /\ StopGoto(s, "rlock", "close")
  /\ muReaders' = muReaders \cup {s}
  /\ UNCHANGED <<connVars, runVars, routerVars, connWg, startPc>>

\* Close the listener if there is one; an error other than its being closed
\* already makes Stop return, with the context not cancelled.
stopClose(s) ==
  /\ ~crashed
  /\ \/ /\ StopGoto(s, "close", "cancel")
        /\ listener' = IF listener = "open" THEN "closed" ELSE listener
        /\ UNCHANGED muReaders
     \/ /\ "closeListener" \in Faults
        /\ listener = "open"
        /\ StopGoto(s, "close", "failed")
        /\ muReaders' = muReaders \ {s}
        /\ UNCHANGED listener
  /\ UNCHANGED <<connVars, runPc, connID, listenerReady, routerVars, connWg, startPc>>

stopCancelForgotten(s) ==
  /\ ~crashed
  /\ StopGoto(s, "cancel", "wait")
  /\ UNCHANGED <<connVars, runVars, routerVars, muReaders, connWg, startPc>>
stopCancel(s) ==
  /\ StopGoto(s, "cancel", "wait")
  /\ shutdownCancel
  /\ UNCHANGED <<runVars, routerVars, muReaders, connWg, startPc>>

\* connWg.Wait returns at once on a zero counter and else waits.
stopNoWait(s) ==
  /\ ~crashed
  /\ StopGoto(s, "wait", "returned")
  /\ muReaders' = muReaders \ {s}
  /\ UNCHANGED <<connVars, runVars, routerVars, connWg, startPc>>
stopWait(s) ==
  /\ ~crashed
  /\ \/ connWg = 0 /\ StopGoto(s, "wait", "returned") /\ muReaders' = muReaders \ {s}
     \/ connWg # 0 /\ StopGoto(s, "wait", "waiting") /\ UNCHANGED muReaders
  /\ UNCHANGED <<connVars, runVars, routerVars, connWg, startPc>>

\* A released waiter returns, or panics when it finds the WaitGroup in use again.
stopWake(s) ==
  /\ muReaders' = muReaders \ {s}
  /\ \/ /\ ~crashed
        /\ connWg = 0
        /\ StopGoto(s, "released", "returned")
        /\ UNCHANGED connVars
     \/ /\ connWg # 0
        /\ StopGoto(s, "released", "panicked")
        /\ Exit
  /\ UNCHANGED <<runVars, routerVars, connWg, startPc>>
-----------------------------------------------------------------------------
(* Router, called by one goroutine any number of times.                    *)

routerLock(r) ==
  /\ ~crashed
  /\ muLock("router")
  /\ newRouter' = r
  /\ UNCHANGED <<connVars, runVars, srvRouter, stopVars, connWg, startPc>>

Router ==
  /\ ~crashed
  /\ muLocked("router")
  /\ srvRouter' = newRouter
  /\ UNCHANGED <<connVars, runVars, newRouter, stopVars, connWg, startPc>>
-----------------------------------------------------------------------------
(* Ready, called again and again by a starter, and its dial.               *)

\* Ready takes the read lock for one step; false has no effect but another call.
Ready(d) ==
  /\ ~crashed
  /\ muWriter = "none"
  /\ listenerReady
  /\ startPc[d] = "polling"
  /\ startPc' = [startPc EXCEPT ![d] = "ready"]
  /\ UNCHANGED <<connVars, runVars, routerVars, stopVars, connWg>>

\* A listening socket takes connections, accepted or not; a TLS handshake that
\* follows is not part of the step.  An error is final.
Dial(d) ==
  /\ ~crashed
  /\ startPc[d] = "ready"
  /\ startPc' = [startPc EXCEPT ![d] = IF listener = "open" THEN "connected" ELSE "refused"]
  /\ UNCHANGED <<connVars, runVars, routerVars, stopVars, connWg>>
-----------------------------------------------------------------------------
Run == runLock \/ runListen \/ runServe \/ runLoop \/ acceptError \/ runGo

Stop(s) ==
  stopRLock(s) \/ stopClose(s) \/ stopCancel(s) \/ stopWait(s) \/ stopWake(s)

Conns == \E c \in ConnIDs : ConnStep(c) /\ UNCHANGED serverVars

Next ==
  \/ Run
  \/ Accept
  \/ \E c \in ConnIDs : runConnDone(c)
  \/ \E s \in Stoppers : stopCall(s) \/ Stop(s)
  \/ \E r \in Routers : routerLock(r)
  \/ Router
  \/ \E d \in Starters : Ready(d) \/ Dial(d)
  \/ Conns

Spec == Init /\ [][Next]_vars

\* Run, Stop and Router are scheduled, and both kinds of waiters get s.mu in the
\* end: an RWMutex lets the waiting readers in when a writer leaves.  Nobody has
\* to call Stop or Router, nor to connect, and Accept need not fail on an open
\* listener.
Fairness ==
  /\ ConnFairness
  /\ WF_vars(runListen \/ runServe \/ runLoop \/ runGo)
  /\ WF_vars(listener = "closed" /\ acceptError)
  /\ SF_vars(runLock)
  /\ WF_vars(Router)
  /\ \A c \in ConnIDs : WF_vars(runConnDone(c))
  /\ \A s \in Stoppers :
       /\ SF_vars(stopRLock(s))
       /\ WF_vars(stopClose(s) \/ stopCancel(s) \/ stopWait(s) \/ stopWake(s))

FairSpec == Spec /\ Fairness
-----------------------------------------------------------------------------
(* Every variable of Run, Stop and Router keeps its type; in particular    *)
(* connWg, which panics when it would go negative, never does.             *)
TypeOK ==
  /\ runPc \in RunPCs
  /\ connID \in Nat
  /\ listener \in {"nil", "open", "closed"}
  /\ listenerReady \in BOOLEAN
  /\ srvRouter \in Routers
  /\ newRouter \in Routers
  /\ muWriter \in {"none", "run", "router"}
  /\ muReaders \in SUBSET Stoppers
  /\ connWg \in Nat
  /\ stopPc \in [Stoppers -> StopPCs]
  /\ startPc \in [Starters -> StartPCs]

Stopped == \E s \in Stoppers : stopPc[s] = "returned"

(* Stop waits for the goroutines of the connections.  What that gives: once *)
(* a Stop has returned nil, no connection reads or serves a request in its *)
(* loop any more, even one whose Accept raced with the Stop.               *)
NoReadAfterStop ==
  Stopped => \A c \in ConnIDs : pc[c] \notin {"read", "handler"}

(* Run adds to connWg only after Accept returned, so Stop may miss that    *)
(* connection, but never two: the accept loop has seen the end by then.    *)
OneLateConnection ==
  Stopped => \A c, d \in ConnIDs :
    (pc[c] = "new" \/ Counted(c)) /\ (pc[d] = "new" \/ Counted(d)) => c = d

(* A WaitGroup panics when Add meets a Wait that is about to return.  The  *)
(* add after Accept can do that to a Stop, but with a single connection,   *)
(* and one that came too late to read anything: every other goroutine is   *)
(* past its Done by then and Run starts no further one.                    *)
StopPanicsOnLateConnection ==
  (\E s \in Stoppers : stopPc[s] = "panicked") =>
    \E c \in ConnIDs :
      /\ Counted(c)
      /\ pc[c] \notin {"read", "handler"}
      /\ \A d \in ConnIDs \ {c} : ~Counted(d) /\ pc[d] # "new"

(* "need a bit of a pause to get the service up and running, otherwise     *)
(* we'll get a connection error": once Ready has said true a dial fails    *)
(* only if the server could not listen or is being stopped.                *)
ReadyMeansDialable ==
  \A d \in Starters : startPc[d] = "refused" =>
    \/ runPc = "failed"
    \/ \E s \in Stoppers : stopPc[s] \notin {"idle", "rlock", "close", "failed"}

(* With both timeouts configured every call of Stop ends, whatever the     *)
(* clients, Run and the callers of Router do meanwhile.                    *)
StopTerminates ==
  \A s \in Stoppers :
    stopPc[s] = "rlock" ~> crashed \/ stopPc[s] \in {"returned", "failed"}

(* A Stop that returned nil makes Run return, whether it came before Run   *)
(* had a listener or after.                                                *)
StopEndsRun ==
  Stopped /\ runPc # "init" ~> crashed \/ runPc \in {"returned", "failed"}

(* "waiting on connections to close": at the step where a Stop returns nil, *)
(* the connections whose goroutine Run had started are closed.  The one    *)
(* that Run has accepted and not yet started is excepted, Stop cannot know *)
(* of it.                                                                  *)
StopClosesConnections ==
  [][(\E s \in Stoppers : stopPc[s] # "returned" /\ stopPc'[s] = "returned") =>
        \A c \in ConnIDs : pc[c] \notin {"none", "new"} => sock[c] # "open"]_vars
=============================================================================
