---------------------------- MODULE ServerProofs ----------------------------
(*****************************************************************************)
(* The safety of a server, for any number of connections, calls of Stop and  *)
(* starters, and for every configuration of module Server.                   *)
(*                                                                           *)
(* Besides the types and the invariant of the connections, the inductive     *)
(* invariant says which connections Run has accepted, that connWg counts     *)
(* their goroutines, what a Stop has done at each of its steps, what is left *)
(* when the wait of one is over, and what Ready and a refused dial tell of Run.     *)
(*****************************************************************************)
EXTENDS Server, ConnProofs

\* Run uses the connection numbers in order, and only the last one may be
\* accepted and not yet started.
AcceptInv ==
  /\ runPc = "accepted" => connID \in ConnIDs
  /\ \A c \in ConnIDs :
       /\ pc[c] = "new" => runPc = "accepted" /\ c = connID
       /\ pc[c] # "none" => c <= connID
       /\ pc[c] # "none" /\ runPc = "accept" => c < connID

\* The connections whose goroutine is yet to call connWg.Done.
Counteds == {c \in ConnIDs : Counted(c)}

ConnWgInv == connWg = Cardinality(Counteds)

\* The steps of Stop after it closed the listener, and after it cancelled.
PastClose == {"cancel", "wait", "waiting", "released", "returned", "panicked"}
PastCancel == PastClose \ {"cancel"}

\* A Stop holds the read lock until it ends.  Once it has closed the listener,
\* Run accepts no more: the listener is closed, or it is one Run opened only
\* after the Stop had ended, and then Run finds the context cancelled.
StopInv(s) ==
  /\ stopPc[s] \in {"close", "cancel", "wait", "waiting", "released"} => s \in muReaders
  /\ stopPc[s] \in PastCancel => shutdown
  /\ stopPc[s] \in PastClose =>
       \/ listener # "open"
       \/ shutdown /\ runPc \in {"listened", "wrapping", "loop", "returned"}

\* A connection a Stop did not wait for.
Late(c) == pc[c] = "new" \/ Counted(c)

\* A Stop whose Wait is over, returned or not yet.
WaitOver == \E s \in Stoppers : stopPc[s] \in {"released", "returned", "panicked"}

StoppedInv ==
  WaitOver =>
    /\ \A c \in ConnIDs : pc[c] \notin {"read", "handler"}
    /\ \A c, d \in ConnIDs : Late(c) /\ Late(d) => c = d

\* A Stop that panicked found the counter in use, and that ended the process.
PanicInv == (\E s \in Stoppers : stopPc[s] = "panicked") => crashed /\ connWg # 0

\* Ready is true after Listen; the listener is missing only before Listen or
\* when it failed, and closed only by a Stop.
ReadyInv ==
  /\ listenerReady => runPc \notin {"init", "locking"}
  /\ listener = "nil" => runPc \in {"init", "locking", "failed"}
  /\ listener = "closed" => \E s \in Stoppers : stopPc[s] \in PastClose
  /\ \A d \in Starters : startPc[d] # "polling" => listenerReady

ServerInv ==
  /\ ConnInv
  /\ TypeOK
  /\ AcceptInv
  /\ ConnWgInv
  /\ \A s \in Stoppers : StopInv(s)
  /\ StoppedInv
  /\ PanicInv
  /\ ReadyInv
  /\ ReadyMeansDialable
-----------------------------------------------------------------------------
\* The initial state satisfies the invariant.
LEMMA InitServerInv == Init => ServerInv
<1> SUFFICES ASSUME Init PROVE ServerInv
  OBVIOUS
<1>1. ConnInv
  BY InitConnInv DEF Init
<1>2. TypeOK
  BY ConnAssumption, Zenon DEF Init, TypeOK, RunPCs, StopPCs, StartPCs
<1>3. ASSUME NEW c \in ConnIDs PROVE pc[c] = "none"
  BY DEF Init, ConnInit
<1>4. AcceptInv
  BY <1>3 DEF Init, AcceptInv
<1>5. ConnWgInv
  <2>1. Counteds = {}
    BY <1>3 DEF Counteds, Counted
  <2> QED
    BY <2>1, FS_EmptySet DEF Init, ConnWgInv
<1>6. \A s \in Stoppers : StopInv(s)
  BY DEF Init, StopInv, PastClose, PastCancel
<1>7. StoppedInv /\ PanicInv /\ ReadyInv /\ ReadyMeansDialable
  BY DEF Init, WaitOver, StoppedInv, PanicInv, ReadyInv, ReadyMeansDialable
<1> QED
  BY <1>1, <1>2, <1>4, <1>5, <1>6, <1>7 DEF ServerInv

\* What a step of the connections alone does to where they are: it neither
\* starts nor releases one, and after a cancellation none begins to read.
LEMMA ConnStepPc ==
  ASSUME ConnInv, NEW c \in ConnIDs, ConnStep(c)
  PROVE  /\ UNCHANGED shutdown
         /\ \A d \in ConnIDs :
              /\ Counted(d)' <=> Counted(d)
              /\ pc'[d] = "none" <=> pc[d] = "none"
              /\ pc'[d] = "new" <=> pc[d] = "new"
              /\ shutdown /\ pc'[d] \in {"read", "handler"} => pc[d] \in {"read", "handler"}
<1>0. pc \in [ConnIDs -> PCs]
  BY DEF ConnInv, ConnTypeOK
<1> DEFINE G(from, to) == pc[c] \in from /\ pc' = [pc EXCEPT ![c] = to]
<1>1. UNCHANGED shutdown
  BY Zenon DEF ConnStep, ServeStep, CloseStep, HandlerStep, ClientStep, envVars,
     setDeadlines, loopTop, readMalformed, readUnbind, readStartTLS, dispatch, readFail, readPacket,
     close, onCloseHandler, WriteLock, WriteFlush, StartTLS, initConn, handshakeError,
     HandlerReturn, HandlerPanic, ClientSend, ClientChange, DeadlineExpires
<1>2. ASSUME ServeStep(c)
      PROVE  \/ \E p \in {"top", "return"} : G({"start", "read"}, p)
             \/ G({"read"}, "handler")
             \/ ~shutdown /\ G({"top"}, "read")
             \/ G({"top"}, "notify")
  BY <1>2 DEF ServeStep, Goto, setDeadlines, loopTop, readMalformed, readUnbind, readStartTLS,
     dispatch, readFail, readPacket
<1>3. ASSUME CloseStep(c)
      PROVE  G({"close"}, "closed") \/ G({"closed"}, "end")
  BY <1>3 DEF CloseStep, close, onCloseHandler, Goto
<1>4. ASSUME NEW n \in ReqIDs, HandlerStep(c, n)
      PROVE  UNCHANGED pc \/ \E p \in {"top", "return"} : G({"notify", "handler"}, p)
  BY <1>4 DEF HandlerStep, WriteLock, WriteFlush, StartTLS, initConn, handshakeError,
     HandlerReturn, HandlerPanic, AfterHandler, Goto, loopVars
<1>5. ASSUME ClientStep(c) PROVE UNCHANGED pc
  BY <1>5 DEF ClientStep, ClientSend, ClientChange, DeadlineExpires, loopVars
<1>6. \/ UNCHANGED pc
      \/ \E p \in {"top", "return"} : G({"start", "read", "notify", "handler"}, p)
      \/ G({"read"}, "handler")
      \/ ~shutdown /\ G({"top"}, "read")
      \/ G({"top"}, "notify")
      \/ G({"close"}, "closed") \/ G({"closed"}, "end")
  BY <1>2, <1>3, <1>4, <1>5 DEF ConnStep
<1> QED
  BY <1>0, <1>1, <1>6 DEF Counted

\* What Run, Stop and Router do to the connections are steps of Conn.
LEMMA ConnNextStep ==
  ASSUME ServerInv, [Next]_vars
  PROVE  [ConnNext]_connVars
<1>1. CASE Run
  <2>1. CASE runGo
    BY <2>1 DEF runGo, RunGoto, ConnNext, ServerInv, AcceptInv
  <2> QED
    BY <1>1, <2>1 DEF Run, runLock, runListen, runServe, runLoop, acceptError
<1>2. CASE Accept
  BY <1>2 DEF Accept, ConnNext, ServerInv, TypeOK
<1>3. ASSUME NEW c \in ConnIDs, runConnDone(c) PROVE ConnNext
  BY <1>3 DEF runConnDone, ConnNext
<1>4. ASSUME NEW s \in Stoppers, stopCall(s) \/ Stop(s) PROVE [ConnNext]_connVars
  BY <1>4 DEF Stop, stopCall, stopRLock, stopClose, stopCancel, stopWait, stopWake, ConnNext
<1>5. ASSUME NEW r \in Routers, routerLock(r) PROVE UNCHANGED connVars
  BY <1>5 DEF routerLock
<1>6. ASSUME NEW d \in Starters, Ready(d) \/ Dial(d) PROVE UNCHANGED connVars
  BY <1>6 DEF Ready, Dial
<1>7. CASE Conns
  BY <1>7 DEF Conns, ConnNext
<1>8. CASE UNCHANGED vars
  BY <1>8 DEF vars
<1>9. CASE Router
  BY <1>9 DEF Router
<1> QED
  BY <1>1, <1>2, <1>3, <1>4, <1>5, <1>6, <1>7, <1>8, <1>9 DEF Next

\* A process that has ended does not come back.
LEMMA CrashStays ==
  ASSUME ServerInv, [Next]_vars, crashed
  PROVE  crashed'
<1>1. ASSUME NEW c \in ConnIDs, ConnStep(c) PROVE FALSE
  <2>1. ~ServeStep(c)
    BY Zenon DEF ServeStep, setDeadlines, loopTop, readMalformed, readUnbind, readStartTLS,
       dispatch, readFail, readPacket, Running
  <2>2. ASSUME NEW n \in ReqIDs PROVE ~HandlerStep(c, n)
    BY Zenon DEF HandlerStep, WriteLock, WriteFlush, StartTLS, initConn, handshakeError,
       HandlerReturn, HandlerPanic, Running
  <2>3. ~CloseStep(c) /\ ~ClientStep(c)
    BY Zenon DEF CloseStep, close, onCloseHandler, ClientStep, ClientSend, ClientChange,
       DeadlineExpires, Running
  <2> QED
    BY <1>1, <2>1, <2>2, <2>3, Zenon DEF ConnStep
<1>2. ASSUME NEW c \in ConnIDs PROVE ~goServe(c) /\ ~connDone(c) /\ \A r \in Routers : ~newConn(c, r)
  BY Zenon DEF goServe, connDone, newConn, Running
<1>3. ~shutdownCancel /\ ~Exit
  BY Zenon DEF shutdownCancel, Exit, Running
<1>4. UNCHANGED connVars => crashed'
  BY DEF connVars
<1> QED
  BY <1>1, <1>2, <1>3, <1>4, ConnNextStep, Zenon DEF ConnNext

\* Only finitely many connections are counted: Run has numbered them all.
LEMMA CountedsFinite ==
  ASSUME ServerInv
  PROVE  IsFiniteSet(Counteds) /\ Cardinality(Counteds) \in Nat
<1>1. connID \in Int /\ 1 \in Int
  BY DEF ServerInv, TypeOK
<1>2. IsFiniteSet(1..connID)
  BY <1>1, FS_Interval
<1>3. ASSUME NEW c \in Counteds PROVE c \in 1..connID
  BY <1>1, ServerAssumption DEF Counteds, Counted, ServerInv, AcceptInv
<1> QED
  BY <1>2, <1>3, FS_Subset, FS_CardinalityType, Zenon

\* With nothing counted no goroutine of a connection is before its Done.
LEMMA NoneCounted ==
  ASSUME ServerInv, connWg = 0, NEW c \in ConnIDs
  PROVE  ~Counted(c)
<1>1. Counteds = {}
  BY CountedsFinite, FS_EmptySet, Zenon DEF ServerInv, ConnWgInv
<1> QED
  BY <1>1 DEF Counteds

\* A counter that is not zero counts some connection.
LEMMA SomeCounted ==
  ASSUME ServerInv, connWg # 0
  PROVE  \E c \in ConnIDs : Counted(c)
<1>1. Counteds # {}
  BY FS_EmptySet DEF ServerInv, ConnWgInv
<1> QED
  BY <1>1 DEF Counteds

\* With one counted there is no second one.
LEMMA OneCounted ==
  ASSUME ServerInv, connWg = 1, NEW c \in ConnIDs, Counted(c), NEW d \in ConnIDs, Counted(d)
  PROVE  c = d
<1>1. c \in Counteds /\ d \in Counteds
  BY DEF Counteds
<1>2. Cardinality(Counteds) = 1 /\ IsFiniteSet(Counteds)
  BY CountedsFinite DEF ServerInv, ConnWgInv
<1>3. PICK x : Counteds = {x}
  BY <1>2, FS_Singleton
<1> QED
  BY <1>1, <1>3

\* Every step keeps what connWg counts.
LEMMA ConnWgStep ==
  ASSUME ServerInv, [Next]_vars
  PROVE  ConnWgInv' /\ connWg' \in Nat
<1>0. /\ connWg = Cardinality(Counteds) /\ IsFiniteSet(Counteds) /\ connWg \in Nat
      /\ pc \in [ConnIDs -> PCs]
  BY CountedsFinite DEF ServerInv, ConnWgInv, ConnInv, ConnTypeOK
<1>1. ASSUME UNCHANGED connWg, \A c \in ConnIDs : Counted(c)' <=> Counted(c)
      PROVE  ConnWgInv' /\ connWg' \in Nat
  <2>1. Counteds' = Counteds
    BY <1>1 DEF Counteds
  <2> QED
    BY <1>0, <1>1, <2>1 DEF ConnWgInv
<1>2. ASSUME UNCHANGED <<connWg, pc>> PROVE ConnWgInv' /\ connWg' \in Nat
  BY <1>1, <1>2 DEF Counted
<1>3. CASE runGo
  <2>1. /\ connID \in ConnIDs /\ pc[connID] = "new" /\ connWg' = connWg + 1
        /\ pc' = [pc EXCEPT ![connID] = "start"]
    BY <1>3 DEF runGo, RunGoto, goServe, Goto, connWgAdd, ServerInv, AcceptInv
  <2>2. connID \notin Counteds /\ Counteds' = Counteds \cup {connID}
    BY <1>0, <2>1 DEF Counteds, Counted
  <2>3. Cardinality(Counteds') = Cardinality(Counteds) + 1
    BY <1>0, <2>2, FS_AddElement, Zenon
  <2> QED
    BY <1>0, <2>1, <2>3 DEF ConnWgInv
<1>4. ASSUME NEW c \in ConnIDs, runConnDone(c) PROVE ConnWgInv' /\ connWg' \in Nat
  <2>1. /\ pc[c] = "return" /\ connWg' = connWg - 1
        /\ pc' = [pc EXCEPT ![c] = "close"]
    BY <1>4 DEF runConnDone, connDone, Goto
  <2>2. c \in Counteds /\ Counteds' = Counteds \ {c}
    BY <1>0, <2>1 DEF Counteds, Counted
  <2>3. Cardinality(Counteds') = Cardinality(Counteds) - 1
    BY <1>0, <2>2, FS_RemoveElement, Zenon
  <2>4. Counteds # {}
    BY <2>2
  <2>5. connWg # 0
    BY <1>0, <2>4, FS_EmptySet
  <2> QED
    BY <1>0, <2>1, <2>3, <2>5 DEF ConnWgInv
<1>5. CASE Accept
  <2>1. /\ connID \in ConnIDs /\ pc[connID] = "none" /\ UNCHANGED connWg
        /\ pc' = [pc EXCEPT ![connID] = "new"]
    BY <1>5 DEF Accept, newConn, Goto
  <2> QED
    BY <1>0, <1>1, <2>1 DEF Counted
<1>6. CASE Conns
  <2>1. UNCHANGED connWg
    BY <1>6 DEF Conns, serverVars
  <2> QED
    BY <1>1, <1>6, <2>1, ConnStepPc DEF Conns, ServerInv
<1>7. CASE runLock \/ runListen \/ runServe \/ runLoop \/ acceptError \/ Router \/ UNCHANGED vars
  BY <1>2, <1>7 DEF runLock, runListen, runServe, runLoop, acceptError, Router, vars, serverVars,
     connVars, loopVars
<1>8. ASSUME NEW s \in Stoppers, stopCall(s) \/ Stop(s) PROVE UNCHANGED <<connWg, pc>>
  BY <1>8 DEF Stop, stopCall, stopRLock, stopClose, stopCancel, stopWait, stopWake,
     shutdownCancel, Exit, connVars, loopVars
<1>9. ASSUME NEW r \in Routers, routerLock(r) PROVE UNCHANGED <<connWg, pc>>
  BY <1>9 DEF routerLock, connVars, loopVars
<1>10. ASSUME NEW d \in Starters, Ready(d) \/ Dial(d) PROVE UNCHANGED <<connWg, pc>>
  BY <1>10 DEF Ready, Dial, connVars, loopVars
<1> QED
  BY <1>2, <1>3, <1>4, <1>5, <1>6, <1>7, <1>8, <1>9, <1>10 DEF Next, Run

-----------------------------------------------------------------------------
(*****************************************************************************)
(* Every step of a server keeps the rest of ServerInv; so ServerInv is an    *)
(* invariant, a server is an environment Conn allows, and the promises of    *)
(* Run, Stop and Ready follow.                                               *)
(*****************************************************************************)

\* Every step keeps the types.
LEMMA ServerTypeStep ==
  ASSUME ServerInv, [Next]_vars
  PROVE  TypeOK'
<1>0. TypeOK /\ connWg' \in Nat
  BY ConnWgStep DEF ServerInv
<1> USE <1>0 DEF TypeOK, runVars, routerVars, stopVars
<1>1. CASE runLock
  BY <1>1 DEF runLock, muLock, RunGoto, RunPCs
<1>2. CASE runListen \/ runServe
  BY <1>2, Zenon DEF runListen, runServe, muLocked, RunGoto, RunPCs
<1>3. CASE runLoop
  BY <1>3 DEF runLoop, RunGoto, RunPCs
<1>4. CASE acceptError \/ Accept \/ runGo
  BY <1>4 DEF acceptError, Accept, runGo, RunGoto, RunPCs
<1>5. ASSUME NEW c \in ConnIDs, runConnDone(c) PROVE TypeOK'
  <2>1. stopPc' \in [Stoppers -> StopPCs]
    BY <1>5 DEF runConnDone, StopPCs
  <2> QED
    BY <1>5, <2>1 DEF runConnDone
<1>6. ASSUME NEW s \in Stoppers, stopCall(s) \/ Stop(s) PROVE TypeOK'
  <2>1. stopPc' \in [Stoppers -> StopPCs]
    BY <1>6 DEF Stop, stopCall, stopRLock, stopClose, stopCancel, stopWait, stopWake,
       StopGoto, StopPCs
  <2>2. muReaders' \in SUBSET Stoppers /\ listener' \in {"nil", "open", "closed"}
    BY <1>6 DEF Stop, stopCall, stopRLock, stopClose, stopCancel, stopWait, stopWake
  <2>3. UNCHANGED <<runPc, connID, listenerReady, routerVars, startPc>>
    BY <1>6 DEF Stop, stopCall, stopRLock, stopClose, stopCancel, stopWait, stopWake
  <2> QED
    BY <2>1, <2>2, <2>3
<1>7. ASSUME NEW r \in Routers, routerLock(r) PROVE TypeOK'
  BY <1>7 DEF routerLock, muLock
<1>8. CASE Router
  BY <1>8 DEF Router, muLocked
<1>9. ASSUME NEW d \in Starters, Ready(d) \/ Dial(d) PROVE TypeOK'
  <2>1. startPc' \in [Starters -> StartPCs]
    BY <1>9 DEF Ready, Dial, StartPCs
  <2> QED
    BY <1>9, <2>1 DEF Ready, Dial
<1>10. CASE Conns \/ UNCHANGED vars
  BY <1>10 DEF Conns, serverVars, vars
<1> QED
  <2> HIDE <1>0 DEF TypeOK
  <2> QED
    BY <1>1, <1>2, <1>3, <1>4, <1>5, <1>6, <1>7, <1>8, <1>9, <1>10 DEF Next, Run

\* Every step keeps the order of the connection numbers.
LEMMA AcceptStep ==
  ASSUME ServerInv, [Next]_vars
  PROVE  AcceptInv'
<1>0. /\ AcceptInv
      /\ connID \in Nat
      /\ ConnIDs \subseteq Nat
      /\ pc \in [ConnIDs -> PCs]
  BY ServerAssumption DEF ServerInv, TypeOK, ConnInv, ConnTypeOK
<1> USE <1>0 DEF AcceptInv, RunGoto, Goto, runVars, connVars, loopVars
<1>1. CASE runLock \/ runListen \/ runServe \/ acceptError
  <2>1. /\ UNCHANGED <<pc, connID>>
        /\ runPc' \notin {"accept", "accepted"}
        /\ runPc # "accepted"
    BY <1>1 DEF runLock, runListen, runServe, acceptError
  <2> QED
    BY <2>1
<1>2. CASE runLoop
  <2>1. /\ UNCHANGED pc /\ connID' = connID + 1
        /\ runPc = "loop" /\ runPc' # "accepted"
    BY <1>2 DEF runLoop
  <2> QED
    BY <2>1
<1>3. CASE Accept
  <2>1. /\ connID \in ConnIDs /\ pc' = [pc EXCEPT ![connID] = "new"]
        /\ runPc = "accept" /\ runPc' = "accepted" /\ UNCHANGED connID
    BY <1>3 DEF Accept, newConn
  <2> QED
    BY <2>1
<1>4. CASE runGo
  <2>1. /\ connID \in ConnIDs /\ pc' = [pc EXCEPT ![connID] = "start"]
        /\ runPc = "accepted" /\ runPc' = "loop" /\ UNCHANGED connID
    BY <1>4 DEF runGo, goServe
  <2> QED
    BY <2>1
<1>5. ASSUME NEW c \in ConnIDs, runConnDone(c) PROVE AcceptInv'
  <2>1. /\ pc[c] = "return" /\ pc' = [pc EXCEPT ![c] = "close"] /\ UNCHANGED <<runPc, connID>>
    BY <1>5 DEF runConnDone, connDone
  <2> QED
    BY <2>1
<1>6. ASSUME UNCHANGED <<pc, runPc, connID>> PROVE AcceptInv'
  BY <1>6
<1>7. ASSUME NEW s \in Stoppers, stopCall(s) \/ Stop(s) PROVE AcceptInv'
  BY <1>6, <1>7 DEF Stop, stopCall, stopRLock, stopClose, stopCancel, stopWait, stopWake,
     shutdownCancel, Exit
<1>8. ASSUME NEW r \in Routers, routerLock(r) PROVE AcceptInv'
  BY <1>6, <1>8 DEF routerLock
<1>9. CASE Router \/ UNCHANGED vars
  BY <1>6, <1>9 DEF Router, vars, serverVars
<1>10. ASSUME NEW d \in Starters, Ready(d) \/ Dial(d) PROVE AcceptInv'
  BY <1>6, <1>10 DEF Ready, Dial
<1>11. CASE Conns
  <2>1. UNCHANGED <<runPc, connID>>
    BY <1>11 DEF Conns, serverVars
  <2>2. \A d \in ConnIDs :
          (pc'[d] = "none" <=> pc[d] = "none") /\ (pc'[d] = "new" <=> pc[d] = "new")
    BY <1>11, ConnStepPc DEF Conns, ServerInv
  <2> QED
    BY <2>1, <2>2
<1> QED
  <2> HIDE <1>0 DEF AcceptInv
  <2> QED
    BY <1>1, <1>2, <1>3, <1>4, <1>5, <1>7, <1>8, <1>9, <1>10, <1>11 DEF Next, Run

\* Every step keeps what a Stop has done and what it keeps Run from doing.
LEMMA StopStep ==
  ASSUME ServerInv, [Next]_vars, NEW t \in Stoppers
  PROVE  StopInv(t)'
<1>0. /\ StopInv(t)
      /\ stopPc \in [Stoppers -> StopPCs]
      /\ shutdown \in BOOLEAN
  BY DEF ServerInv, TypeOK, ConnInv, ConnTypeOK
<1> USE <1>0 DEF StopInv, PastClose, PastCancel, RunGoto, StopGoto,
        runVars, stopVars, connVars, envVars
<1>1. CASE runLock \/ runServe \/ runLoop \/ acceptError \/ Accept
  <2>1. /\ UNCHANGED <<stopPc, muReaders, shutdown, listener>>
        /\ runPc' # runPc
        /\ listener = "open" /\ runPc \in {"listened", "wrapping", "loop", "returned"} /\ shutdown =>
             runPc' \in {"wrapping", "loop", "returned"}
    BY <1>1 DEF runLock, runServe, runLoop, acceptError, Accept, newConn
  <2> QED
    BY <2>1
<1>2. CASE runListen
  <2>1. UNCHANGED <<stopPc, muReaders, shutdown>> /\ muReaders = {}
    BY <1>2 DEF runListen, muLocked
  <2>2. runPc' = "listened" \/ listener' = "nil"
    BY <1>2 DEF runListen
  <2> QED
    BY <2>1, <2>2
<1>3. CASE runGo
  <2>1. /\ UNCHANGED <<stopPc, muReaders, shutdown, listener>>
        /\ runPc = "accepted"
    BY <1>3 DEF runGo, goServe
  <2> QED
    BY <2>1
<1>4. ASSUME NEW c \in ConnIDs, runConnDone(c) PROVE StopInv(t)'
  <2>1. /\ UNCHANGED <<muReaders, shutdown, listener, runPc>>
        /\ stopPc'[t] = stopPc[t] \/ (stopPc[t] = "waiting" /\ stopPc'[t] = "released")
    BY <1>4 DEF runConnDone, connDone
  <2> QED
    BY <2>1
<1>5. ASSUME NEW s \in Stoppers, stopCall(s) \/ stopRLock(s) PROVE StopInv(t)'
  BY <1>5 DEF stopCall, stopRLock
<1>6. ASSUME NEW s \in Stoppers, stopClose(s) PROVE StopInv(t)'
  <2>1. UNCHANGED <<shutdown, runPc>> /\ (listener' = "open" => listener = "open")
    BY <1>6 DEF stopClose
  <2>2. CASE s = t
    BY <1>6, <2>1, <2>2 DEF stopClose
  <2>3. CASE s # t
    BY <1>6, <2>1, <2>3 DEF stopClose
  <2> QED
    BY <2>2, <2>3
<1>7. ASSUME NEW s \in Stoppers, stopCancel(s) PROVE StopInv(t)'
  BY <1>7 DEF stopCancel, shutdownCancel
<1>8. ASSUME NEW s \in Stoppers, stopWait(s) \/ stopWake(s) PROVE StopInv(t)'
  <2>1. /\ UNCHANGED <<shutdown, runPc, listener>>
        /\ stopPc[s] \in {"wait", "released"}
        /\ \E p \in {"waiting", "returned", "panicked"} :
             /\ stopPc' = [stopPc EXCEPT ![s] = p]
             /\ IF p = "waiting" THEN UNCHANGED muReaders ELSE muReaders' = muReaders \ {s}
    BY <1>8 DEF stopWait, stopWake, Exit
  <2> QED
    BY <2>1
<1>9. ASSUME UNCHANGED <<stopPc, muReaders, shutdown, listener, runPc>> PROVE StopInv(t)'
  BY <1>9
<1>10. ASSUME NEW r \in Routers, routerLock(r) PROVE StopInv(t)'
  BY <1>9, <1>10 DEF routerLock
<1>11. CASE Router \/ UNCHANGED vars
  BY <1>9, <1>11 DEF Router, vars, serverVars
<1>12. ASSUME NEW d \in Starters, Ready(d) \/ Dial(d) PROVE StopInv(t)'
  BY <1>9, <1>12 DEF Ready, Dial
<1>13. CASE Conns
  <2>1. UNCHANGED shutdown
    BY <1>13, ConnStepPc DEF Conns, ServerInv
  <2> QED
    BY <1>9, <1>13, <2>1 DEF Conns, serverVars
<1> QED
  <2> HIDE <1>0 DEF StopInv
  <2> QED
    BY <1>1, <1>2, <1>3, <1>4, <1>5, <1>6, <1>7, <1>8, <1>10, <1>11, <1>12, <1>13
    DEF Next, Run, Stop

\* Every step keeps what is left when the wait of a Stop is over.
LEMMA StoppedStep ==
  ASSUME ServerInv, [Next]_vars
  PROVE  StoppedInv'
<1>0. /\ StoppedInv
      /\ stopPc \in [Stoppers -> StopPCs]
      /\ pc \in [ConnIDs -> PCs]
      /\ WaitOver => shutdown /\ (listener # "open" \/ runPc # "accept")
  BY Zenon DEF ServerInv, TypeOK, ConnInv, ConnTypeOK, WaitOver, StopInv, PastClose, PastCancel
<1> USE <1>0 DEF RunGoto, StopGoto, Goto, runVars, stopVars, connVars, loopVars
<1>1. ASSUME UNCHANGED pc, WaitOver' => WaitOver \/ connWg = 0 PROVE StoppedInv'
  <2>1. CASE WaitOver
    BY <1>1, <2>1 DEF StoppedInv, Late, Counted
  <2>2. CASE connWg = 0
    <3>1. \A c \in ConnIDs : ~Counted(c)
      BY <2>2, NoneCounted
    <3>2. \A c \in ConnIDs : pc[c] = "new" => c = connID
      BY DEF ServerInv, AcceptInv
    <3> QED
      BY <1>1, <3>1, <3>2 DEF StoppedInv, Late, Counted
  <2>3. CASE ~WaitOver'
    BY <2>3 DEF StoppedInv
  <2> QED
    BY <1>1, <2>1, <2>2, <2>3
<1>2. CASE runLock \/ runListen \/ runServe \/ runLoop \/ acceptError
  BY <1>1, <1>2 DEF runLock, runListen, runServe, runLoop, acceptError, WaitOver
<1>3. CASE runGo
  <2>1. /\ connID \in ConnIDs /\ pc[connID] = "new" /\ pc' = [pc EXCEPT ![connID] = "start"]
        /\ UNCHANGED stopPc
    BY <1>3, Zenon DEF runGo, goServe, ServerInv, AcceptInv
  <2>2. \A c \in ConnIDs : Late(c)' <=> Late(c)
    BY <2>1 DEF Late, Counted
  <2> QED
    BY <2>1, <2>2 DEF StoppedInv, WaitOver
<1>4. CASE Accept
  <2>1. ~WaitOver /\ UNCHANGED stopPc
    BY <1>4 DEF Accept
  <2> QED
    BY <2>1 DEF StoppedInv, WaitOver
<1>5. ASSUME NEW c \in ConnIDs, runConnDone(c) PROVE StoppedInv'
  <2>1. pc[c] = "return" /\ pc' = [pc EXCEPT ![c] = "close"]
    BY <1>5 DEF runConnDone, connDone
  <2>2. WaitOver' => WaitOver \/ connWg = 1
    BY <1>5 DEF runConnDone, WaitOver
  <2>3. \A d \in ConnIDs : Late(d)' => Late(d) /\ d # c
    BY <2>1 DEF Late, Counted
  <2>4. CASE WaitOver
    BY <2>1, <2>3, <2>4 DEF StoppedInv
  <2>5. CASE connWg = 1
    <3>1. ASSUME NEW d \in ConnIDs, d # c PROVE ~Counted(d)
      BY <2>1, <2>5, <3>1, OneCounted DEF Counted
    <3>2. ASSUME NEW d \in ConnIDs PROVE pc'[d] \notin {"read", "handler"} /\ (Late(d)' => d = connID)
      <4>1. pc[d] = "new" => d = connID
        BY DEF ServerInv, AcceptInv
      <4> QED
        BY <2>1, <3>1, <4>1 DEF Late, Counted
    <3> QED
      BY <3>2 DEF StoppedInv
  <2>6. CASE ~WaitOver'
    BY <2>6 DEF StoppedInv
  <2> QED
    BY <2>2, <2>4, <2>5, <2>6
<1>6. ASSUME NEW s \in Stoppers, stopCall(s) \/ Stop(s) PROVE StoppedInv'
  <2>1. UNCHANGED pc
    BY <1>6 DEF Stop, stopCall, stopRLock, stopClose, stopCancel, stopWait, stopWake,
       shutdownCancel, Exit
  <2>2. WaitOver' => WaitOver \/ connWg = 0
    BY <1>6 DEF Stop, stopCall, stopRLock, stopClose, stopCancel, stopWait, stopWake, WaitOver
  <2> QED
    BY <1>1, <2>1, <2>2
<1>7. ASSUME NEW r \in Routers, routerLock(r) PROVE StoppedInv'
  BY <1>1, <1>7 DEF routerLock, WaitOver
<1>8. CASE Router \/ UNCHANGED vars
  BY <1>1, <1>8 DEF Router, vars, serverVars, WaitOver
<1>9. ASSUME NEW d \in Starters, Ready(d) \/ Dial(d) PROVE StoppedInv'
  BY <1>1, <1>9 DEF Ready, Dial, WaitOver
<1>10. CASE Conns
  <2>1. UNCHANGED stopPc
    BY <1>10 DEF Conns, serverVars
  <2>2. \A d \in ConnIDs :
          /\ Counted(d)' <=> Counted(d)
          /\ pc'[d] = "new" <=> pc[d] = "new"
          /\ shutdown /\ pc'[d] \in {"read", "handler"} => pc[d] \in {"read", "handler"}
    BY <1>10, ConnStepPc DEF Conns, ServerInv
  <2> QED
    BY <2>1, <2>2 DEF StoppedInv, Late, WaitOver
<1> QED
  <2> HIDE <1>0
  <2> QED
    BY <1>2, <1>3, <1>4, <1>5, <1>6, <1>7, <1>8, <1>9, <1>10 DEF Next, Run

\* Every step keeps what is left of a Stop that panicked: nothing moves any more.
LEMMA PanicStep ==
  ASSUME ServerInv, [Next]_vars
  PROVE  PanicInv'
<1>0. /\ PanicInv
      /\ stopPc \in [Stoppers -> StopPCs]
      /\ crashed => crashed'
      /\ connWg \in Nat
  BY CrashStays, Zenon DEF ServerInv, TypeOK
<1>1. ASSUME UNCHANGED connWg, UNCHANGED stopPc PROVE PanicInv'
  BY <1>0, <1>1 DEF PanicInv
<1>2. CASE runGo
  <2>1. ~crashed /\ UNCHANGED stopPc
    BY <1>2 DEF runGo, goServe, Running, stopVars
  <2> QED
    BY <1>0, <2>1 DEF PanicInv
<1>3. ASSUME NEW c \in ConnIDs, runConnDone(c) PROVE PanicInv'
  <2>1. ~crashed /\ \A s \in Stoppers : stopPc'[s] = "panicked" => stopPc[s] = "panicked"
    BY <1>3 DEF runConnDone, connDone, Running
  <2> QED
    BY <1>0, <2>1 DEF PanicInv
<1>4. ASSUME NEW s \in Stoppers, stopCall(s) \/ Stop(s) PROVE PanicInv'
  <2>1. /\ UNCHANGED connWg
        /\ \/ \E p \in StopPCs \ {"panicked"} : stopPc' = [stopPc EXCEPT ![s] = p]
           \/ stopPc' = [stopPc EXCEPT ![s] = "panicked"] /\ connWg # 0 /\ crashed'
    BY <1>4 DEF Stop, stopCall, stopRLock, stopClose, stopCancel, stopWait, stopWake,
       StopGoto, StopPCs, Exit
  <2> QED
    BY <1>0, <2>1 DEF PanicInv
<1>5. CASE runLock \/ runListen \/ runServe \/ runLoop \/ acceptError \/ Accept
  BY <1>1, <1>5 DEF runLock, runListen, runServe, runLoop, acceptError, Accept, stopVars
<1>6. ASSUME NEW r \in Routers, routerLock(r) PROVE PanicInv'
  BY <1>1, <1>6 DEF routerLock, stopVars
<1>7. CASE Router \/ UNCHANGED vars
  BY <1>1, <1>7 DEF Router, vars, serverVars, stopVars
<1>8. ASSUME NEW d \in Starters, Ready(d) \/ Dial(d) PROVE PanicInv'
  BY <1>1, <1>8 DEF Ready, Dial, stopVars
<1>9. CASE Conns
  BY <1>1, <1>9 DEF Conns, serverVars, stopVars
<1> QED
  BY <1>2, <1>3, <1>4, <1>5, <1>6, <1>7, <1>8, <1>9, Zenon DEF Next, Run

\* Every step keeps what Ready tells of the listener.
LEMMA ReadyStep ==
  ASSUME ServerInv, [Next]_vars
  PROVE  ReadyInv'
<1>0. /\ ReadyInv
      /\ stopPc \in [Stoppers -> StopPCs]
      /\ startPc \in [Starters -> StartPCs]
  BY DEF ServerInv, TypeOK
<1> USE <1>0 DEF ReadyInv, PastClose, RunGoto, StopGoto, runVars, stopVars
<1>1. CASE runLock \/ runServe \/ runLoop \/ acceptError \/ Accept \/ runGo
  <2>1. /\ UNCHANGED <<stopPc, startPc, listener, listenerReady>>
        /\ runPc' \in {"init", "locking"} => runPc \in {"init", "locking"}
        /\ listener = "nil" /\ runPc \in {"init", "locking", "failed"} =>
             runPc' \in {"init", "locking", "failed"}
    BY <1>1 DEF runLock, runServe, runLoop, acceptError, Accept, runGo
  <2> QED
    BY <2>1
<1>2. CASE runListen
  BY <1>2 DEF runListen
<1>3. ASSUME NEW c \in ConnIDs, runConnDone(c) PROVE ReadyInv'
  <2>1. /\ UNCHANGED <<startPc, listener, listenerReady, runPc>>
        /\ \A s \in Stoppers : stopPc[s] \in PastClose => stopPc'[s] \in PastClose
    BY <1>3 DEF runConnDone
  <2> QED
    BY <2>1
<1>4. ASSUME NEW s \in Stoppers, stopCall(s) \/ Stop(s) PROVE ReadyInv'
  <2>1. UNCHANGED <<startPc, listenerReady, runPc>>
    BY <1>4 DEF Stop, stopCall, stopRLock, stopClose, stopCancel, stopWait, stopWake
  <2>2. /\ listener' = "nil" => listener = "nil"
        /\ listener' = "closed" => listener = "closed" \/ stopPc'[s] = "cancel"
    BY <1>4 DEF Stop, stopCall, stopRLock, stopClose, stopCancel, stopWait, stopWake
  <2>3. \A u \in Stoppers : stopPc[u] \in PastClose => stopPc'[u] \in PastClose
    BY <1>4 DEF Stop, stopCall, stopRLock, stopClose, stopCancel, stopWait, stopWake
  <2> QED
    BY <2>1, <2>2, <2>3
<1>5. ASSUME UNCHANGED <<stopPc, startPc, listener, listenerReady, runPc>> PROVE ReadyInv'
  BY <1>5
<1>6. ASSUME NEW r \in Routers, routerLock(r) PROVE ReadyInv'
  BY <1>5, <1>6 DEF routerLock
<1>7. CASE Router \/ Conns \/ UNCHANGED vars
  BY <1>5, <1>7 DEF Router, Conns, vars, serverVars
<1>8. ASSUME NEW d \in Starters, Ready(d) \/ Dial(d) PROVE ReadyInv'
  BY <1>8 DEF Ready, Dial
<1> QED
  <2> HIDE <1>0 DEF ReadyInv
  <2> QED
    BY <1>1, <1>2, <1>3, <1>4, <1>6, <1>7, <1>8 DEF Next, Run

\* Every step keeps the reason for which a dial was refused.
LEMMA DialStep ==
  ASSUME ServerInv, [Next]_vars
  PROVE  ReadyMeansDialable'
<1>0. /\ ReadyMeansDialable
      /\ ReadyInv
      /\ stopPc \in [Stoppers -> StopPCs]
      /\ startPc \in [Starters -> StartPCs]
      /\ listener \in {"nil", "open", "closed"}
  BY DEF ServerInv, TypeOK
<1> DEFINE Ended == {"idle", "rlock", "close", "failed"}
<1> USE <1>0 DEF ReadyMeansDialable, RunGoto, StopGoto, runVars, stopVars
<1>1. ASSUME UNCHANGED <<stopPc, startPc>>, runPc = "failed" => runPc' = "failed"
      PROVE  ReadyMeansDialable'
  BY <1>1
<1>2. CASE Run \/ Accept
  BY <1>1, <1>2
  DEF Run, runLock, runListen, runServe, runLoop, acceptError, Accept, runGo
<1>3. ASSUME NEW c \in ConnIDs, runConnDone(c) PROVE ReadyMeansDialable'
  <2>1. /\ UNCHANGED <<startPc, runPc>>
        /\ \A s \in Stoppers : stopPc[s] \notin Ended => stopPc'[s] \notin Ended
    BY <1>3 DEF runConnDone
  <2> QED
    BY <2>1
<1>4. ASSUME NEW s \in Stoppers, stopCall(s) \/ Stop(s) PROVE ReadyMeansDialable'
  <2>1. UNCHANGED <<startPc, runPc>>
    BY <1>4 DEF Stop, stopCall, stopRLock, stopClose, stopCancel, stopWait, stopWake
  <2>2. \A u \in Stoppers : stopPc[u] \notin Ended => stopPc'[u] \notin Ended
    BY <1>4 DEF Stop, stopCall, stopRLock, stopClose, stopCancel, stopWait, stopWake
  <2> QED
    BY <2>1, <2>2
<1>5. ASSUME NEW r \in Routers, routerLock(r) PROVE ReadyMeansDialable'
  BY <1>1, <1>5 DEF routerLock
<1>6. CASE Router \/ Conns \/ UNCHANGED vars
  BY <1>1, <1>6 DEF Router, Conns, vars, serverVars
<1>7. ASSUME NEW d \in Starters, Ready(d) PROVE ReadyMeansDialable'
  BY <1>7 DEF Ready
<1>8. ASSUME NEW d \in Starters, Dial(d) PROVE ReadyMeansDialable'
  <2>1. /\ startPc[d] = "ready" /\ UNCHANGED <<runPc, stopPc>>
        /\ startPc' = [startPc EXCEPT ![d] = IF listener = "open" THEN "connected" ELSE "refused"]
    BY <1>8 DEF Dial
  <2>2. runPc \notin {"init", "locking"}
    BY <2>1 DEF ReadyInv
  <2>3. CASE listener = "open"
    BY <2>1, <2>3
  <2>4. CASE listener = "nil"
    BY <2>1, <2>2, <2>4 DEF ReadyInv
  <2>5. CASE listener = "closed"
    <3>1. \E s \in Stoppers : stopPc[s] \notin Ended
      BY <2>5 DEF ReadyInv, PastClose
    <3> QED
      BY <2>1, <3>1
  <2> QED
    BY <2>3, <2>4, <2>5
<1> QED
  <2> HIDE <1>0 DEF ReadyMeansDialable
  <2> QED
    BY <1>2, <1>3, <1>4, <1>5, <1>6, <1>7, <1>8 DEF Next
-----------------------------------------------------------------------------
\* The invariant holds in every reachable state.
THEOREM ServerInvariant == Spec => []ServerInv
<1>1. ServerInv /\ [Next]_vars => ServerInv'
  <2> SUFFICES ASSUME ServerInv, [Next]_vars PROVE ServerInv'
    OBVIOUS
  <2>1. ConnInv'
    BY ConnNextStep, ConnInvStep DEF ServerInv
  <2>2. TypeOK' /\ AcceptInv' /\ ConnWgInv'
    BY ServerTypeStep, AcceptStep, ConnWgStep
  <2>3. \A s \in Stoppers : StopInv(s)'
    BY StopStep
  <2>4. StoppedInv' /\ PanicInv' /\ ReadyInv' /\ ReadyMeansDialable'
    BY StoppedStep, PanicStep, ReadyStep, DialStep
  <2> QED
    BY <2>1, <2>2, <2>3, <2>4 DEF ServerInv
<1> QED
  BY InitServerInv, <1>1, PTL DEF Spec

\* What Run, Stop and Router do with connections is what Conn lets their
\* environment do, so all that is proved of Conn holds in a server.
THEOREM ServerImplementsConn == Spec => ConnSpec
<1>1. Init => ConnInit
  BY DEF Init
<1>2. ServerInv /\ [Next]_vars => [ConnNext]_connVars
  BY ConnNextStep
<1> QED
  BY ServerInvariant, <1>1, <1>2, PTL DEF Spec, ConnSpec

\* The variables of a server always have their types: connWg, for one, never
\* goes negative.
THEOREM ServerTypeCorrect == Spec => []TypeOK
<1>1. ServerInv => TypeOK
  BY DEF ServerInv
<1> QED
  BY ServerInvariant, <1>1, PTL

\* Once a Stop has returned nil no connection reads or serves a request in its
\* loop, whatever raced with that Stop.
THEOREM StopEndsReading == Spec => []NoReadAfterStop
<1>1. ServerInv => NoReadAfterStop
  BY DEF ServerInv, StoppedInv, WaitOver, Stopped, NoReadAfterStop
<1> QED
  BY ServerInvariant, <1>1, PTL

\* Stop misses at most one connection, the one Run had just accepted.
THEOREM StopMissesOne == Spec => []OneLateConnection
<1>1. ServerInv => OneLateConnection
  BY DEF ServerInv, StoppedInv, WaitOver, Stopped, Late, OneLateConnection
<1> QED
  BY ServerInvariant, <1>1, PTL

\* A Stop panics only on a single connection that Run counted while its Wait
\* was returning, and that connection has read nothing.
THEOREM StopPanicsOnLate == Spec => []StopPanicsOnLateConnection
<1>1. ServerInv => StopPanicsOnLateConnection
  <2> SUFFICES ASSUME ServerInv, \E s \in Stoppers : stopPc[s] = "panicked"
               PROVE  StopPanicsOnLateConnection
    BY DEF StopPanicsOnLateConnection
  <2>1. WaitOver /\ connWg # 0
    BY DEF ServerInv, PanicInv, WaitOver
  <2>2. PICK c \in ConnIDs : Counted(c)
    BY <2>1, SomeCounted
  <2>3. \A d \in ConnIDs : pc[d] \notin {"read", "handler"} /\ (Late(d) => d = c)
    BY <2>1, <2>2 DEF ServerInv, StoppedInv, Late
  <2> QED
    BY <2>2, <2>3 DEF Late, StopPanicsOnLateConnection
<1> QED
  BY ServerInvariant, <1>1, PTL

\* After Ready a dial fails only when Run failed to listen or a Stop came.
THEOREM ReadyIsDialable == Spec => []ReadyMeansDialable
<1>1. ServerInv => ReadyMeansDialable
  BY DEF ServerInv
<1> QED
  BY ServerInvariant, <1>1, PTL

=============================================================================
