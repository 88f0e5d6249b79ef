-------------------------------- MODULE Conn --------------------------------
(***************************************************************************)
(* The connections of a gldap server: conn.serveRequests and the goroutine *)
(* Run starts around it, the goroutine of every dispatched request, the    *)
(* ResponseWriters they share, StartTLS, conn.close and the on-close       *)
(* callback, against clients that send, stall, close or stay silent.       *)
(*                                                                         *)
(* A packet is its kind and the epoch it was sent in; an epoch is the      *)
(* number of TLS negotiations completed, so epoch 0 is plaintext.  The     *)
(* packets of a connection are one append-only sequence, read up to rpos,  *)
(* held by the bufio.Reader up to bpos and on the socket beyond that.      *)
(***************************************************************************)
EXTENDS Naturals, Sequences, FiniteSets

CONSTANTS
  ConnIDs,              \* connection numbers
  MaxPackets,           \* bound: packets a client sends on one connection
  Routers,              \* the routers a connection may be given
  DefaultRouter,        \* the empty Mux of NewServer
  UnbindRouters,        \* those with an unbind route registered
  Timeouts,             \* deadlines configured, a subset of Deadlines
  DisablePanicRecovery, \* option WithDisablePanicRecovery
  HasOnClose,           \* option WithOnClose
  Panics                \* what may panic here, a subset of PanicSites

Deadlines == {"read", "write"}
PanicSites == {"decode", "handler", "onClose", "elsewhere"}

ASSUME ConnAssumption ==
  /\ MaxPackets \in Nat
  /\ DefaultRouter \in Routers
  /\ UnbindRouters \subseteq Routers \ {DefaultRouter}
  /\ Timeouts \subseteq Deadlines
  /\ DisablePanicRecovery \in BOOLEAN
  /\ HasOnClose \in BOOLEAN
  /\ Panics \subseteq PanicSites

VARIABLES
  shutdown,   \* shutdownCtx is cancelled
  crashed,    \* an unrecovered panic has ended the process
  pc,         \* where the goroutine of a connection is
  requestID,  \* its request counter
  req,        \* its requests: status, kind, epoch of arrival and of writer
  requestsWg, \* its count of dispatched requests still running
  writerMu,   \* the request holding its writer lock, 0 when free
  epoch,      \* the epoch of its netConn, reader and writer
  router,     \* the router it was created with
  panicking,  \* it is unwinding a panic nobody recovers
  sock,       \* its network connection
  onClosed,   \* calls of the on-close callback for it
  sent,       \* the packets its client has sent
  rpos,       \* how many of them have been consumed
  bpos,       \* how many of them have left the socket
  client,     \* its client
  expired     \* its deadlines that have passed

loopVars == <<pc, requestID, panicking, router>>
serveVars == <<req, requestsWg, writerMu>>
closeVars == <<sock, onClosed>>
wireVars == <<sent, rpos, bpos, epoch>>
envVars == <<shutdown, client, expired>>
connVars == <<loopVars, serveVars, closeVars, wireVars, envVars, crashed>>

ReqIDs == 1..(MaxPackets + 1)
PacketKinds == {"op", "startTLS", "unbind", "malformed"}
ReqKinds == {"none", "op", "startTLS", "unbind", "notice"}
Statuses == {"none", "serving", "writing", "handshake", "done"}
PCs == {"none", "new", "start", "top", "notify", "read", "handler",
        "return", "close", "closed", "end"}

Packet == [kind : PacketKinds, epoch : Nat]
Request == [st : Statuses, kind : ReqKinds, w : Nat, via : Nat]
NoRequest == [st |-> "none", kind |-> "none", w |-> 0, via |-> 0]

InProgress(c, n) == req[c][n].st \in {"serving", "writing", "handshake"}
Serving(c) == pc[c] \in {"top", "notify", "read", "handler"}
-----------------------------------------------------------------------------
ConnInit ==
  /\ shutdown = FALSE
  /\ crashed = FALSE
  /\ pc = [c \in ConnIDs |-> "none"]
  /\ requestID = [c \in ConnIDs |-> 0]
  /\ req = [c \in ConnIDs |-> [n \in ReqIDs |-> NoRequest]]
  /\ requestsWg = [c \in ConnIDs |-> 0]
  /\ writerMu = [c \in ConnIDs |-> 0]
  /\ epoch = [c \in ConnIDs |-> 0]
  /\ router = [c \in ConnIDs |-> DefaultRouter]
  /\ panicking = [c \in ConnIDs |-> FALSE]
  /\ sock = [c \in ConnIDs |-> "none"]
  /\ onClosed = [c \in ConnIDs |-> 0]
  /\ sent = [c \in ConnIDs |-> <<>>]
  /\ rpos = [c \in ConnIDs |-> 0]
  /\ bpos = [c \in ConnIDs |-> 0]
  /\ client = [c \in ConnIDs |-> "open"]
  /\ expired = [c \in ConnIDs |-> {}]

\* The process is up and stays up.
Running == ~crashed /\ UNCHANGED crashed

Goto(c, from, to) ==
  /\ pc[c] = from
  /\ pc' = [pc EXCEPT ![c] = to]

SetStatus(c, n, s) == req' = [req EXCEPT ![c][n].st = s]

\* The deferred recover of the connection's goroutine: a panic ends
\* serveRequests, and goes on unwinding when recovery is disabled.
UnwindNoRecover(c) == panicking' = [panicking EXCEPT ![c] = TRUE]
Unwind(c) == panicking' = [panicking EXCEPT ![c] = DisablePanicRecovery]
-----------------------------------------------------------------------------
(* Run hands a connection over.                                            *)

\* newConn and initConn, with the router the server has at that moment.
newConn(c, r) ==
  /\ Running
  /\ Goto(c, "none", "new")
  /\ sock' = [sock EXCEPT ![c] = "open"]
  /\ router' = [router EXCEPT ![c] = r]
  /\ UNCHANGED <<requestID, panicking, serveVars, onClosed, wireVars, envVars>>

\* The go statement.
goServe(c) ==
  /\ Running
  /\ Goto(c, "new", "start")
  /\ UNCHANGED <<requestID, panicking, router, serveVars, closeVars, wireVars, envVars>>

\* Deadlines are set once for the whole connection; failing to set one ends it.
setDeadlines(c) ==
  /\ Running
  /\ \/ Goto(c, "start", "top")
     \/ Timeouts # {} /\ Goto(c, "start", "return")
  /\ UNCHANGED <<requestID, panicking, router, serveVars, closeVars, wireVars, envVars>>
-----------------------------------------------------------------------------
(* serveRequests.                                                          *)

\* The head of the loop: count the request, capture the writer of this moment
\* and look at the shutdown context once before blocking in a read.
loopTop(c) ==
  LET n == requestID[c] + 1
      rw(s, k) == [st |-> s, kind |-> k, w |-> epoch[c], via |-> epoch[c]]
  IN  /\ Running
      /\ requestID' = [requestID EXCEPT ![c] = n]
      /\ \/ /\ shutdown
            /\ Goto(c, "top", "notify")
            /\ req' = [req EXCEPT ![c][n] = rw("serving", "notice")]
         \/ /\ ~shutdown
            /\ Goto(c, "top", "read")
            /\ req' = [req EXCEPT ![c][n] = rw("none", "none")]
      /\ UNCHANGED <<panicking, router, requestsWg, writerMu, closeVars, wireVars, envVars>>

\* readPacket: the next packet comes from the bufio.Reader, which is filled
\* with any number of the packets on the socket when it is empty.
readPacket(c, kinds) ==
  /\ Running
  /\ pc[c] = "read"
  /\ rpos[c] < Len(sent[c])
  /\ sent[c][rpos[c] + 1].kind \in kinds
  /\ \/ rpos[c] < bpos[c] /\ UNCHANGED bpos
     \/ /\ rpos[c] = bpos[c]
        /\ "read" \notin expired[c]
        /\ \E b \in (rpos[c] + 1)..Len(sent[c]) : bpos' = [bpos EXCEPT ![c] = b]
  /\ rpos' = [rpos EXCEPT ![c] = @ + 1]
  /\ UNCHANGED <<requestID, router, writerMu, closeVars, sent, epoch, envVars>>

\* A packet that is no request ends serveRequests with an error, or with the
\* panic of a failed conversion while it is decoded.
readMalformed(c) ==
  /\ readPacket(c, {"malformed"})
  /\ pc' = [pc EXCEPT ![c] = "return"]
  /\ \/ UNCHANGED panicking
     \/ "decode" \in Panics /\ Unwind(c)
  /\ UNCHANGED <<req, requestsWg>>

\* The request becomes request n of the connection.
Receive(c, st) ==
  req' = [req EXCEPT ![c][requestID[c]] =
            [@ EXCEPT !.st = st, !.kind = sent[c][rpos[c] + 1].kind,
                      !.via = sent[c][rpos[c] + 1].epoch]]

\* An unbind request is served here if there is a route for it, then the loop ends.
readUnbind(c) ==
  /\ readPacket(c, {"unbind"})
  /\ \/ /\ router[c] \in UnbindRouters
        /\ pc' = [pc EXCEPT ![c] = "handler"]
        /\ Receive(c, "serving")
     \/ /\ router[c] \notin UnbindRouters
        /\ pc' = [pc EXCEPT ![c] = "return"]
        /\ Receive(c, "done")
  /\ UNCHANGED <<panicking, requestsWg>>

\* A StartTLS request is served by the connection's own goroutine.
readStartTLSAsync(c) ==
  /\ readPacket(c, {"startTLS"})
  /\ pc' = [pc EXCEPT ![c] = "top"]
  /\ Receive(c, "serving")
  /\ UNCHANGED <<panicking, requestsWg>>
readStartTLS(c) ==
  /\ readPacket(c, {"startTLS"})
  /\ pc' = [pc EXCEPT ![c] = "handler"]
  /\ Receive(c, "serving")
  /\ UNCHANGED <<panicking, requestsWg>>

requestsWgAddForgotten(c) == UNCHANGED requestsWg
requestsWgAdd(c) == requestsWg' = [requestsWg EXCEPT ![c] = @ + 1]
requestsWgDoneForgotten(c) == UNCHANGED requestsWg
requestsWgDone(c) == requestsWg' = [requestsWg EXCEPT ![c] = @ - 1]

\* Any other request gets a goroutine of its own and the loop goes on.
dispatch(c) ==
  /\ readPacket(c, {"op"})
  /\ pc' = [pc EXCEPT ![c] = "top"]
  /\ Receive(c, "serving")
  /\ requestsWgAdd(c)
  /\ UNCHANGED panicking

\* The read fails: the client is gone (EOF or reset) or the deadline passed.
ReadBrokenNoEOF(c) == "read" \in expired[c]
ReadBroken(c) == client[c] = "closed" \/ "read" \in expired[c]

readFail(c) ==
  /\ Running
  /\ Goto(c, "read", "return")
  /\ rpos[c] = bpos[c]
  /\ ReadBroken(c)
  /\ UNCHANGED <<requestID, panicking, router, serveVars, closeVars, wireVars, envVars>>
-----------------------------------------------------------------------------
(* Handlers, called by Mux.serve in a request's goroutine or in the        *)
(* connection's own.  They write any number of responses.                  *)

WriterFreeNoLock(c) == TRUE
WriterFree(c) == writerMu[c] = 0

WriteProceedsNoDeadline(c) == client[c] # "stalled"
WriteProceeds(c) == client[c] # "stalled" \/ "write" \in expired[c]

\* ResponseWriter.Write takes the lock all writers of the connection share.
WriteLock(c, n) ==
  /\ Running
  /\ req[c][n].st = "serving"
  /\ WriterFree(c)
  /\ writerMu' = [writerMu EXCEPT ![c] = n]
  /\ SetStatus(c, n, "writing")
  /\ UNCHANGED <<loopVars, requestsWg, closeVars, wireVars, envVars>>

\* The buffered write and its flush, done or failed, then the unlock.  It
\* blocks while the client does not take the bytes.  The loop returns after
\* its disconnection notice, written or not.
WriteFlush(c, n) ==
  /\ Running
  /\ req[c][n].st = "writing"
  /\ WriteProceeds(c)
  /\ writerMu' = [writerMu EXCEPT ![c] = 0]
  /\ \/ /\ req[c][n].kind = "notice"
        /\ SetStatus(c, n, "done")
        /\ Goto(c, "notify", "return")
     \/ /\ req[c][n].kind # "notice"
        /\ SetStatus(c, n, "serving")
        /\ UNCHANGED pc
  /\ UNCHANGED <<requestID, panicking, router, requestsWg, closeVars, wireVars, envVars>>

\* Request.StartTLS, called by a StartTLS handler: it negotiates on the socket ...
StartTLS(c, n) ==
  /\ Running
  /\ req[c][n].kind = "startTLS"
  /\ req[c][n].st = "serving"
  /\ req[c][n].w = epoch[c]
  /\ SetStatus(c, n, "handshake")
  /\ UNCHANGED <<loopVars, requestsWg, writerMu, closeVars, wireVars, envVars>>

KeepReader(c) == UNCHANGED rpos
NewReader(c) == rpos' = [rpos EXCEPT ![c] = bpos[c]]

\* ... and initConn installs the new netConn, reader and writer; what the old
\* reader had buffered is dropped with it.
initConn(c, n) ==
  /\ Running
  /\ req[c][n].st = "handshake"
  /\ client[c] = "open"
  /\ expired[c] = {}
  /\ bpos[c] = Len(sent[c])
  /\ epoch' = [epoch EXCEPT ![c] = @ + 1]
  /\ NewReader(c)
  /\ SetStatus(c, n, "serving")
  /\ UNCHANGED <<loopVars, requestsWg, writerMu, closeVars, sent, bpos, envVars>>

\* The negotiation cannot succeed: the client is gone, a deadline has passed or
\* the socket holds something else than TLS.
HandshakeBroken(c) == client[c] = "closed" \/ expired[c] # {} \/ bpos[c] < Len(sent[c])

\* A failed negotiation leaves the connection as it was, except that it has
\* taken bytes of the packets that were on the socket.
handshakeError(c, n) ==
  /\ Running
  /\ req[c][n].st = "handshake"
  /\ sent' = [sent EXCEPT ![c] = [i \in 1..Len(sent[c]) |->
                 IF i > bpos[c] THEN [kind |-> "malformed", epoch |-> sent[c][i].epoch]
                                ELSE sent[c][i]]]
  /\ SetStatus(c, n, "serving")
  /\ UNCHANGED <<loopVars, requestsWg, writerMu, closeVars, rpos, bpos, epoch, envVars>>

\* Where the loop goes after a handler it called itself.
AfterHandlerLoop(kind) == "top"
AfterHandler(kind) == IF kind = "unbind" THEN "return" ELSE "top"

\* The handler returns to the loop, or its goroutine leaves requestsWg.
HandlerReturn(c, n) ==
  /\ Running
  /\ req[c][n].st = "serving"
  /\ \/ /\ req[c][n].kind = "op"
        /\ requestsWgDone(c)
        /\ UNCHANGED pc
     \/ /\ req[c][n].kind \in {"startTLS", "unbind"}
        /\ Goto(c, "handler", AfterHandler(req[c][n].kind))
        /\ UNCHANGED requestsWg
  /\ SetStatus(c, n, "done")
  /\ UNCHANGED <<requestID, panicking, router, writerMu, closeVars, wireVars, envVars>>

\* A panic in a request's goroutine runs the deferred Done and, with no
\* recover above it, ends the process.
HandlerPanic(c, n) ==
  /\ ~crashed
  /\ "handler" \in Panics
  /\ req[c][n].st = "serving"
  /\ \/ /\ req[c][n].kind = "op"
        /\ requestsWgDone(c)
        /\ crashed' = TRUE
        /\ UNCHANGED <<pc, panicking>>
     \/ /\ req[c][n].kind \in {"startTLS", "unbind"}
        /\ Goto(c, "handler", "return")
        /\ Unwind(c)
        /\ UNCHANGED <<requestsWg, crashed>>
  /\ SetStatus(c, n, "done")
  /\ UNCHANGED <<requestID, router, writerMu, closeVars, wireVars, envVars>>
-----------------------------------------------------------------------------
(* The deferred function of the connection's goroutine.                    *)

connDoneNoClose(c) ==
  /\ Running
  /\ Goto(c, "return", "closed")
  /\ UNCHANGED <<requestID, panicking, router, serveVars, closeVars, wireVars, envVars>>
connDone(c) ==
  /\ Running
  /\ Goto(c, "return", "close")
  /\ UNCHANGED <<requestID, panicking, router, serveVars, closeVars, wireVars, envVars>>

requestsWgNoWait(c) == TRUE
requestsWgWait(c) == requestsWg[c] = 0

\* conn.close waits for the dispatched requests, then closes the socket; its
\* error is only logged.
close(c) ==
  /\ Running
  /\ Goto(c, "close", "closed")
  /\ requestsWgWait(c)
  /\ sock' = [sock EXCEPT ![c] = "closed"]
  /\ UNCHANGED <<requestID, panicking, router, serveVars, onClosed, wireVars, envVars>>

\* The callback is called last; a panic in it, or the one being unwound, ends
\* the process.
onCloseHandler(c) ==
  /\ ~crashed
  /\ Goto(c, "closed", "end")
  /\ onClosed' = [onClosed EXCEPT ![c] = IF HasOnClose THEN @ + 1 ELSE @]
  /\ \/ crashed' = panicking[c]
     \/ HasOnClose /\ "onClose" \in Panics /\ crashed' = TRUE
  /\ UNCHANGED <<requestID, panicking, router, serveVars, sock, wireVars, envVars>>
-----------------------------------------------------------------------------
(* The environment: Stop cancels the context, clients act, time passes.    *)

shutdownCancel ==
  /\ Running
  /\ shutdown' = TRUE
  /\ UNCHANGED <<loopVars, serveVars, closeVars, wireVars, client, expired>>

\* A panic outside the connections ends the process.
Exit ==
  /\ ~crashed
  /\ "elsewhere" \in Panics
  /\ crashed' = TRUE
  /\ UNCHANGED <<loopVars, serveVars, closeVars, wireVars, envVars>>

ClientSend(c) ==
  /\ Running
  /\ sock[c] = "open"
  /\ client[c] # "closed"
  /\ Len(sent[c]) < MaxPackets
  /\ \E k \in PacketKinds : sent' = [sent EXCEPT ![c] = Append(@, [kind |-> k, epoch |-> epoch[c]])]
  /\ UNCHANGED <<loopVars, serveVars, closeVars, rpos, bpos, epoch, envVars>>

\* A client stops or resumes taking responses, or closes its end.
ClientChange(c) ==
  /\ Running
  /\ sock[c] = "open"
  /\ client[c] # "closed"
  /\ \E s \in {"open", "stalled", "closed"} \ {client[c]} : client' = [client EXCEPT ![c] = s]
  /\ UNCHANGED <<loopVars, serveVars, closeVars, wireVars, shutdown, expired>>

DeadlineExpires(c, d) ==
  /\ Running
  /\ d \in Timeouts \ expired[c]
  /\ sock[c] = "open"
  /\ pc[c] \notin {"new", "start"}
  /\ expired' = [expired EXCEPT ![c] = @ \cup {d}]
  /\ UNCHANGED <<loopVars, serveVars, closeVars, wireVars, shutdown, client>>
-----------------------------------------------------------------------------
ServeStep(c) ==
  \/ setDeadlines(c) \/ loopTop(c)
  \/ readMalformed(c) \/ readUnbind(c) \/ readStartTLS(c) \/ dispatch(c) \/ readFail(c)

CloseStep(c) == close(c) \/ onCloseHandler(c)

HandlerStep(c, n) ==
  \/ WriteLock(c, n) \/ WriteFlush(c, n)
  \/ StartTLS(c, n) \/ initConn(c, n) \/ handshakeError(c, n)
  \/ HandlerReturn(c, n) \/ HandlerPanic(c, n)

ClientStep(c) ==
  \/ ClientSend(c) \/ ClientChange(c) \/ \E d \in Deadlines : DeadlineExpires(c, d)

\* The steps of a connection that the server takes no part in.
ConnStep(c) ==
  \/ ServeStep(c) \/ CloseStep(c) \/ ClientStep(c)
  \/ \E n \in ReqIDs : HandlerStep(c, n)

ConnNext ==
  \/ \E c \in ConnIDs : ConnStep(c) \/ goServe(c) \/ connDone(c)
  \/ \E c \in ConnIDs, r \in Routers : newConn(c, r)
  \/ shutdownCancel
  \/ Exit

ConnSpec == ConnInit /\ [][ConnNext]_connVars
-----------------------------------------------------------------------------
\* Goroutines are scheduled, a mutex is handed over in the end (it is free again
\* and again), handlers return and deadlines pass.  No client is fair.
ConnFairness ==
  \A c \in ConnIDs :
    /\ WF_connVars(ServeStep(c))
    /\ WF_connVars(CloseStep(c))
    /\ \A d \in Deadlines : WF_connVars(DeadlineExpires(c, d))
    /\ SF_connVars(\E n \in ReqIDs : req[c][n].kind = "notice" /\ WriteLock(c, n))
    /\ \A n \in ReqIDs :
         /\ WF_connVars(WriteFlush(c, n))
         /\ SF_connVars(HandlerReturn(c, n))
         /\ WF_connVars(HandshakeBroken(c) /\ handshakeError(c, n))

ConnFairSpec ==
  /\ ConnSpec
  /\ ConnFairness
  /\ \A c \in ConnIDs : WF_connVars(goServe(c) \/ connDone(c))
-----------------------------------------------------------------------------
(* What a connection promises: how Conn implements ConnLife.               *)

\* The loop takes no other request after an unbind or the notice, or has ended.
Draining(c) ==
  \/ pc[c] \in {"return", "close"}
  \/ \E n \in ReqIDs : req[c][n].kind \in {"unbind", "notice"}

Phase(c) ==
  CASE pc[c] = "none" -> "none"
    [] pc[c] = "end" -> "reported"
    [] pc[c] \notin {"none", "end"} /\ sock[c] = "closed" -> "closed"
    [] pc[c] \notin {"none", "end"} /\ sock[c] # "closed" /\ Draining(c) -> "draining"
    [] OTHER -> "serving"

Taken(c) == {n \in ReqIDs : req[c][n].st # "none"}
Handling(c) == {n \in ReqIDs : InProgress(c, n)}
Alone(c) == {n \in ReqIDs : req[c][n].kind = "startTLS" /\ InProgress(c, n)}

Life == INSTANCE ConnLife WITH
  phase <- [c \in ConnIDs |-> Phase(c)],
  taken <- [c \in ConnIDs |-> Taken(c)],
  handling <- [c \in ConnIDs |-> Handling(c)],
  alone <- [c \in ConnIDs |-> Alone(c)]
-----------------------------------------------------------------------------
(* Every variable keeps its type; in particular the WaitGroup counter never *)
(* goes negative and the request counter stays within the packets sent.    *)
ConnTypeOK ==
  /\ shutdown \in BOOLEAN
  /\ crashed \in BOOLEAN
  /\ pc \in [ConnIDs -> PCs]
  /\ requestID \in [ConnIDs -> 0..(MaxPackets + 1)]
  /\ req \in [ConnIDs -> [ReqIDs -> Request]]
  /\ requestsWg \in [ConnIDs -> Nat]
  /\ writerMu \in [ConnIDs -> ReqIDs \cup {0}]
  /\ epoch \in [ConnIDs -> Nat]
  /\ router \in [ConnIDs -> Routers]
  /\ panicking \in [ConnIDs -> BOOLEAN]
  /\ sock \in [ConnIDs -> {"none", "open", "closed"}]
  /\ onClosed \in [ConnIDs -> Nat]
  /\ sent \in [ConnIDs -> Seq(Packet)]
  /\ rpos \in [ConnIDs -> Nat]
  /\ bpos \in [ConnIDs -> Nat]
  /\ client \in [ConnIDs -> {"open", "stalled", "closed"}]
  /\ expired \in [ConnIDs -> SUBSET Deadlines]

(* conn.close: the socket is closed only after every request of the        *)
(* connection has finished, so no handler ever writes to a closed socket.  *)
CloseDrainsRequests ==
  \A c \in ConnIDs : sock[c] = "closed" => \A n \in ReqIDs : ~InProgress(c, n)

(* ResponseWriter.Write: at most one request of a connection is inside the *)
(* shared bufio.Writer, whichever goroutine it runs in, before and after a *)
(* StartTLS replaced the writer.                                           *)
OneWriter ==
  \A c \in ConnIDs : \A m, n \in ReqIDs :
    req[c][m].st = "writing" /\ req[c][n].st = "writing" => m = n

(* newResponseWriter in the loop, initConn in StartTLS: a request is       *)
(* answered by the writer of the layer its packet was sent on.  A packet   *)
(* sent in plaintext is never read once TLS is up.                         *)
ReplyOnArrivalLayer ==
  \A c \in ConnIDs : \A n \in ReqIDs :
    req[c][n].st # "none" => req[c][n].via = req[c][n].w

(* Mux.Unbind's promise that the server stops serving requests for a       *)
(* connection after an unbind request, and the same for the disconnection  *)
(* notice: no later request is ever started.                               *)
LastRequest ==
  \A c \in ConnIDs : \A m, n \in ReqIDs :
    req[c][m].kind \in {"unbind", "notice"} /\ m < n => req[c][n].st = "none"

(* serveRequests does not dispatch StartTLS concurrently: while its handler *)
(* runs, no later request has been started.                                *)
StartTLSHoldsLoop ==
  \A c \in ConnIDs : \A m, n \in ReqIDs :
    req[c][m].kind = "startTLS" /\ InProgress(c, m) /\ m < n => req[c][n].st = "none"

(* WithOnClose: the callback runs at most once for a connection, and then  *)
(* its socket is closed and none of its handlers is running any more.      *)
OnCloseOnce ==
  \A c \in ConnIDs :
    /\ onClosed[c] <= 1
    /\ onClosed[c] = 1 => sock[c] = "closed" /\ \A n \in ReqIDs : ~InProgress(c, n)

(* serveRequests, close and the deferred calls of Run keep to the life of a *)
(* connection of ConnLife: requests are taken in order, StartTLS alone,    *)
(* none after the last, and closing and reporting come when all are done.  *)
LivesAsPromised == Life!Spec

(* The same with its fairness: a connection that takes no more requests    *)
(* and has none left is closed and reported, whatever its client does.     *)
LivesToTheEnd == Life!FairSpec

(* serveRequests ends when the client has closed its end, and the whole    *)
(* connection is then released: socket closed, callback called.            *)
ClosedClientReleased ==
  \A c \in ConnIDs :
    client[c] = "closed" /\ pc[c] # "none" ~>
      crashed \/ (sock[c] = "closed" /\ (HasOnClose => onClosed[c] = 1))

(* WithReadTimeout and WithWriteTimeout: with both, every connection ends, *)
(* whatever its client does.                                               *)
DeadlinesEndConnection ==
  \A c \in ConnIDs : pc[c] = "new" ~> crashed \/ pc[c] = "end"

(* "catch and report panics - we don't want it to crash the server if      *)
(* handling a single conn causes a panic": with recovery enabled, what     *)
(* happens on a connection never ends the process.                         *)
PanicsContained == ~DisablePanicRecovery => ~crashed

(* "serveRequests until the connection is closed or the shutdownCtx is     *)
(* cancelled as the server stops": a cancellation ends the loop.           *)
ShutdownEndsServing ==
  \A c \in ConnIDs : shutdown /\ Serving(c) ~> crashed \/ ~Serving(c)
=============================================================================
