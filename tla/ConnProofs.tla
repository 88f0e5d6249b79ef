----------------------------- MODULE ConnProofs -----------------------------
(*****************************************************************************)
(* The safety of a connection, for any number of connections, packets and    *)
(* routers and for every configuration of module Conn.                       *)
(*                                                                           *)
(* The inductive invariant has four parts besides the types: where the       *)
(* reader is among the packets sent, what a request's record says of the     *)
(* loop, what the WaitGroup counts, and how far the shutdown of the          *)
(* connection is.  Every step keeps each part; the safety properties follow. *)
(*****************************************************************************)
EXTENDS Conn, FiniteSetTheorems, TLAPS

\* The reader never passes what was sent, the loop never counts more requests
\* than packets, and what is still unread was sent in the current epoch.
ReaderInv(c) ==
  /\ rpos[c] <= bpos[c]
  /\ bpos[c] <= Len(sent[c])
  /\ Len(sent[c]) <= MaxPackets
  /\ requestID[c] <= rpos[c] + 1
  /\ pc[c] \in {"none", "new", "start", "top", "handler"} => requestID[c] <= rpos[c]
  /\ pc[c] = "read" => requestID[c] >= 1
  /\ \A i \in 1..Len(sent[c]) : i > rpos[c] => sent[c][i].epoch = epoch[c]

\* What the record of a request says of the goroutine that serves it: a request
\* not yet read is blank and one being read has the current writer; only ops
\* run beside the loop; unbind and the notice are the loop's last; who writes
\* holds the lock.
RequestInv(c, n) ==
  /\ n > requestID[c] => req[c][n].st = "none" /\ req[c][n].kind = "none"
  /\ pc[c] = "read" /\ n = requestID[c] =>
       req[c][n].st = "none" /\ req[c][n].kind = "none" /\ req[c][n].w = epoch[c]
  /\ InProgress(c, n) /\ req[c][n].kind # "op" =>
       /\ n = requestID[c]
       /\ pc[c] = IF req[c][n].kind = "notice" THEN "notify" ELSE "handler"
  /\ req[c][n].st = "handshake" => req[c][n].kind = "startTLS"
  /\ req[c][n].kind \in {"unbind", "notice"} =>
       n = requestID[c] /\ pc[c] \notin {"none", "new", "start", "top", "read"}
  /\ req[c][n].st = "writing" => writerMu[c] = n
  /\ req[c][n].st # "none" => req[c][n].via = req[c][n].w

\* The requests running in goroutines of their own.
Dispatched(c) == {n \in ReqIDs : req[c][n].kind = "op" /\ InProgress(c, n)}

\* requestsWg counts them.
WgInv(c) == requestsWg[c] = Cardinality(Dispatched(c))

\* The socket is closed exactly when close has returned, then nothing is
\* counted any more; the callback is called by the last step.
CloseInv(c) ==
  /\ sock[c] = "closed" <=> pc[c] \in {"closed", "end"}
  /\ pc[c] \in {"closed", "end"} => requestsWg[c] = 0
  /\ onClosed[c] = 0 \/ (onClosed[c] = 1 /\ pc[c] = "end")

ConnInv ==
  /\ ConnTypeOK
  /\ \A c \in ConnIDs : ReaderInv(c)
  /\ \A c \in ConnIDs, n \in ReqIDs : RequestInv(c, n)
  /\ \A c \in ConnIDs : WgInv(c)
  /\ \A c \in ConnIDs : CloseInv(c)

\* The invariant, part by part.
LEMMA ConnParts ==
  ASSUME ConnInv
  PROVE  /\ ConnTypeOK
         /\ \A c \in ConnIDs : ReaderInv(c) /\ WgInv(c) /\ CloseInv(c)
         /\ \A c \in ConnIDs, n \in ReqIDs : RequestInv(c, n)
  BY Zenon DEF ConnInv

\* The types that the steps on the requests need.
LEMMA ConnTypes ==
  ASSUME ConnTypeOK
  PROVE  /\ ReqIDs \subseteq Nat \ {0}
         /\ pc \in [ConnIDs -> PCs] /\ requestID \in [ConnIDs -> Nat] /\ epoch \in [ConnIDs -> Nat]
         /\ writerMu \in [ConnIDs -> ReqIDs \cup {0}] /\ req \in [ConnIDs -> [ReqIDs -> Request]]
  BY ConnAssumption DEF ConnTypeOK, ReqIDs

-----------------------------------------------------------------------------
\* An index of a sequence grown by one is an old one or the last.
LEMMA OldOrLast ==
  ASSUME NEW k \in Nat, NEW l, l = k + 1, NEW i \in 1..l
  PROVE  i \in 1..k \/ i = k + 1
OBVIOUS

\* Only finitely many requests run at once, so that counting them makes sense.
LEMMA DispatchedFinite ==
  ASSUME NEW c \in ConnIDs
  PROVE  IsFiniteSet(Dispatched(c)) /\ Cardinality(Dispatched(c)) \in Nat
<1>1. MaxPackets + 1 \in Int
  BY ConnAssumption
<1>2. IsFiniteSet(ReqIDs)
  BY <1>1, FS_Interval DEF ReqIDs
<1>3. Dispatched(c) \in SUBSET ReqIDs
  BY DEF Dispatched
<1> QED
  BY <1>2, <1>3, FS_Subset, FS_CardinalityType

\* The initial state satisfies the invariant.
LEMMA InitConnInv == ConnInit => ConnInv
<1> SUFFICES ASSUME ConnInit PROVE ConnInv
  OBVIOUS
<1> USE ConnAssumption DEF ConnInit
<1>1. NoRequest \in Request
  BY DEF NoRequest, Request, Statuses, ReqKinds
<1>2. ConnTypeOK
  <2>1. req \in [ConnIDs -> [ReqIDs -> Request]]
    BY <1>1
  <2>2. sent \in [ConnIDs -> Seq(Packet)]
    OBVIOUS
  <2>3. /\ requestID \in [ConnIDs -> 0..(MaxPackets + 1)]
        /\ requestsWg \in [ConnIDs -> Nat]
        /\ epoch \in [ConnIDs -> Nat]
        /\ onClosed \in [ConnIDs -> Nat]
        /\ rpos \in [ConnIDs -> Nat]
        /\ bpos \in [ConnIDs -> Nat]
        /\ writerMu \in [ConnIDs -> ReqIDs \cup {0}]
    OBVIOUS
  <2>4. /\ router \in [ConnIDs -> Routers]
        /\ panicking \in [ConnIDs -> BOOLEAN]
        /\ sock \in [ConnIDs -> {"none", "open", "closed"}]
        /\ client \in [ConnIDs -> {"open", "stalled", "closed"}]
        /\ expired \in [ConnIDs -> SUBSET Deadlines]
        /\ shutdown \in BOOLEAN
        /\ crashed \in BOOLEAN
    BY Zenon
  <2>5. pc \in [ConnIDs -> PCs]
    BY DEF PCs
  <2> QED
    BY <2>1, <2>2, <2>3, <2>4, <2>5 DEF ConnTypeOK
<1>3. ASSUME NEW c \in ConnIDs PROVE ReaderInv(c)
  BY <1>3 DEF ReaderInv
<1>4. ASSUME NEW c \in ConnIDs, NEW n \in ReqIDs PROVE RequestInv(c, n)
  BY <1>4 DEF RequestInv, InProgress, NoRequest
<1>5. ASSUME NEW c \in ConnIDs PROVE WgInv(c)
  <2>1. Dispatched(c) = {}
    BY DEF Dispatched, NoRequest
  <2> QED
    BY <2>1, FS_EmptySet DEF WgInv
<1>6. ASSUME NEW c \in ConnIDs PROVE CloseInv(c)
  BY <1>6 DEF CloseInv
<1> QED
  BY <1>2, <1>3, <1>4, <1>5, <1>6 DEF ConnInv
-----------------------------------------------------------------------------
\* Replacing one request of one connection.
LEMMA ReplaceRequest ==
  ASSUME NEW f \in [ConnIDs -> [ReqIDs -> Request]],
         NEW c \in ConnIDs, NEW n \in ReqIDs, NEW x \in Request,
         NEW g, g = [f EXCEPT ![c] = [f[c] EXCEPT ![n] = x]]
  PROVE  /\ g \in [ConnIDs -> [ReqIDs -> Request]]
         /\ \A d \in ConnIDs, m \in ReqIDs :
              g[d][m] = IF d = c /\ m = n THEN x ELSE f[d][m]
<1> DEFINE fc == [f[c] EXCEPT ![n] = x]
<1>1. fc \in [ReqIDs -> Request] /\ \A m \in ReqIDs : fc[m] = IF m = n THEN x ELSE f[c][m]
  OBVIOUS
<1>2. g = [f EXCEPT ![c] = fc]
  OBVIOUS
<1> HIDE DEF fc
<1>3. g \in [ConnIDs -> [ReqIDs -> Request]]
  BY <1>1, <1>2
<1>4. \A d \in ConnIDs : g[d] = IF d = c THEN fc ELSE f[d]
  BY <1>2, Zenon
<1> QED
  BY <1>1, <1>3, <1>4

\* SetStatus changes the status of one request and nothing else.
LEMMA SetStatusEffect ==
  ASSUME ConnTypeOK, NEW c \in ConnIDs, NEW n \in ReqIDs, NEW s \in Statuses,
         SetStatus(c, n, s)
  PROVE  /\ req' \in [ConnIDs -> [ReqIDs -> Request]]
         /\ \A d \in ConnIDs, m \in ReqIDs :
              /\ req'[d][m].st = IF d = c /\ m = n THEN s ELSE req[d][m].st
              /\ req'[d][m].kind = req[d][m].kind
              /\ req'[d][m].w = req[d][m].w
              /\ req'[d][m].via = req[d][m].via
<1> DEFINE x == [req[c][n] EXCEPT !.st = s]
<1>1. req \in [ConnIDs -> [ReqIDs -> Request]] /\ req[c][n] \in Request
  BY DEF ConnTypeOK
<1>2. /\ x \in Request
      /\ x.st = s
      /\ x.kind = req[c][n].kind
      /\ x.w = req[c][n].w
      /\ x.via = req[c][n].via
  BY <1>1 DEF Request
<1>3. req' = [req EXCEPT ![c] = [req[c] EXCEPT ![n] = x]]
  BY DEF SetStatus
<1> HIDE DEF x
<1>4. /\ req' \in [ConnIDs -> [ReqIDs -> Request]]
      /\ \A d \in ConnIDs, m \in ReqIDs :
           req'[d][m] = IF d = c /\ m = n THEN x ELSE req[d][m]
  BY <1>1, <1>2, <1>3, ReplaceRequest
<1> QED
  BY <1>2, <1>4

\* What the records say survives the steps of a handler and of the notice: each
\* changes the status of one request that is under way.
LEMMA StatusKeeps ==
  ASSUME ConnInv, NEW c \in ConnIDs, NEW n \in ReqIDs, NEW s \in Statuses \ {"none"},
         SetStatus(c, n, s), InProgress(c, n), requestID' = requestID,
         \/ writerMu' = writerMu
         \/ writerMu[c] = 0 /\ writerMu' = [writerMu EXCEPT ![c] = n]
         \/ req[c][n].st = "writing" /\ writerMu' = [writerMu EXCEPT ![c] = 0],
         s = "writing" => writerMu'[c] = n,
         s = "handshake" => req[c][n].kind = "startTLS",
         epoch' = epoch \/ (req[c][n].st = "handshake" /\ epoch' = [epoch EXCEPT ![c] = epoch[c] + 1]),
         \/ pc' = pc
         \/ s = "done" /\ req[c][n].kind # "op" /\ pc' = [pc EXCEPT ![c] = "return"]
         \/ s = "done" /\ req[c][n].kind = "startTLS" /\ pc' = [pc EXCEPT ![c] = "top"],
         NEW d \in ConnIDs, NEW m \in ReqIDs
  PROVE  RequestInv(d, m)'
<1>0. /\ RequestInv(c, n) /\ RequestInv(d, m) /\ ReqIDs \subseteq Nat \ {0}
      /\ pc \in [ConnIDs -> PCs] /\ requestID \in [ConnIDs -> Nat] /\ epoch \in [ConnIDs -> Nat]
      /\ writerMu \in [ConnIDs -> ReqIDs \cup {0}]
  BY ConnParts, ConnTypes, Zenon
<1>1. /\ req'[d][m].st = IF d = c /\ m = n THEN s ELSE req[d][m].st
      /\ req'[d][m].kind = req[d][m].kind
      /\ req'[d][m].w = req[d][m].w
      /\ req'[d][m].via = req[d][m].via
  BY SetStatusEffect, ConnParts
<1>2. /\ req[c][n].st \in {"serving", "writing", "handshake"}
      /\ n <= requestID[c]
      /\ ~(pc[c] = "read" /\ n = requestID[c])
  BY <1>0 DEF RequestInv, InProgress
<1>3. CASE d # c
  <2>1. pc'[d] = pc[d] /\ writerMu'[d] = writerMu[d] /\ epoch'[d] = epoch[d] /\ requestID'[d] = requestID[d]
    BY <1>0, <1>3
  <2> QED
    BY <1>0, <1>1, <1>3, <2>1 DEF RequestInv, InProgress
<1>4. CASE d = c /\ m = n
  BY <1>0, <1>1, <1>2, <1>4 DEF RequestInv, InProgress, Statuses
<1>5. CASE d = c /\ m # n
  BY <1>0, <1>1, <1>2, <1>5 DEF RequestInv, InProgress
<1> QED
  BY <1>3, <1>4, <1>5

\* A read request can be Received: its number is a request number and its packet
\* is one that was sent.
LEMMA ReadIndex ==
  ASSUME ConnInv, NEW c \in ConnIDs, pc[c] = "read", rpos[c] < Len(sent[c])
  PROVE  /\ requestID[c] \in ReqIDs
         /\ rpos[c] + 1 \in 1..Len(sent[c])
         /\ sent[c][rpos[c] + 1] \in Packet
         /\ sent[c][rpos[c] + 1].epoch = epoch[c]
<1> USE ConnAssumption DEF ConnInv, ConnTypeOK, ReaderInv
<1>1. requestID[c] \in ReqIDs
  BY DEF ReqIDs
<1>2. rpos[c] + 1 \in 1..Len(sent[c])
  OBVIOUS
<1>3. sent[c][rpos[c] + 1] \in Packet
  BY <1>2
<1> QED
  BY <1>1, <1>2, <1>3

\* Receive fills in the record of the request being read.
LEMMA ReceiveEffect ==
  ASSUME ConnInv, NEW c \in ConnIDs, NEW s \in Statuses, Receive(c, s),
         pc[c] = "read", rpos[c] < Len(sent[c]),
         sent[c][rpos[c] + 1].kind \in {"op", "startTLS", "unbind"}
  PROVE  /\ req' \in [ConnIDs -> [ReqIDs -> Request]]
         /\ \A d \in ConnIDs, m \in ReqIDs :
              d # c \/ m # requestID[c] => req'[d][m] = req[d][m]
         /\ req'[c][requestID[c]].st = s
         /\ req'[c][requestID[c]].kind = sent[c][rpos[c] + 1].kind
         /\ req'[c][requestID[c]].w = req[c][requestID[c]].w
         /\ req'[c][requestID[c]].via = epoch[c]
<1> DEFINE n == requestID[c]
           p == sent[c][rpos[c] + 1]
           x == [req[c][n] EXCEPT !.st = s, !.kind = p.kind, !.via = p.epoch]
<1>0. n \in ReqIDs /\ p \in Packet /\ p.epoch = epoch[c] /\ p.kind \in ReqKinds
  BY ReadIndex DEF ReqKinds
<1>1. req \in [ConnIDs -> [ReqIDs -> Request]] /\ req[c][n] \in Request
  BY <1>0, ConnParts DEF ConnTypeOK
<1>2. req' = [req EXCEPT ![c] = [req[c] EXCEPT ![n] = x]]
  BY DEF Receive
<1>3. /\ x \in Request
      /\ x.st = s
      /\ x.kind = p.kind
      /\ x.w = req[c][n].w
      /\ x.via = p.epoch
  <2> HIDE DEF n, p
  <2> QED
    BY <1>0, <1>1, Zenon DEF Request, Packet
<1> HIDE DEF n, p, x
<1>4. /\ req' \in [ConnIDs -> [ReqIDs -> Request]]
      /\ \A d \in ConnIDs, m \in ReqIDs :
           req'[d][m] = IF d = c /\ m = n THEN x ELSE req[d][m]
  BY <1>0, <1>1, <1>2, <1>3, ReplaceRequest
<1>5. req'[c][n] = x
  BY <1>0, <1>4
<1> QED
  BY <1>0, <1>3, <1>4, <1>5 DEF n, p

\* The record of a request just read fits where the loop goes.
LEMMA ReadRecord ==
  ASSUME NEW c \in ConnIDs, NEW d \in ConnIDs, NEW m \in ReqIDs,
         pc[c] = "read", RequestInv(c, requestID[c]), RequestInv(d, m),
         requestID' = requestID, writerMu' = writerMu, epoch' = epoch,
         NEW k, NEW st, NEW to, pc'[c] = to, d # c => pc'[d] = pc[d],
         \/ to = "return" /\ k = "unbind" /\ st = "done"
         \/ to = "handler" /\ k \in {"unbind", "startTLS"} /\ st = "serving"
         \/ to = "top" /\ k = "op" /\ st = "serving",
         d # c \/ m # requestID[c] => req'[d][m] = req[d][m],
         req'[c][requestID[c]].st = st, req'[c][requestID[c]].kind = k,
         req'[c][requestID[c]].w = req[c][requestID[c]].w,
         req'[c][requestID[c]].via = epoch[c], requestID[c] \in Nat
  PROVE  RequestInv(d, m)'
<1> DEFINE n == requestID[c]
<1>1. CASE d # c
  BY <1>1, Zenon DEF RequestInv, InProgress
<1>2. CASE d = c /\ m # n
  <2>1. /\ req'[d][m] = req[d][m] /\ pc[d] = "read" /\ m # requestID[d]
        /\ pc'[d] \in {"return", "handler", "top"}
    BY <1>2, Zenon
  <2>2. (InProgress(d, m) => req[d][m].kind = "op") /\ req[d][m].kind \notin {"unbind", "notice"}
    BY <2>1, ZenonT(30) DEF RequestInv
  <2> QED
    BY <1>2, <2>1, <2>2, ZenonT(30) DEF RequestInv, InProgress
<1>3. CASE d = c /\ m = n
  <2>1. ~(n > n)
    OBVIOUS
  <2>2. req[c][n].w = epoch[c]
    BY Zenon DEF RequestInv
  <2>3. /\ req'[d][m].st = st /\ req'[d][m].kind = k /\ req'[d][m].via = req'[d][m].w
        /\ ~(m > requestID'[d]) /\ m = requestID'[d] /\ pc'[d] = to
    BY <1>3, <2>1, <2>2, Zenon
  <2> QED
    BY <2>3, ZenonT(30) DEF RequestInv, InProgress
<1> QED
  BY <1>1, <1>2, <1>3, Zenon

\* Receiving a request keeps what the records say of their goroutines.
LEMMA ReceiveKeeps ==
  ASSUME ConnInv, NEW c \in ConnIDs, NEW st \in {"serving", "done"}, Receive(c, st),
         pc[c] = "read", rpos[c] < Len(sent[c]),
         requestID' = requestID, writerMu' = writerMu, epoch' = epoch,
         NEW k, k = sent[c][rpos[c] + 1].kind, NEW to, pc' = [pc EXCEPT ![c] = to],
         \/ to = "return" /\ k = "unbind" /\ st = "done"
         \/ to = "handler" /\ k \in {"unbind", "startTLS"} /\ st = "serving"
         \/ to = "top" /\ k = "op" /\ st = "serving",
         NEW d \in ConnIDs, NEW m \in ReqIDs
  PROVE  RequestInv(d, m)'
<1> DEFINE n == requestID[c]
<1>1. n \in ReqIDs
  BY ReadIndex, Zenon
<1>2. st \in Statuses /\ k \in {"op", "startTLS", "unbind"}
  BY Zenon DEF Statuses
<1>3. /\ d # c \/ m # n => req'[d][m] = req[d][m]
      /\ req'[c][n].st = st
      /\ req'[c][n].kind = k
      /\ req'[c][n].w = req[c][n].w
      /\ req'[c][n].via = epoch[c]
  BY <1>2, ReceiveEffect
<1>4. RequestInv(c, n) /\ RequestInv(d, m) /\ ConnTypeOK
  BY <1>1, ConnParts, Zenon
<1>5. /\ pc \in [ConnIDs -> PCs] /\ pc'[c] = to
      /\ requestID[c] \in Nat /\ n \in Nat
  BY <1>4, ConnTypes
<1>6. d # c => pc'[d] = pc[d]
  BY <1>5, Zenon
<1> QED
  BY <1>3, <1>4, <1>5, <1>6, ReadRecord, ZenonT(30)

\* The head of the loop starts the record of the next request.
LEMMA LoopTopEffect ==
  ASSUME ConnInv, NEW c \in ConnIDs, loopTop(c)
  PROVE  /\ requestID[c] + 1 \in ReqIDs
         /\ req' \in [ConnIDs -> [ReqIDs -> Request]]
         /\ \A d \in ConnIDs, m \in ReqIDs :
              d # c \/ m # requestID[c] + 1 => req'[d][m] = req[d][m]
         /\ req'[c][requestID[c] + 1].st = IF shutdown THEN "serving" ELSE "none"
         /\ req'[c][requestID[c] + 1].kind = IF shutdown THEN "notice" ELSE "none"
         /\ req'[c][requestID[c] + 1].w = epoch[c]
         /\ req'[c][requestID[c] + 1].via = epoch[c]
         /\ requestID[c] + 1 > requestID[c]
<1> DEFINE n == requestID[c] + 1
           x == [st |-> IF shutdown THEN "serving" ELSE "none",
                 kind |-> IF shutdown THEN "notice" ELSE "none",
                 w |-> epoch[c], via |-> epoch[c]]
<1>1. ConnTypeOK /\ ReaderInv(c)
  BY ConnParts
<1>2. n \in ReqIDs /\ n > requestID[c]
  BY <1>1, ConnAssumption DEF loopTop, Goto, ReaderInv, ConnTypeOK, ReqIDs
<1>3. req \in [ConnIDs -> [ReqIDs -> Request]] /\ epoch[c] \in Nat
  BY <1>1 DEF ConnTypeOK
<1>4. /\ x \in Request
      /\ x.st = IF shutdown THEN "serving" ELSE "none"
      /\ x.kind = IF shutdown THEN "notice" ELSE "none"
      /\ x.w = epoch[c]
      /\ x.via = epoch[c]
  BY <1>3 DEF Request, Statuses, ReqKinds
<1>5. req' = [req EXCEPT ![c] = [req[c] EXCEPT ![n] = x]]
  BY DEF loopTop
<1> HIDE DEF n, x
<1>6. /\ req' \in [ConnIDs -> [ReqIDs -> Request]]
      /\ \A d \in ConnIDs, m \in ReqIDs :
           req'[d][m] = IF d = c /\ m = n THEN x ELSE req[d][m]
  BY <1>2, <1>3, <1>4, <1>5, ReplaceRequest
<1>7. req'[c][n] = x
  BY <1>2, <1>6
<1> QED
  BY <1>2, <1>4, <1>6, <1>7 DEF n

\* So does the head of the loop.
LEMMA LoopTopKeeps ==
  ASSUME ConnInv, NEW c \in ConnIDs, loopTop(c), NEW d \in ConnIDs, NEW m \in ReqIDs
  PROVE  RequestInv(d, m)'
<1> DEFINE n == requestID[c] + 1
<1>1. /\ pc[c] = "top" /\ UNCHANGED <<writerMu, epoch>>
      /\ pc' = [pc EXCEPT ![c] = IF shutdown THEN "notify" ELSE "read"]
      /\ requestID' = [requestID EXCEPT ![c] = n]
  BY Zenon DEF loopTop, Goto, closeVars, wireVars, envVars
<1>2. /\ n \in ReqIDs /\ n > requestID[c]
      /\ \A e \in ConnIDs, i \in ReqIDs : e # c \/ i # n => req'[e][i] = req[e][i]
      /\ req'[c][n].st = IF shutdown THEN "serving" ELSE "none"
      /\ req'[c][n].kind = IF shutdown THEN "notice" ELSE "none"
      /\ req'[c][n].w = epoch[c] /\ req'[c][n].via = epoch[c]
  BY LoopTopEffect, Zenon
<1>3. RequestInv(d, m) /\ RequestInv(c, n) /\ ConnTypeOK
  BY <1>2, ConnParts, Zenon
<1>4. /\ pc \in [ConnIDs -> PCs] /\ requestID \in [ConnIDs -> Nat] /\ ReqIDs \subseteq Nat \ {0}
      /\ n \in Nat
  BY <1>2, <1>3, ConnTypes
<1> HIDE DEF n
<1>5. CASE d # c
  <2>1. pc'[d] = pc[d] /\ requestID'[d] = requestID[d] /\ req'[d][m] = req[d][m]
    BY <1>1, <1>2, <1>4, <1>5
  <2> QED
    BY <1>1, <1>3, <2>1, Zenon DEF RequestInv, InProgress
<1>6. CASE d = c
  <2>1. pc'[d] = (IF shutdown THEN "notify" ELSE "read") /\ requestID'[d] = n
    BY <1>1, <1>4, <1>6
  <2>2. CASE m # n
    <3>1. req'[d][m] = req[d][m]
      BY <1>2, <1>6, <2>2, Zenon
    <3>2. n \in Nat /\ m \in Nat /\ requestID[d] \in Nat /\ n > requestID[d] /\ (m > n => m > requestID[d])
      BY <1>2, <1>4, <1>6
    <3> QED
      BY <1>1, <1>3, <1>6, <2>1, <2>2, <3>1, <3>2 DEF RequestInv, InProgress
  <2>3. CASE m = n
    BY <1>1, <1>2, <1>4, <1>6, <2>1, <2>3 DEF RequestInv, InProgress
  <2> QED
    BY <2>2, <2>3, Zenon
<1> QED
  BY <1>5, <1>6, Zenon

\* A request in a goroutine of its own is counted, so its Done is in order.
LEMMA RunningCounted ==
  ASSUME ConnInv, NEW c \in ConnIDs, NEW n \in ReqIDs,
         req[c][n].kind = "op", InProgress(c, n)
  PROVE  requestsWg[c] \in Nat \ {0}
<1>1. n \in Dispatched(c)
  BY DEF Dispatched
<1>2. Cardinality(Dispatched(c)) \in Nat \ {0}
  BY <1>1, DispatchedFinite, FS_EmptySet
<1> QED
  BY <1>2, ConnParts DEF WgInv

\* Every step keeps the types.
LEMMA TypeStep ==
  ASSUME ConnInv, [ConnNext]_connVars
  PROVE  ConnTypeOK'
<1>0. ConnTypeOK
  BY ConnParts
<1> USE <1>0, ConnAssumption DEF ConnTypeOK, Running, Goto,
        loopVars, serveVars, closeVars, wireVars, envVars
<1>1. ASSUME NEW c \in ConnIDs, NEW r \in Routers, newConn(c, r) PROVE ConnTypeOK'
  BY <1>1 DEF newConn, PCs
<1>2. ASSUME NEW c \in ConnIDs, goServe(c) \/ connDone(c) PROVE ConnTypeOK'
  BY <1>2, Zenon DEF goServe, connDone, PCs
<1>3. ASSUME NEW c \in ConnIDs, setDeadlines(c) PROVE ConnTypeOK'
  BY <1>3, Zenon DEF setDeadlines, PCs
<1>4. ASSUME NEW c \in ConnIDs, loopTop(c) PROVE ConnTypeOK'
  <2>1. requestID[c] + 1 \in ReqIDs
    BY <1>4, LoopTopEffect
  <2>2. req' \in [ConnIDs -> [ReqIDs -> Request]]
    BY <1>4, LoopTopEffect
  <2>3. requestID' \in [ConnIDs -> 0..(MaxPackets + 1)]
    BY <1>4, <2>1 DEF loopTop, ReqIDs
  <2> QED
    BY <1>4, <2>2, <2>3, Zenon DEF loopTop, PCs
<1>a. ASSUME NEW c \in ConnIDs, NEW K, readPacket(c, K)
      PROVE  rpos' \in [ConnIDs -> Nat] /\ bpos' \in [ConnIDs -> Nat]
  <2>1. rpos' \in [ConnIDs -> Nat]
    BY <1>a DEF readPacket
  <2>2. \A b \in (rpos[c] + 1)..Len(sent[c]) : b \in Nat
    OBVIOUS
  <2>3. bpos' \in [ConnIDs -> Nat]
    BY <1>a, <2>2 DEF readPacket
  <2> QED
    BY <2>1, <2>3
<1>5. ASSUME NEW c \in ConnIDs, readMalformed(c) PROVE ConnTypeOK'
  <2>1. rpos' \in [ConnIDs -> Nat] /\ bpos' \in [ConnIDs -> Nat]
    BY <1>5, <1>a DEF readMalformed
  <2>2. pc' \in [ConnIDs -> PCs]
    BY <1>5 DEF readMalformed, PCs
  <2>3. panicking' \in [ConnIDs -> BOOLEAN]
    BY <1>5, Zenon DEF readMalformed, Unwind
  <2> QED
    BY <1>5, <2>1, <2>2, <2>3, Zenon DEF readMalformed, readPacket
<1>6. ASSUME NEW c \in ConnIDs, NEW st \in Statuses, Receive(c, st),
             pc[c] = "read", rpos[c] < Len(sent[c]),
             sent[c][rpos[c] + 1].kind \in {"op", "startTLS", "unbind"}
      PROVE  req' \in [ConnIDs -> [ReqIDs -> Request]]
  BY <1>6, ReceiveEffect
<1>7. ASSUME NEW c \in ConnIDs, readUnbind(c) PROVE ConnTypeOK'
  <2>1. req' \in [ConnIDs -> [ReqIDs -> Request]]
    BY <1>6, <1>7 DEF readUnbind, readPacket, Statuses
  <2>2. rpos' \in [ConnIDs -> Nat] /\ bpos' \in [ConnIDs -> Nat]
    BY <1>7, <1>a DEF readUnbind
  <2>3. pc' \in [ConnIDs -> PCs]
    BY <1>7, Zenon DEF readUnbind, PCs
  <2> QED
    BY <1>7, <2>1, <2>2, <2>3 DEF readUnbind, readPacket
<1>8. ASSUME NEW c \in ConnIDs, readStartTLS(c) PROVE ConnTypeOK'
  <2>1. req' \in [ConnIDs -> [ReqIDs -> Request]]
    BY <1>6, <1>8 DEF readStartTLS, readPacket, Statuses
  <2>2. rpos' \in [ConnIDs -> Nat] /\ bpos' \in [ConnIDs -> Nat]
    BY <1>8, <1>a DEF readStartTLS
  <2>3. pc' \in [ConnIDs -> PCs]
    BY <1>8 DEF readStartTLS, PCs
  <2> QED
    BY <1>8, <2>1, <2>2, <2>3 DEF readStartTLS, readPacket
<1>9. ASSUME NEW c \in ConnIDs, dispatch(c) PROVE ConnTypeOK'
  <2>1. req' \in [ConnIDs -> [ReqIDs -> Request]]
    BY <1>6, <1>9 DEF dispatch, readPacket, Statuses
  <2>2. rpos' \in [ConnIDs -> Nat] /\ bpos' \in [ConnIDs -> Nat]
    BY <1>9, <1>a DEF dispatch
  <2>3. pc' \in [ConnIDs -> PCs]
    BY <1>9 DEF dispatch, PCs
  <2>4. requestsWg' \in [ConnIDs -> Nat]
    BY <1>9 DEF dispatch, requestsWgAdd
  <2> QED
    BY <1>9, <2>1, <2>2, <2>3, <2>4 DEF dispatch, readPacket
<1>10. ASSUME NEW c \in ConnIDs, readFail(c) PROVE ConnTypeOK'
  BY <1>10 DEF readFail, PCs
<1>11. ASSUME NEW c \in ConnIDs, NEW n \in ReqIDs, NEW s \in Statuses, SetStatus(c, n, s)
       PROVE  req' \in [ConnIDs -> [ReqIDs -> Request]]
  BY <1>11, SetStatusEffect, Zenon
<1>12. ASSUME NEW c \in ConnIDs, NEW n \in ReqIDs, WriteLock(c, n) PROVE ConnTypeOK'
  <2>1. req' \in [ConnIDs -> [ReqIDs -> Request]]
    BY <1>11, <1>12 DEF WriteLock, Statuses
  <2> QED
    BY <1>12, <2>1, Zenon DEF WriteLock
<1>13. ASSUME NEW c \in ConnIDs, NEW n \in ReqIDs, WriteFlush(c, n) PROVE ConnTypeOK'
  <2>1. req' \in [ConnIDs -> [ReqIDs -> Request]]
    BY <1>11, <1>13 DEF WriteFlush, Statuses
  <2> QED
    BY <1>13, <2>1, Zenon DEF WriteFlush, PCs
<1>14. ASSUME NEW c \in ConnIDs, NEW n \in ReqIDs, StartTLS(c, n) PROVE ConnTypeOK'
  <2>1. req' \in [ConnIDs -> [ReqIDs -> Request]]
    BY <1>11, <1>14 DEF StartTLS, Statuses
  <2> QED
    BY <1>14, <2>1 DEF StartTLS
<1>15. ASSUME NEW c \in ConnIDs, NEW n \in ReqIDs, initConn(c, n) PROVE ConnTypeOK'
  <2>1. req' \in [ConnIDs -> [ReqIDs -> Request]]
    BY <1>11, <1>15 DEF initConn, Statuses
  <2>2. epoch' \in [ConnIDs -> Nat] /\ rpos' \in [ConnIDs -> Nat]
    BY <1>15 DEF initConn, NewReader
  <2> QED
    BY <1>15, <2>1, <2>2 DEF initConn
<1>16. ASSUME NEW c \in ConnIDs, NEW n \in ReqIDs, handshakeError(c, n) PROVE ConnTypeOK'
  <2>1. req' \in [ConnIDs -> [ReqIDs -> Request]]
    BY <1>11, <1>16 DEF handshakeError, Statuses
  <2>2. sent' \in [ConnIDs -> Seq(Packet)]
    <3> DEFINE q == [i \in 1..Len(sent[c]) |->
                       IF i > bpos[c] THEN [kind |-> "malformed", epoch |-> sent[c][i].epoch]
                                      ELSE sent[c][i]]
    <3>1. \A i \in 1..Len(sent[c]) : sent[c][i] \in Packet
      OBVIOUS
    <3>2. \A i \in 1..Len(sent[c]) : q[i] \in Packet
      BY <3>1 DEF Packet, PacketKinds
    <3>3. Len(sent[c]) \in Nat /\ q \in [1..Len(sent[c]) -> Packet]
      BY <3>2
    <3>4. q \in Seq(Packet)
      BY <3>3
    <3>5. sent' = [sent EXCEPT ![c] = q]
      BY <1>16 DEF handshakeError
    <3> QED
      BY <3>4, <3>5
  <2> QED
    BY <1>16, <2>1, <2>2 DEF handshakeError
<1>17. ASSUME NEW c \in ConnIDs, NEW n \in ReqIDs,
              req[c][n].kind = "op", InProgress(c, n), requestsWgDone(c)
       PROVE  requestsWg' \in [ConnIDs -> Nat]
  <2>1. requestsWg[c] \in Nat \ {0}
    BY <1>17, RunningCounted
  <2> QED
    BY <1>17, <2>1 DEF requestsWgDone
<1>18. ASSUME NEW c \in ConnIDs, NEW n \in ReqIDs, HandlerReturn(c, n) PROVE ConnTypeOK'
  <2>1. req' \in [ConnIDs -> [ReqIDs -> Request]]
    BY <1>11, <1>18 DEF HandlerReturn, Statuses
  <2>2. requestsWg' \in [ConnIDs -> Nat]
    BY <1>17, <1>18 DEF HandlerReturn, InProgress
  <2> QED
    BY <1>18, <2>1, <2>2, Zenon DEF HandlerReturn, AfterHandler, PCs
<1>19. ASSUME NEW c \in ConnIDs, NEW n \in ReqIDs, HandlerPanic(c, n) PROVE ConnTypeOK'
  <2>1. req' \in [ConnIDs -> [ReqIDs -> Request]]
    BY <1>11, <1>19 DEF HandlerPanic, Statuses
  <2>2. requestsWg' \in [ConnIDs -> Nat]
    BY <1>17, <1>19 DEF HandlerPanic, InProgress
  <2>3. pc' \in [ConnIDs -> PCs]
    BY <1>19, ZenonT(30) DEF HandlerPanic, PCs
  <2>4. panicking' \in [ConnIDs -> BOOLEAN] /\ crashed' \in BOOLEAN
    BY <1>19, Zenon DEF HandlerPanic, Unwind
  <2> QED
    BY <1>19, <2>1, <2>2, <2>3, <2>4, Zenon DEF HandlerPanic
<1>20. ASSUME NEW c \in ConnIDs, close(c) PROVE ConnTypeOK'
  BY <1>20 DEF close, PCs
<1>21. ASSUME NEW c \in ConnIDs, onCloseHandler(c) PROVE ConnTypeOK'
  <2>1. onClosed' \in [ConnIDs -> Nat]
    BY <1>21 DEF onCloseHandler
  <2>2. pc' \in [ConnIDs -> PCs]
    BY <1>21 DEF onCloseHandler, PCs
  <2>3. crashed' \in BOOLEAN
    BY <1>21, Zenon DEF onCloseHandler
  <2> QED
    BY <1>21, <2>1, <2>2, <2>3 DEF onCloseHandler
<1>22. ASSUME shutdownCancel \/ Exit PROVE ConnTypeOK'
  BY <1>22, Zenon DEF shutdownCancel, Exit
<1>23. ASSUME NEW c \in ConnIDs, ClientSend(c) PROVE ConnTypeOK'
  <2>1. PICK k \in PacketKinds :
          sent' = [sent EXCEPT ![c] = Append(sent[c], [kind |-> k, epoch |-> epoch[c]])]
    BY <1>23, Zenon DEF ClientSend
  <2>2. [kind |-> k, epoch |-> epoch[c]] \in Packet
    BY DEF Packet
  <2>3. sent' \in [ConnIDs -> Seq(Packet)]
    BY <2>1, <2>2
  <2> QED
    BY <1>23, <2>3 DEF ClientSend
<1>24. ASSUME NEW c \in ConnIDs, ClientChange(c) PROVE ConnTypeOK'
  BY <1>24 DEF ClientChange
<1>25. ASSUME NEW c \in ConnIDs, NEW d \in Deadlines, DeadlineExpires(c, d) PROVE ConnTypeOK'
  BY <1>25, ZenonT(30) DEF DeadlineExpires
<1>26. CASE UNCHANGED connVars
  BY <1>26 DEF connVars
<1> QED
  BY <1>1, <1>2, <1>3, <1>4, <1>5, <1>7, <1>8, <1>9, <1>10, <1>12, <1>13, <1>14, <1>15,
     <1>16, <1>18, <1>19, <1>20, <1>21, <1>22, <1>23, <1>24, <1>25, <1>26, ZenonT(30)
  DEF ConnNext, ConnStep, ServeStep, CloseStep, HandlerStep, ClientStep

-----------------------------------------------------------------------------
(*****************************************************************************)
(* Every step of a connection keeps the parts of ConnInv about the reader    *)
(* and about the records of the requests.                                    *)
(*****************************************************************************)

\* Every step keeps the reader within the packets sent, and on one epoch.
LEMMA ReaderStep ==
  ASSUME ConnInv, [ConnNext]_connVars, NEW d \in ConnIDs
  PROVE  ReaderInv(d)'
<1>0. /\ ReaderInv(d)
      /\ MaxPackets \in Nat
      /\ pc \in [ConnIDs -> PCs]
      /\ requestID \in [ConnIDs -> 0..(MaxPackets + 1)]
      /\ epoch \in [ConnIDs -> Nat]
      /\ rpos \in [ConnIDs -> Nat]
      /\ bpos \in [ConnIDs -> Nat]
      /\ sent \in [ConnIDs -> Seq(Packet)]
  BY ConnAssumption, ConnParts DEF ConnTypeOK
<1> USE <1>0 DEF ReaderInv, Running, Goto,
        loopVars, serveVars, closeVars, wireVars, envVars
<1>1. ASSUME NEW c \in ConnIDs, NEW r \in Routers, newConn(c, r) PROVE ReaderInv(d)'
  BY <1>1 DEF newConn
<1>2. ASSUME NEW c \in ConnIDs, goServe(c) \/ connDone(c) PROVE ReaderInv(d)'
  BY <1>2 DEF goServe, connDone
<1>3. ASSUME NEW c \in ConnIDs, setDeadlines(c) PROVE ReaderInv(d)'
  BY <1>3 DEF setDeadlines
<1>4. ASSUME NEW c \in ConnIDs, loopTop(c) PROVE ReaderInv(d)'
  BY <1>4 DEF loopTop
<1>5. ASSUME NEW c \in ConnIDs, NEW K, readPacket(c, K),
             NEW p \in {"return", "handler", "top"}, pc' = [pc EXCEPT ![c] = p]
      PROVE  ReaderInv(d)'
  <2>1. CASE c = d
    <3>1. /\ rpos'[d] = rpos[d] + 1
          /\ UNCHANGED <<requestID, sent, epoch>>
          /\ pc'[d] = p
      BY <1>5, <2>1 DEF readPacket
    <3>2. rpos[d] + 1 <= bpos'[d] /\ bpos'[d] <= Len(sent[d])
      <4>1. CASE rpos[d] < bpos[d] /\ UNCHANGED bpos
        BY <4>1
      <4>2. ASSUME NEW b \in (rpos[d] + 1)..Len(sent[d]), bpos' = [bpos EXCEPT ![d] = b]
            PROVE  rpos[d] + 1 <= bpos'[d] /\ bpos'[d] <= Len(sent[d])
        BY <4>2
      <4> QED
        BY <1>5, <2>1, <4>1, <4>2 DEF readPacket
    <3> QED
      BY <3>1, <3>2
  <2>2. CASE c # d
    <3>1. /\ rpos'[d] = rpos[d]
          /\ UNCHANGED <<requestID, sent, epoch>>
          /\ pc'[d] = pc[d]
      BY <1>5, <2>2 DEF readPacket
    <3>2. bpos'[d] = bpos[d]
      BY <1>5, <2>2 DEF readPacket
    <3> QED
      BY <3>1, <3>2
  <2> QED
    BY <2>1, <2>2, Zenon
<1>6. ASSUME NEW c \in ConnIDs,
             readMalformed(c) \/ readUnbind(c) \/ readStartTLS(c) \/ dispatch(c)
      PROVE  ReaderInv(d)'
  <2> HIDE <1>0 DEF ReaderInv
  <2> QED
    BY <1>5, <1>6 DEF readMalformed, readUnbind, readStartTLS, dispatch
<1>7. ASSUME NEW c \in ConnIDs, readFail(c) PROVE ReaderInv(d)'
  BY <1>7 DEF readFail
<1>8. ASSUME NEW c \in ConnIDs, NEW n \in ReqIDs, WriteLock(c, n) \/ StartTLS(c, n)
      PROVE  ReaderInv(d)'
  BY <1>8, Zenon DEF WriteLock, StartTLS
<1>9. ASSUME NEW c \in ConnIDs, NEW n \in ReqIDs, WriteFlush(c, n) PROVE ReaderInv(d)'
  BY <1>9 DEF WriteFlush
<1>10. ASSUME NEW c \in ConnIDs, NEW n \in ReqIDs, initConn(c, n) PROVE ReaderInv(d)'
  BY <1>10 DEF initConn, NewReader
<1>11. ASSUME NEW c \in ConnIDs, NEW n \in ReqIDs, handshakeError(c, n) PROVE ReaderInv(d)'
  <2> DEFINE q == [i \in 1..Len(sent[c]) |->
                     IF i > bpos[c] THEN [kind |-> "malformed", epoch |-> sent[c][i].epoch]
                                    ELSE sent[c][i]]
  <2>1. sent' = [sent EXCEPT ![c] = q] /\ UNCHANGED <<pc, requestID, epoch, rpos, bpos>>
    BY <1>11 DEF handshakeError
  <2>2. Len(sent[c]) \in Nat
    OBVIOUS
  <2>3. Len(q) = Len(sent[c])
    BY <2>2
  <2>4. \A i \in 1..Len(sent[c]) : q[i].epoch = sent[c][i].epoch
    OBVIOUS
  <2> HIDE DEF q
  <2> QED
    BY <2>1, <2>3, <2>4
<1>12. ASSUME NEW c \in ConnIDs, NEW n \in ReqIDs, HandlerReturn(c, n) PROVE ReaderInv(d)'
  BY <1>12, Zenon DEF HandlerReturn, AfterHandler
<1>13. ASSUME NEW c \in ConnIDs, NEW n \in ReqIDs, HandlerPanic(c, n) PROVE ReaderInv(d)'
  BY <1>13, Zenon DEF HandlerPanic
<1>14. ASSUME NEW c \in ConnIDs, close(c) \/ onCloseHandler(c) PROVE ReaderInv(d)'
  BY <1>14, Zenon DEF close, onCloseHandler
<1>15. ASSUME NEW c \in ConnIDs, ClientSend(c) PROVE ReaderInv(d)'
  <2>1. PICK k \in PacketKinds :
          sent' = [sent EXCEPT ![c] = Append(sent[c], [kind |-> k, epoch |-> epoch[c]])]
    BY <1>15, Zenon DEF ClientSend
  <2> DEFINE x == [kind |-> k, epoch |-> epoch[c]]
  <2>2. x \in Packet /\ x.epoch = epoch[c]
    BY DEF Packet
  <2>3. sent' = [sent EXCEPT ![c] = Append(sent[c], x)]
    BY <2>1
  <2> HIDE DEF x
  <2>4. /\ Len(Append(sent[c], x)) = Len(sent[c]) + 1
        /\ \A i \in 1..Len(sent[c]) : Append(sent[c], x)[i] = sent[c][i]
        /\ Append(sent[c], x)[Len(sent[c]) + 1] = x
    BY <2>2
  <2>5. Len(sent[c]) < MaxPackets /\ UNCHANGED <<pc, requestID, epoch, rpos, bpos>>
    BY <1>15, ZenonT(30) DEF ClientSend
  <2>6. CASE c = d
    <3>1. sent'[d] = Append(sent[c], x)
      BY <2>3, <2>6
    <3>2. Len(sent'[d]) = Len(sent[d]) + 1 /\ Len(sent[d]) \in Nat
      BY <2>4, <2>6, <3>1
    <3>3. ASSUME NEW i \in 1..Len(sent'[d]), i > rpos[d] PROVE sent'[d][i].epoch = epoch[d]
      <4>1. i \in 1..Len(sent[d]) \/ i = Len(sent[d]) + 1
        BY <3>2, <3>3, OldOrLast, Zenon
      <4>2. CASE i \in 1..Len(sent[d])
        BY <2>4, <2>6, <3>1, <3>3, <4>2, Zenon
      <4>3. CASE i = Len(sent[d]) + 1
        BY <2>2, <2>4, <2>6, <3>1, <4>3, Zenon
      <4> QED
        BY <4>1, <4>2, <4>3, Zenon
    <3>4. /\ pc'[d] = pc[d] /\ requestID'[d] = requestID[d] /\ epoch'[d] = epoch[d]
          /\ rpos'[d] = rpos[d] /\ bpos'[d] = bpos[d]
      BY <2>5, Zenon
    <3>5. bpos[d] <= Len(sent'[d]) /\ Len(sent'[d]) <= MaxPackets
      BY <2>5, <2>6, <3>2
    <3> QED
      BY <3>3, <3>4, <3>5, Zenon
  <2>7. CASE c # d
    BY <2>3, <2>5, <2>7
  <2> QED
    BY <2>6, <2>7
<1>16. ASSUME NEW c \in ConnIDs, NEW e \in Deadlines, ClientChange(c) \/ DeadlineExpires(c, e)
       PROVE  ReaderInv(d)'
  BY <1>16, Zenon DEF ClientChange, DeadlineExpires
<1>17. ASSUME shutdownCancel \/ Exit \/ UNCHANGED connVars PROVE ReaderInv(d)'
  BY <1>17, Zenon DEF shutdownCancel, Exit, connVars
<1> QED
  <2> HIDE <1>0 DEF ReaderInv
  <2> QED
    BY <1>1, <1>2, <1>3, <1>4, <1>6, <1>7, <1>8, <1>9, <1>10, <1>11, <1>12, <1>13, <1>14,
       <1>15, <1>16, <1>17
    DEF ConnNext, ConnStep, ServeStep, CloseStep, HandlerStep, ClientStep, Deadlines
-----------------------------------------------------------------------------
\* Every step keeps what the records of the requests say.
LEMMA RequestStep ==
  ASSUME ConnInv, [ConnNext]_connVars, NEW d \in ConnIDs, NEW m \in ReqIDs
  PROVE  RequestInv(d, m)'
<1>0. /\ \A c \in ConnIDs, n \in ReqIDs : RequestInv(c, n)
      /\ ReqIDs \subseteq Nat \ {0}
      /\ pc \in [ConnIDs -> PCs]
      /\ requestID \in [ConnIDs -> Nat]
      /\ epoch \in [ConnIDs -> Nat]
      /\ writerMu \in [ConnIDs -> ReqIDs \cup {0}]
      /\ req \in [ConnIDs -> [ReqIDs -> Request]]
  BY ConnParts, ConnTypes, Zenon
<1> USE DEF Running, Goto, loopVars, serveVars, closeVars, wireVars, envVars
<1>1. ASSUME UNCHANGED <<req, requestID, writerMu, epoch>>,
             \/ pc'[d] = pc[d]
             \/ /\ pc[d] \notin {"notify", "handler"}
                /\ pc'[d] # "read"
                /\ pc'[d] \in {"none", "new", "start", "top"} =>
                     pc[d] \in {"none", "new", "start", "top", "read"}
      PROVE  RequestInv(d, m)'
  BY <1>0, <1>1 DEF RequestInv, InProgress
<1>2. ASSUME NEW c \in ConnIDs, NEW r \in Routers, newConn(c, r) PROVE RequestInv(d, m)'
  BY <1>0, <1>1, <1>2 DEF newConn
<1>3. ASSUME NEW c \in ConnIDs, goServe(c) \/ setDeadlines(c) \/ connDone(c)
      PROVE  RequestInv(d, m)'
  BY <1>0, <1>1, <1>3 DEF goServe, setDeadlines, connDone
<1>4. ASSUME NEW c \in ConnIDs, readMalformed(c) \/ readFail(c) PROVE RequestInv(d, m)'
  BY <1>0, <1>1, <1>4, ZenonT(30) DEF readMalformed, readPacket, readFail
<1>5. ASSUME NEW c \in ConnIDs, close(c) \/ onCloseHandler(c) PROVE RequestInv(d, m)'
  BY <1>0, <1>1, <1>5 DEF close, onCloseHandler
<1>6. ASSUME NEW c \in ConnIDs, NEW e \in Deadlines,
             ClientSend(c) \/ ClientChange(c) \/ DeadlineExpires(c, e)
      PROVE  RequestInv(d, m)'
  BY <1>1, <1>6 DEF ClientSend, ClientChange, DeadlineExpires
<1>7. ASSUME shutdownCancel \/ Exit \/ UNCHANGED connVars PROVE RequestInv(d, m)'
  BY <1>1, <1>7 DEF shutdownCancel, Exit, connVars
<1>8. ASSUME NEW c \in ConnIDs, loopTop(c) PROVE RequestInv(d, m)'
  BY <1>8, LoopTopKeeps, Zenon
<1>9. ASSUME NEW c \in ConnIDs, readUnbind(c) \/ readStartTLS(c) \/ dispatch(c)
      PROVE  RequestInv(d, m)'
  <2> DEFINE k == sent[c][rpos[c] + 1].kind
  <2>1. /\ pc[c] = "read"
        /\ UNCHANGED <<requestID, writerMu, epoch>>
        /\ \/ /\ pc' = [pc EXCEPT ![c] = "return"]
              /\ k = "unbind"
              /\ Receive(c, "done")
           \/ /\ pc' = [pc EXCEPT ![c] = "handler"]
              /\ k \in {"unbind", "startTLS"}
              /\ Receive(c, "serving")
           \/ /\ pc' = [pc EXCEPT ![c] = "top"]
              /\ k = "op"
              /\ Receive(c, "serving")
    BY <1>9, Zenon DEF readUnbind, readStartTLS, dispatch, readPacket
  <2>2. rpos[c] < Len(sent[c])
    BY <1>9, ZenonT(30) DEF readUnbind, readStartTLS, dispatch, readPacket
  <2>3. UNCHANGED requestID /\ UNCHANGED writerMu /\ UNCHANGED epoch
    BY <2>1, Zenon
  <2>4. CASE pc' = [pc EXCEPT ![c] = "return"] /\ k = "unbind" /\ Receive(c, "done")
    BY <2>1, <2>2, <2>3, <2>4, ReceiveKeeps, Zenon
  <2>5. CASE pc' = [pc EXCEPT ![c] = "handler"] /\ k \in {"unbind", "startTLS"} /\ Receive(c, "serving")
    BY <2>1, <2>2, <2>3, <2>5, ReceiveKeeps, Zenon
  <2>6. CASE pc' = [pc EXCEPT ![c] = "top"] /\ k = "op" /\ Receive(c, "serving")
    BY <2>1, <2>2, <2>3, <2>6, ReceiveKeeps, Zenon
  <2> QED
    BY <2>1, <2>4, <2>5, <2>6, Zenon
<1>11. ASSUME NEW c \in ConnIDs, NEW n \in ReqIDs, WriteLock(c, n) PROVE RequestInv(d, m)'
  <2>1. /\ req[c][n].st = "serving"
        /\ writerMu[c] = 0 /\ writerMu' = [writerMu EXCEPT ![c] = n]
        /\ SetStatus(c, n, "writing")
        /\ UNCHANGED <<pc, requestID, epoch>>
    BY <1>11, ZenonT(30) DEF WriteLock, WriterFree
  <2> QED
    BY <1>0, <2>1, StatusKeeps, Zenon DEF InProgress, Statuses
<1>12. ASSUME NEW c \in ConnIDs, NEW n \in ReqIDs, WriteFlush(c, n) PROVE RequestInv(d, m)'
  <2>1. /\ req[c][n].st = "writing"
        /\ writerMu' = [writerMu EXCEPT ![c] = 0]
        /\ UNCHANGED <<requestID, epoch>>
        /\ \/ req[c][n].kind = "notice" /\ SetStatus(c, n, "done") /\ Goto(c, "notify", "return")
           \/ req[c][n].kind # "notice" /\ SetStatus(c, n, "serving") /\ UNCHANGED pc
    BY <1>12, ZenonT(30) DEF WriteFlush
  <2> QED
    BY <1>0, <2>1, StatusKeeps, Zenon DEF InProgress, Statuses
<1>13. ASSUME NEW c \in ConnIDs, NEW n \in ReqIDs, StartTLS(c, n) PROVE RequestInv(d, m)'
  <2>1. /\ req[c][n].st = "serving" /\ req[c][n].kind = "startTLS"
        /\ SetStatus(c, n, "handshake")
        /\ UNCHANGED <<pc, requestID, writerMu, epoch>>
    BY <1>13, ZenonT(30) DEF StartTLS
  <2> QED
    BY <1>0, <2>1, StatusKeeps, Zenon DEF InProgress, Statuses
<1>14. ASSUME NEW c \in ConnIDs, NEW n \in ReqIDs, initConn(c, n) PROVE RequestInv(d, m)'
  <2>1. /\ req[c][n].st = "handshake"
        /\ SetStatus(c, n, "serving")
        /\ epoch' = [epoch EXCEPT ![c] = epoch[c] + 1]
        /\ UNCHANGED <<pc, requestID, writerMu>>
    BY <1>14, Zenon DEF initConn
  <2> QED
    BY <1>0, <2>1, StatusKeeps, Zenon DEF InProgress, Statuses
<1>15. ASSUME NEW c \in ConnIDs, NEW n \in ReqIDs, handshakeError(c, n) PROVE RequestInv(d, m)'
  <2>1. /\ req[c][n].st = "handshake"
        /\ SetStatus(c, n, "serving")
        /\ UNCHANGED <<pc, requestID, writerMu, epoch>>
    BY <1>15 DEF handshakeError
  <2> QED
    BY <1>0, <2>1, StatusKeeps, Zenon DEF InProgress, Statuses
<1>16. ASSUME NEW c \in ConnIDs, NEW n \in ReqIDs, HandlerReturn(c, n) \/ HandlerPanic(c, n)
       PROVE  RequestInv(d, m)'
  <2>1. /\ req[c][n].st = "serving"
        /\ SetStatus(c, n, "done")
        /\ UNCHANGED <<requestID, writerMu, epoch>>
        /\ \/ req[c][n].kind = "op" /\ UNCHANGED pc
           \/ req[c][n].kind \in {"startTLS", "unbind"} /\ Goto(c, "handler", "return")
           \/ req[c][n].kind = "startTLS" /\ Goto(c, "handler", "top")
    BY <1>16, Zenon DEF HandlerReturn, HandlerPanic, AfterHandler
  <2> QED
    BY <1>0, <2>1, StatusKeeps, Zenon DEF InProgress, Statuses
<1> QED
  BY <1>2, <1>3, <1>4, <1>5, <1>6, <1>7, <1>8, <1>9, <1>11, <1>12, <1>13, <1>14, <1>15, <1>16,
     ZenonT(30)
  DEF ConnNext, ConnStep, ServeStep, CloseStep, HandlerStep, ClientStep, Deadlines

-----------------------------------------------------------------------------
(*****************************************************************************)
(* Every step keeps what the WaitGroup counts and the order in which a       *)
(* connection ends; so ConnInv is an invariant of Conn.                      *)
(*****************************************************************************)

\* Every step keeps requestsWg the number of requests running on their own.
LEMMA WgStep ==
  ASSUME ConnInv, [ConnNext]_connVars, NEW d \in ConnIDs
  PROVE  WgInv(d)'
<1>0. /\ WgInv(d)
      /\ requestsWg \in [ConnIDs -> Nat]
      /\ req \in [ConnIDs -> [ReqIDs -> Request]]
  BY ConnParts DEF ConnTypeOK
<1>a. IsFiniteSet(Dispatched(d)) /\ Cardinality(Dispatched(d)) \in Nat
  BY DispatchedFinite
<1> USE <1>0 DEF Running, Goto, loopVars, serveVars, closeVars, wireVars, envVars
<1>1. ASSUME requestsWg'[d] = requestsWg[d],
             \A n \in ReqIDs : req[d][n].kind = "op" /\ InProgress(d, n) <=>
                               (req[d][n].kind = "op" /\ InProgress(d, n))'
      PROVE  WgInv(d)'
  <2>1. Dispatched(d)' = Dispatched(d)
    BY <1>1 DEF Dispatched
  <2> QED
    BY <1>1, <2>1 DEF WgInv
<1>2. ASSUME UNCHANGED <<requestsWg, req>> PROVE WgInv(d)'
  BY <1>1, <1>2 DEF InProgress
<1>3. ASSUME NEW c \in ConnIDs, NEW n \in ReqIDs, NEW s \in Statuses, SetStatus(c, n, s)
      PROVE  \A m \in ReqIDs :
               /\ req'[d][m].st = IF d = c /\ m = n THEN s ELSE req[d][m].st
               /\ req'[d][m].kind = req[d][m].kind
  BY <1>3, SetStatusEffect, ConnParts
<1>4. ASSUME NEW c \in ConnIDs, loopTop(c) PROVE WgInv(d)'
  <2>1. requestID[c] + 1 \in ReqIDs /\ requestID[c] + 1 > requestID[c]
    BY <1>4, LoopTopEffect
  <2>2. req[c][requestID[c] + 1].kind = "none"
    BY <2>1, ConnParts DEF RequestInv
  <2>3. UNCHANGED requestsWg
    BY <1>4 DEF loopTop
  <2>4. ASSUME NEW n \in ReqIDs
        PROVE  req[d][n].kind = "op" /\ InProgress(d, n) <=>
                 (req[d][n].kind = "op" /\ InProgress(d, n))'
    <3>1. CASE d = c /\ n = requestID[c] + 1
      <4>1. req'[c][requestID[c] + 1].kind = IF shutdown THEN "notice" ELSE "none"
        BY <1>4, LoopTopEffect
      <4> QED
        BY <2>2, <3>1, <4>1, ZenonT(30)
    <3>2. CASE ~(d = c /\ n = requestID[c] + 1)
      BY <1>4, <3>2, LoopTopEffect DEF InProgress
    <3> QED
      BY <3>1, <3>2, Zenon
  <2> QED
    BY <1>1, <2>3, <2>4
<1>5. ASSUME NEW c \in ConnIDs, readUnbind(c) \/ readStartTLS(c) PROVE WgInv(d)'
  <2>1. req[c][requestID[c]].kind = "none" /\ requestID[c] \in ReqIDs
    BY <1>5, ReadIndex, Zenon, ConnParts DEF readUnbind, readStartTLS, readPacket, RequestInv
  <2>2. UNCHANGED requestsWg
    BY <1>5 DEF readUnbind, readStartTLS
  <2>3. /\ \A m \in ReqIDs : d # c \/ m # requestID[c] => req'[d][m] = req[d][m]
        /\ req'[c][requestID[c]].kind # "op"
    BY <1>5, ReceiveEffect, Zenon DEF readUnbind, readStartTLS, readPacket, Statuses
  <2> QED
    BY <1>1, <2>1, <2>2, <2>3 DEF InProgress
<1>6. ASSUME NEW c \in ConnIDs, dispatch(c) PROVE WgInv(d)'
  <2>1. /\ req[c][requestID[c]].st = "none"
        /\ requestID[c] \in ReqIDs
    BY <1>6, ReadIndex, ConnParts, Zenon DEF dispatch, readPacket, RequestInv
  <2>2. /\ \A m \in ReqIDs : d # c \/ m # requestID[c] => req'[d][m] = req[d][m]
        /\ req'[c][requestID[c]].kind = "op"
        /\ req'[c][requestID[c]].st = "serving"
    BY <1>6, ReceiveEffect, Zenon DEF dispatch, readPacket, Statuses
  <2>3. CASE c = d
    <3>1. requestID[c] \notin Dispatched(d)
      BY <2>1, <2>3 DEF Dispatched, InProgress
    <3>2. Dispatched(d)' = Dispatched(d) \cup {requestID[c]}
      BY <2>1, <2>2, <2>3 DEF Dispatched, InProgress
    <3>3. Cardinality(Dispatched(d)') = Cardinality(Dispatched(d)) + 1
      BY <1>a, <3>1, <3>2, FS_AddElement, Zenon
    <3>4. requestsWg'[d] = requestsWg[d] + 1
      BY <1>6, <2>3 DEF dispatch, requestsWgAdd
    <3> QED
      BY <3>3, <3>4 DEF WgInv
  <2>4. CASE c # d
    <3>1. requestsWg'[d] = requestsWg[d]
      BY <1>6, <2>4 DEF dispatch, requestsWgAdd
    <3> QED
      BY <1>1, <2>2, <2>4, <3>1, Zenon DEF InProgress
  <2> QED
    BY <2>3, <2>4, Zenon
<1>7. ASSUME NEW c \in ConnIDs, NEW n \in ReqIDs,
             \/ WriteLock(c, n) \/ WriteFlush(c, n)
             \/ StartTLS(c, n) \/ initConn(c, n) \/ handshakeError(c, n)
      PROVE  WgInv(d)'
  <2>1. UNCHANGED requestsWg
    BY <1>7 DEF WriteLock, WriteFlush, StartTLS, initConn, handshakeError
  <2>2. \/ /\ req[c][n].st = "serving"
           /\ SetStatus(c, n, "writing") \/ SetStatus(c, n, "handshake")
        \/ /\ req[c][n].st \in {"writing", "handshake"}
           /\ SetStatus(c, n, "serving")
        \/ /\ req[c][n].kind = "notice"
           /\ SetStatus(c, n, "done")
    BY <1>7 DEF WriteLock, WriteFlush, StartTLS, initConn, handshakeError
  <2>3. PICK s \in Statuses :
          /\ SetStatus(c, n, s)
          /\ req[c][n].kind = "op" =>
               InProgress(c, n) /\ s \in {"serving", "writing", "handshake"}
    BY <2>2, Zenon DEF InProgress, Statuses
  <2>4. ASSUME NEW m \in ReqIDs
        PROVE  req[d][m].kind = "op" /\ InProgress(d, m) <=>
                 (req[d][m].kind = "op" /\ InProgress(d, m))'
    <3>1. /\ req'[d][m].st = IF d = c /\ m = n THEN s ELSE req[d][m].st
          /\ req'[d][m].kind = req[d][m].kind
      BY <1>3, <2>3, Zenon
    <3>2. CASE d = c /\ m = n
      BY <2>3, <3>1, <3>2, Zenon DEF InProgress
    <3>3. CASE ~(d = c /\ m = n)
      BY <3>1, <3>3, Zenon DEF InProgress
    <3> QED
      BY <3>2, <3>3, Zenon
  <2> QED
    BY <1>1, <2>1, <2>4, Zenon
<1>8. ASSUME NEW c \in ConnIDs, NEW n \in ReqIDs,
             req[c][n].st = "serving", SetStatus(c, n, "done"),
             \/ req[c][n].kind = "op" /\ requestsWgDone(c)
             \/ req[c][n].kind # "op" /\ UNCHANGED requestsWg
      PROVE  WgInv(d)'
  <2>1. \A m \in ReqIDs :
          /\ req'[d][m].st = IF d = c /\ m = n THEN "done" ELSE req[d][m].st
          /\ req'[d][m].kind = req[d][m].kind
    BY <1>3, <1>8, Zenon DEF Statuses
  <2>2. CASE c = d /\ req[c][n].kind = "op"
    <3>1. n \in Dispatched(d)
      BY <1>8, <2>2 DEF Dispatched, InProgress
    <3>2. Dispatched(d)' = Dispatched(d) \ {n}
      BY <2>1, <2>2 DEF Dispatched, InProgress
    <3>3. Cardinality(Dispatched(d)') = Cardinality(Dispatched(d)) - 1
      BY <1>a, <3>1, <3>2, FS_RemoveElement, Zenon
    <3>4. requestsWg'[d] = requestsWg[d] - 1
      BY <1>8, <2>2 DEF requestsWgDone
    <3> QED
      BY <3>3, <3>4 DEF WgInv
  <2>3. CASE ~(c = d /\ req[c][n].kind = "op")
    <3>1. requestsWg'[d] = requestsWg[d]
      BY <1>8, <2>3 DEF requestsWgDone
    <3> QED
      BY <1>1, <2>1, <2>3, <3>1 DEF InProgress
  <2> QED
    BY <2>2, <2>3, Zenon
<1>9. ASSUME NEW c \in ConnIDs, NEW n \in ReqIDs, HandlerReturn(c, n) \/ HandlerPanic(c, n)
      PROVE  WgInv(d)'
  BY <1>8, <1>9 DEF HandlerReturn, HandlerPanic
<1>10. ASSUME NEW c \in ConnIDs, NEW r \in Routers, newConn(c, r) PROVE WgInv(d)'
  BY <1>2, <1>10 DEF newConn
<1>11. ASSUME NEW c \in ConnIDs, NEW e \in Deadlines,
              \/ goServe(c) \/ setDeadlines(c) \/ readMalformed(c) \/ readFail(c)
              \/ connDone(c) \/ close(c) \/ onCloseHandler(c)
              \/ ClientSend(c) \/ ClientChange(c) \/ DeadlineExpires(c, e)
       PROVE  WgInv(d)'
  BY <1>2, <1>11, Zenon DEF goServe, setDeadlines, readMalformed, readFail, connDone, close,
     onCloseHandler, ClientSend, ClientChange, DeadlineExpires
<1>12. ASSUME shutdownCancel \/ Exit \/ UNCHANGED connVars PROVE WgInv(d)'
  BY <1>2, <1>12 DEF shutdownCancel, Exit, connVars
<1> QED
  BY <1>4, <1>5, <1>6, <1>7, <1>9, <1>10, <1>11, <1>12
  DEF ConnNext, ConnStep, ServeStep, CloseStep, HandlerStep, ClientStep, Deadlines
-----------------------------------------------------------------------------
\* Every step keeps the order of the end of a connection.
LEMMA CloseInvStep ==
  ASSUME ConnInv, [ConnNext]_connVars, NEW d \in ConnIDs
  PROVE  CloseInv(d)'
<1>0. /\ CloseInv(d)
      /\ pc \in [ConnIDs -> PCs]
      /\ requestsWg \in [ConnIDs -> Nat]
      /\ sock \in [ConnIDs -> {"none", "open", "closed"}]
      /\ onClosed \in [ConnIDs -> Nat]
  BY ConnParts DEF ConnTypeOK
<1> USE <1>0 DEF CloseInv, Running, Goto,
        loopVars, serveVars, closeVars, wireVars, envVars
<1>1. ASSUME NEW c \in ConnIDs, NEW r \in Routers, newConn(c, r) PROVE CloseInv(d)'
  BY <1>1 DEF newConn
<1>2. ASSUME NEW c \in ConnIDs, goServe(c) \/ connDone(c) PROVE CloseInv(d)'
  BY <1>2 DEF goServe, connDone
<1>3. ASSUME NEW c \in ConnIDs, setDeadlines(c) PROVE CloseInv(d)'
  BY <1>3 DEF setDeadlines
<1>4. ASSUME NEW c \in ConnIDs, loopTop(c) PROVE CloseInv(d)'
  BY <1>4 DEF loopTop
<1>5. ASSUME NEW c \in ConnIDs, readMalformed(c) \/ readUnbind(c) \/ readStartTLS(c)
      PROVE  CloseInv(d)'
  <2>1. /\ pc[c] = "read"
        /\ \E p \in {"return", "handler"} : pc' = [pc EXCEPT ![c] = p]
        /\ UNCHANGED <<requestsWg, sock, onClosed>>
    BY <1>5, Zenon DEF readMalformed, readUnbind, readStartTLS, readPacket
  <2> QED
    BY <2>1, Zenon
<1>6. ASSUME NEW c \in ConnIDs, dispatch(c) PROVE CloseInv(d)'
  <2>1. /\ pc[c] = "read"
        /\ pc' = [pc EXCEPT ![c] = "top"]
        /\ requestsWg' = [requestsWg EXCEPT ![c] = requestsWg[c] + 1]
        /\ UNCHANGED <<sock, onClosed>>
    BY <1>6, ZenonT(30) DEF dispatch, readPacket, requestsWgAdd
  <2> QED
    BY <2>1
<1>7. ASSUME NEW c \in ConnIDs, readFail(c) PROVE CloseInv(d)'
  BY <1>7, Zenon DEF readFail
<1>8. ASSUME NEW c \in ConnIDs, NEW n \in ReqIDs,
             WriteLock(c, n) \/ StartTLS(c, n) \/ initConn(c, n) \/ handshakeError(c, n)
      PROVE  CloseInv(d)'
  <2>1. UNCHANGED <<pc, requestsWg, sock, onClosed>>
    BY <1>8 DEF WriteLock, StartTLS, initConn, handshakeError
  <2> QED
    BY <2>1
<1>9. ASSUME NEW c \in ConnIDs, NEW n \in ReqIDs, WriteFlush(c, n) PROVE CloseInv(d)'
  BY <1>9, ZenonT(30) DEF WriteFlush
<1>10. ASSUME NEW c \in ConnIDs, NEW n \in ReqIDs, HandlerReturn(c, n) \/ HandlerPanic(c, n)
       PROVE  CloseInv(d)'
  <2>1. \/ requestsWgDone(c) /\ req[c][n].kind = "op" /\ UNCHANGED pc
        \/ /\ UNCHANGED requestsWg
           /\ \E p \in {"return", "top"} : Goto(c, "handler", p)
    BY <1>10, ZenonT(30) DEF HandlerReturn, HandlerPanic, AfterHandler
  <2>2. UNCHANGED <<sock, onClosed>>
    BY <1>10, Zenon DEF HandlerReturn, HandlerPanic
  <2>3. req[c][n].kind = "op" => requestsWg[c] \in Nat \ {0}
    BY <1>10, RunningCounted, Zenon DEF HandlerReturn, HandlerPanic, InProgress
  <2> QED
    BY <2>1, <2>2, <2>3, Zenon DEF requestsWgDone
<1>11. ASSUME NEW c \in ConnIDs, close(c) PROVE CloseInv(d)'
  BY <1>11 DEF close, requestsWgWait
<1>12. ASSUME NEW c \in ConnIDs, onCloseHandler(c) PROVE CloseInv(d)'
  BY <1>12 DEF onCloseHandler
<1>13. ASSUME NEW c \in ConnIDs, NEW e \in Deadlines,
              ClientSend(c) \/ ClientChange(c) \/ DeadlineExpires(c, e)
       PROVE  CloseInv(d)'
  BY <1>13 DEF ClientSend, ClientChange, DeadlineExpires
<1>14. ASSUME shutdownCancel \/ Exit \/ UNCHANGED connVars PROVE CloseInv(d)'
  BY <1>14 DEF shutdownCancel, Exit, connVars
<1> QED
  <2> HIDE <1>0 DEF CloseInv
  <2> QED
    BY <1>1, <1>2, <1>3, <1>4, <1>5, <1>6, <1>7, <1>8, <1>9, <1>10, <1>11, <1>12, <1>13, <1>14
    DEF ConnNext, ConnStep, ServeStep, CloseStep, HandlerStep, ClientStep, Deadlines
-----------------------------------------------------------------------------
\* Every step keeps the invariant.
LEMMA ConnInvStep == ConnInv /\ [ConnNext]_connVars => ConnInv'
<1> SUFFICES ASSUME ConnInv, [ConnNext]_connVars PROVE ConnInv'
  OBVIOUS
<1>1. ConnTypeOK'
  BY TypeStep
<1>2. \A c \in ConnIDs : ReaderInv(c)'
  BY ReaderStep
<1>3. \A c \in ConnIDs, n \in ReqIDs : RequestInv(c, n)'
  BY RequestStep
<1>4. \A c \in ConnIDs : WgInv(c)'
  BY WgStep
<1>5. \A c \in ConnIDs : CloseInv(c)'
  BY CloseInvStep
<1> QED
  BY <1>1, <1>2, <1>3, <1>4, <1>5 DEF ConnInv

\* The invariant holds in every reachable state.
THEOREM ConnInvariant == ConnSpec => []ConnInv
  BY InitConnInv, ConnInvStep, PTL DEF ConnSpec

\* The variables of a connection always have their types: requestsWg never goes
\* negative, and requestID stays within the packets the client sent.
THEOREM TypeCorrect == ConnSpec => []ConnTypeOK
<1>1. ConnInv => ConnTypeOK
  BY ConnParts
<1> QED
  BY ConnInvariant, <1>1, PTL

\* conn.close closes the socket only when no request of the connection is being
\* handled, neither in a goroutine of its own nor in the loop.
THEOREM CloseDrains == ConnSpec => []CloseDrainsRequests
<1>1. ConnInv => CloseDrainsRequests
  <2> SUFFICES ASSUME ConnInv, NEW c \in ConnIDs, sock[c] = "closed", NEW n \in ReqIDs,
                      InProgress(c, n)
               PROVE  FALSE
    BY DEF CloseDrainsRequests
  <2>1. pc[c] \in {"closed", "end"} /\ requestsWg[c] = 0
    BY ConnParts DEF CloseInv
  <2>2. CASE req[c][n].kind = "op"
    BY <2>1, <2>2, RunningCounted
  <2>3. CASE req[c][n].kind # "op"
    BY <2>1, <2>3, ZenonT(30), ConnParts DEF RequestInv
  <2> QED
    BY <2>2, <2>3
<1> QED
  BY ConnInvariant, <1>1, PTL

\* The lock of the ResponseWriters keeps every other request of the connection
\* out while one writes.
THEOREM WritersExclude == ConnSpec => []OneWriter
<1>1. ConnInv => OneWriter
  <2>1. SUFFICES ASSUME ConnInv, NEW c \in ConnIDs, NEW m \in ReqIDs, NEW n \in ReqIDs,
                        req[c][m].st = "writing", req[c][n].st = "writing"
                 PROVE  m = n
    BY Zenon DEF OneWriter
  <2>2. RequestInv(c, m) /\ RequestInv(c, n)
    BY <2>1, ConnParts, Zenon
  <2> QED
    BY <2>1, <2>2, Zenon DEF RequestInv
<1> QED
  BY ConnInvariant, <1>1, PTL

\* A request is answered on the layer it came in on, across any number of
\* StartTLS requests.
THEOREM RepliesOnLayer == ConnSpec => []ReplyOnArrivalLayer
<1>1. ConnInv => ReplyOnArrivalLayer
  BY ConnParts, ZenonT(30) DEF RequestInv, ReplyOnArrivalLayer
<1> QED
  BY ConnInvariant, <1>1, PTL

\* No request is started after an unbind request or a disconnection notice.
THEOREM UnbindIsLast == ConnSpec => []LastRequest
<1>1. ConnInv => LastRequest
  <2>1. SUFFICES ASSUME ConnInv, NEW c \in ConnIDs, NEW m \in ReqIDs, NEW n \in ReqIDs,
                        req[c][m].kind \in {"unbind", "notice"}, m < n
                 PROVE  req[c][n].st = "none"
    BY Zenon DEF LastRequest
  <2>2. RequestInv(c, m) /\ RequestInv(c, n)
    BY <2>1, ConnParts, Zenon
  <2>3. m = requestID[c]
    BY <2>1, <2>2, Zenon DEF RequestInv
  <2> QED
    BY <2>1, <2>2, <2>3, Zenon DEF RequestInv
<1> QED
  BY ConnInvariant, <1>1, PTL

\* No request is started while a StartTLS handler runs.
THEOREM StartTLSExcludes == ConnSpec => []StartTLSHoldsLoop
<1>1. ConnInv => StartTLSHoldsLoop
  <2>1. SUFFICES ASSUME ConnInv, NEW c \in ConnIDs, NEW m \in ReqIDs, NEW n \in ReqIDs,
                        req[c][m].kind = "startTLS", InProgress(c, m), m < n
                 PROVE  req[c][n].st = "none"
    BY Zenon DEF StartTLSHoldsLoop
  <2>2. RequestInv(c, m) /\ RequestInv(c, n)
    BY <2>1, ConnParts, Zenon
  <2>3. m = requestID[c]
    BY <2>1, <2>2, Zenon DEF RequestInv
  <2> QED
    BY <2>1, <2>2, <2>3, Zenon DEF RequestInv
<1> QED
  BY ConnInvariant, <1>1, PTL

\* The on-close callback runs at most once, after everything else.
THEOREM OnCloseLast == ConnSpec => []OnCloseOnce
<1>1. ConnInv /\ CloseDrainsRequests => OnCloseOnce
  <2>1. ConnInv => \A c \in ConnIDs : onClosed[c] <= 1 /\ (onClosed[c] = 1 => sock[c] = "closed")
    BY ConnParts DEF CloseInv
  <2> QED
    BY <2>1, Zenon DEF CloseDrainsRequests, OnCloseOnce
<1> QED
  BY ConnInvariant, CloseDrains, <1>1, PTL

-----------------------------------------------------------------------------
(* Panics.                                                                 *)

\* With recovery enabled the deferred recover stops a panic of the connection's
\* own goroutine: none goes on unwinding.
Recovered == ~DisablePanicRecovery => \A c \in ConnIDs : ~panicking[c]

\* Every step of a connection keeps Recovered.
LEMMA RecoveredStep ==
  ASSUME ConnInv, Recovered, [ConnNext]_connVars
  PROVE  Recovered'
<1>0. panicking \in [ConnIDs -> BOOLEAN]
  BY ConnParts DEF ConnTypeOK
<1>1. panicking' = panicking \/ \E c \in ConnIDs : Unwind(c)
  <2>1. ASSUME NEW c \in ConnIDs, ServeStep(c)
        PROVE  panicking' = panicking \/ Unwind(c)
    BY <2>1, Zenon DEF ServeStep, setDeadlines, loopTop, readMalformed, readUnbind, readStartTLS,
       dispatch, readFail
  <2>2. ASSUME NEW c \in ConnIDs, NEW n \in ReqIDs, HandlerStep(c, n)
        PROVE  panicking' = panicking \/ Unwind(c)
    BY <2>2, Zenon DEF HandlerStep, WriteLock, WriteFlush, StartTLS, initConn, handshakeError,
       HandlerReturn, HandlerPanic, loopVars
  <2>3. ASSUME NEW c \in ConnIDs, CloseStep(c) \/ ClientStep(c) \/ goServe(c) \/ connDone(c)
        PROVE  panicking' = panicking
    BY <2>3, Zenon DEF CloseStep, close, onCloseHandler, ClientStep, ClientSend, ClientChange,
       DeadlineExpires, goServe, connDone, loopVars
  <2>4. ASSUME NEW c \in ConnIDs, NEW r \in Routers, newConn(c, r)
        PROVE  panicking' = panicking
    BY <2>4 DEF newConn
  <2>5. shutdownCancel \/ Exit \/ UNCHANGED connVars => panicking' = panicking
    BY DEF shutdownCancel, Exit, connVars, loopVars
  <2> QED
    BY <2>1, <2>2, <2>3, <2>4, <2>5, Zenon DEF ConnNext, ConnStep
<1> QED
  BY <1>0, <1>1 DEF Recovered, Unwind

\* A panic that no recover is above: of a handler in a goroutine of its own, of
\* the on-close callback, or of the program around the server.
Escapes ==
  \/ \E c \in ConnIDs, n \in ReqIDs : HandlerPanic(c, n) /\ req[c][n].kind = "op"
  \/ HasOnClose /\ "onClose" \in Panics
  \/ Exit

\* A step that ends the process is one of those Escapes names.
LEMMA CrashCause ==
  ASSUME ConnInv, Recovered, [ConnNext]_connVars, ~DisablePanicRecovery, ~crashed
  PROVE  ~crashed' \/ Escapes
<1>1. ASSUME NEW c \in ConnIDs, ServeStep(c)
      PROVE  crashed' = crashed
  BY <1>1, Zenon DEF ServeStep, setDeadlines, loopTop, readMalformed, readUnbind, readStartTLS,
     dispatch, readFail, readPacket, Running
<1>2. ASSUME NEW c \in ConnIDs, NEW n \in ReqIDs, HandlerStep(c, n)
      PROVE  crashed' = crashed \/ Escapes
  BY <1>2, Zenon DEF HandlerStep, WriteLock, WriteFlush, StartTLS, initConn, handshakeError,
     HandlerReturn, HandlerPanic, Running, Escapes
<1>3. ASSUME NEW c \in ConnIDs, onCloseHandler(c)
      PROVE  crashed' = FALSE \/ Escapes
  <2>1. panicking[c] = FALSE
    BY ConnParts DEF Recovered, ConnTypeOK
  <2> QED
    BY <1>3, <2>1, Zenon DEF onCloseHandler, Escapes
<1>4. ASSUME NEW c \in ConnIDs, close(c) \/ ClientStep(c) \/ goServe(c) \/ connDone(c)
      PROVE  crashed' = crashed
  BY <1>4, Zenon DEF close, ClientStep, ClientSend, ClientChange, DeadlineExpires, goServe, connDone,
     Running
<1>5. ASSUME NEW c \in ConnIDs, NEW r \in Routers, newConn(c, r)
      PROVE  crashed' = crashed
  BY <1>5 DEF newConn, Running
<1>6. shutdownCancel \/ UNCHANGED connVars => crashed' = crashed
  BY DEF shutdownCancel, connVars, Running
<1> QED
  BY <1>1, <1>2, <1>3, <1>4, <1>5, <1>6, Zenon DEF ConnNext, ConnStep, CloseStep, Escapes

\* "catch and report panics - we don't want it to crash the server if handling a
\* single conn causes a panic": with recovery enabled the process ends only by a
\* panic that the deferred recover of a connection's goroutine is not above.
THEOREM OnlyUnrecoveredPanicsCrash ==
  ASSUME ~DisablePanicRecovery
  PROVE  ConnSpec => [][~crashed /\ crashed' => Escapes]_connVars
<1>1. ConnInit => Recovered
  BY DEF ConnInit, Recovered
<1>2. ConnInv /\ Recovered /\ [ConnNext]_connVars => Recovered'
  BY RecoveredStep
<1>3. ConnInv /\ Recovered /\ [ConnNext]_connVars => [~crashed /\ crashed' => Escapes]_connVars
  BY CrashCause
<1> QED
  BY ConnInvariant, <1>1, <1>2, <1>3, PTL DEF ConnSpec

\* So if nothing but the decoding of packets panics, nothing that clients send
\* ends the process.
THEOREM DecodePanicsContained ==
  ASSUME Panics \subseteq {"decode"}
  PROVE  ConnSpec => []PanicsContained
<1>1. ConnInit => Recovered /\ PanicsContained
  BY Zenon DEF ConnInit, Recovered, PanicsContained
<1>2. ~Escapes
  BY Zenon DEF Escapes, HandlerPanic, Exit
<1>3. ConnInv /\ Recovered /\ PanicsContained /\ [ConnNext]_connVars => Recovered' /\ PanicsContained'
  BY <1>2, RecoveredStep, CrashCause DEF PanicsContained
<1> QED
  BY ConnInvariant, <1>1, <1>3, PTL DEF ConnSpec

=============================================================================
