---------------------------- MODULE ConnRefines -----------------------------
(*****************************************************************************)
(* Conn implements ConnLife: under the mapping of Conn every step of a       *)
(* connection is a step of ConnLife or changes nothing it speaks of.  The    *)
(* proof needs ConnInv: that no earlier request is unread, that StartTLS and *)
(* the last request belong to the loop, and that requestsWg counts the rest. *)
(*****************************************************************************)
EXTENDS ConnProofs

\* Phase, case by case.
LEMMA PhaseCases ==
  ASSUME NEW c \in ConnIDs
  PROVE  /\ pc[c] = "none" => Phase(c) = "none"
         /\ pc[c] = "end" => Phase(c) = "reported"
         /\ pc[c] \notin {"none", "end"} /\ sock[c] = "closed" => Phase(c) = "closed"
         /\ pc[c] \notin {"none", "end"} /\ sock[c] # "closed" /\ Draining(c) =>
              Phase(c) = "draining"
         /\ pc[c] \notin {"none", "end"} /\ sock[c] # "closed" /\ ~Draining(c) =>
              Phase(c) = "serving"
  BY DEF Phase

\* The four mapped variables of ConnLife, before and after a step that leaves all
\* connections but c as they are.
LEMMA OnlyOne ==
  ASSUME NEW c \in ConnIDs,
         \A d \in ConnIDs \ {c} :
           pc'[d] = pc[d] /\ sock'[d] = sock[d] /\ req'[d] = req[d]
  PROVE  /\ [d \in ConnIDs |-> Phase(d)]' = [[d \in ConnIDs |-> Phase(d)] EXCEPT ![c] = Phase(c)']
         /\ [d \in ConnIDs |-> Taken(d)]' = [[d \in ConnIDs |-> Taken(d)] EXCEPT ![c] = Taken(c)']
         /\ [d \in ConnIDs |-> Handling(d)]' =
              [[d \in ConnIDs |-> Handling(d)] EXCEPT ![c] = Handling(c)']
         /\ [d \in ConnIDs |-> Alone(d)]' = [[d \in ConnIDs |-> Alone(d)] EXCEPT ![c] = Alone(c)']
<1>1. \A d \in ConnIDs \ {c} : Taken(d)' = Taken(d) /\ Handling(d)' = Handling(d)
  BY DEF Taken, Handling, InProgress
<1>2. \A d \in ConnIDs \ {c} : Alone(d)' = Alone(d)
  BY DEF Alone, InProgress
<1>3. \A d \in ConnIDs \ {c} : Phase(d)' = Phase(d)
  <2> SUFFICES ASSUME NEW d \in ConnIDs \ {c} PROVE Phase(d)' = Phase(d)
    OBVIOUS
  <2>1. Draining(d)' = Draining(d)
    BY DEF Draining
  <2> QED
    BY <2>1 DEF Phase
<1> QED
  BY <1>1, <1>2, <1>3, Zenon

\* What the steps of ConnLife ask of the connection they are about.
LEMMA MapStep ==
  ASSUME NEW c \in ConnIDs, NEW n \in ReqIDs, ~crashed,
         \A d \in ConnIDs \ {c} :
           pc'[d] = pc[d] /\ sock'[d] = sock[d] /\ req'[d] = req[d]
  PROVE  /\ /\ UNCHANGED <<crashed, Phase(c), Taken(c), Handling(c), Alone(c)>>
            => UNCHANGED Life!lifeVars
         /\ /\ UNCHANGED <<crashed, Taken(c), Handling(c), Alone(c)>>
            /\ \/ Phase(c) = "none" /\ Phase(c)' = "serving"
               \/ Phase(c) = "serving" /\ Phase(c)' = "draining" /\ Alone(c) = {}
               \/ Phase(c) = "draining" /\ Phase(c)' = "closed" /\ Handling(c) = {}
            => Life!Next
         /\ /\ UNCHANGED <<Taken(c), Handling(c), Alone(c)>>
            /\ crashed' \in BOOLEAN
            /\ Phase(c) = "closed" /\ Phase(c)' = "reported"
            => Life!Next
         /\ /\ UNCHANGED crashed
            /\ Phase(c) = "serving"
            /\ Alone(c) = {}
            /\ \A m \in Taken(c) : m < n
            /\ Taken(c)' = Taken(c) \cup {n}
            /\ \/ /\ UNCHANGED Phase(c)
                  /\ Handling(c)' = Handling(c) \cup {n}
                  /\ Alone(c)' = {} \/ Alone(c)' = {n}
               \/ /\ Phase(c)' = "draining"
                  /\ Handling(c)' = Handling(c) \cup {n} \/ UNCHANGED Handling(c)
                  /\ Alone(c)' = {}
            => Life!Next
         /\ /\ crashed' \in BOOLEAN
            /\ n \in Handling(c)
            /\ UNCHANGED Taken(c)
            /\ Handling(c)' = Handling(c) \ {n}
            /\ Alone(c)' = Alone(c) \ {n}
            /\ \/ UNCHANGED Phase(c)
               \/ n \in Alone(c) /\ Phase(c) = "serving" /\ Phase(c)' = "draining"
            => Life!Next
<1> DEFINE P == [d \in ConnIDs |-> Phase(d)]
           T == [d \in ConnIDs |-> Taken(d)]
           H == [d \in ConnIDs |-> Handling(d)]
           A == [d \in ConnIDs |-> Alone(d)]
<1>1. /\ P' = [P EXCEPT ![c] = Phase(c)'] /\ P[c] = Phase(c)
      /\ T' = [T EXCEPT ![c] = Taken(c)'] /\ T[c] = Taken(c)
      /\ H' = [H EXCEPT ![c] = Handling(c)'] /\ H[c] = Handling(c)
      /\ A' = [A EXCEPT ![c] = Alone(c)'] /\ A[c] = Alone(c)
  BY OnlyOne, Zenon
<1>2. /\ UNCHANGED Phase(c) => UNCHANGED P
      /\ UNCHANGED Taken(c) => UNCHANGED T
      /\ UNCHANGED Handling(c) => UNCHANGED H
      /\ UNCHANGED Alone(c) => UNCHANGED A
  BY <1>1, Zenon
<1>3. ASSUME UNCHANGED <<crashed, Phase(c), Taken(c), Handling(c), Alone(c)>>
      PROVE  UNCHANGED Life!lifeVars
  <2> HIDE DEF P, T, H, A
  <2>1. UNCHANGED <<P, T, H, A, crashed>>
    BY <1>2, <1>3
  <2> QED
    BY <2>1 DEF Life!lifeVars, P, T, H, A
<1>4. ASSUME UNCHANGED <<crashed, Taken(c), Handling(c), Alone(c)>>,
             \/ Phase(c) = "none" /\ Phase(c)' = "serving"
             \/ Phase(c) = "serving" /\ Phase(c)' = "draining" /\ Alone(c) = {}
             \/ Phase(c) = "draining" /\ Phase(c)' = "closed" /\ Handling(c) = {}
      PROVE  Life!Next
  <2>1. Life!Open(c) \/ Life!Drain(c) \/ Life!Close(c)
    <3> HIDE DEF P, T, H, A
    <3>1. UNCHANGED <<T, H, A, crashed>>
      BY <1>2, <1>4
    <3> QED
      BY <1>1, <1>4, <3>1, Zenon DEF Life!Open, Life!Drain, Life!Close, Life!Up, Life!Move, P, T,
         H, A
  <2> QED
    BY <2>1 DEF Life!Next
<1>5. ASSUME UNCHANGED <<Taken(c), Handling(c), Alone(c)>>, crashed' \in BOOLEAN,
             Phase(c) = "closed", Phase(c)' = "reported"
      PROVE  Life!Next
  <2>1. Life!Report(c)
    BY <1>1, <1>2, <1>5 DEF Life!Report, Life!Move
  <2> QED
    BY <2>1 DEF Life!Next
<1>6. ASSUME UNCHANGED crashed, Phase(c) = "serving", Alone(c) = {},
             \A m \in Taken(c) : m < n,
             Taken(c)' = Taken(c) \cup {n},
             \/ /\ UNCHANGED Phase(c)
                /\ Handling(c)' = Handling(c) \cup {n}
                /\ Alone(c)' = {} \/ Alone(c)' = {n}
             \/ /\ Phase(c)' = "draining"
                /\ Handling(c)' = Handling(c) \cup {n} \/ UNCHANGED Handling(c)
                /\ Alone(c)' = {}
      PROVE  Life!Next
  <2>1. Life!Up /\ Life!Later(c, n)
    BY <1>1, <1>6 DEF Life!Up, Life!Later
  <2>2. Life!Take(c, n) \/ Life!TakeAlone(c, n) \/ Life!TakeLast(c, n)
    BY <1>1, <1>2, <1>6, <2>1, Zenon DEF Life!Take, Life!TakeAlone, Life!TakeLast, Life!Move
  <2> QED
    BY <2>2 DEF Life!Next
<1>7. ASSUME crashed' \in BOOLEAN, n \in Handling(c), UNCHANGED Taken(c),
             Handling(c)' = Handling(c) \ {n},
             Alone(c)' = Alone(c) \ {n},
             \/ UNCHANGED Phase(c)
             \/ n \in Alone(c) /\ Phase(c) = "serving" /\ Phase(c)' = "draining"
      PROVE  Life!Next
  <2>1. Life!End(c, n)
    BY <1>1, <1>2, <1>7, Zenon DEF Life!End, Life!Move
  <2> QED
    BY <2>1 DEF Life!Next
<1> QED
  BY <1>3, <1>4, <1>5, <1>6, <1>7, Zenon

\* Before its last request a connection has no request alone but the one its
\* loop handles, and it is not draining unless the loop has ended.
LEMMA LoopFacts ==
  ASSUME ConnInv, NEW c \in ConnIDs
  PROVE  /\ pc[c] # "handler" => Alone(c) = {}
         /\ pc[c] \in {"new", "start", "top", "read"} => Phase(c) = "serving"
         /\ pc[c] = "none" => ~Draining(c)
         /\ pc[c] \in {"return", "close"} => Phase(c) = "draining"
         /\ pc[c] = "closed" => Phase(c) = "closed"
         /\ sock[c] = "closed" <=> pc[c] \in {"closed", "end"}
         /\ \A m \in Taken(c) :
              m <= requestID[c] /\ (pc[c] = "read" => m < requestID[c])
<1>1. /\ \A n \in ReqIDs : RequestInv(c, n)
      /\ CloseInv(c)
      /\ requestID[c] \in Nat
  BY ConnAssumption DEF ConnInv, ConnTypeOK
<1>2. pc[c] # "handler" => Alone(c) = {}
  BY <1>1 DEF Alone, RequestInv
<1>3. pc[c] \in {"none", "new", "start", "top", "read"} => ~Draining(c)
  BY <1>1 DEF Draining, RequestInv
<1>4. pc[c] \in {"return", "close"} => Draining(c)
  BY DEF Draining
<1>5. sock[c] = "closed" <=> pc[c] \in {"closed", "end"}
  BY <1>1 DEF CloseInv
<1>6. ASSUME NEW m \in Taken(c)
      PROVE  m <= requestID[c] /\ (pc[c] = "read" => m < requestID[c])
  <2>1. m \in Nat /\ m \in ReqIDs /\ req[c][m].st # "none"
    BY ConnAssumption DEF Taken, ReqIDs
  <2>2. ~(m > requestID[c]) /\ ~(pc[c] = "read" /\ m = requestID[c])
    BY <1>1, <2>1 DEF RequestInv
  <2> QED
    BY <1>1, <2>1, <2>2
<1> QED
  BY <1>2, <1>3, <1>4, <1>5, <1>6, PhaseCases

\* A step that leaves the requests of a connection alone leaves the mapped ones.
LEMMA SameRequests ==
  ASSUME NEW c \in ConnIDs, req'[c] = req[c]
  PROVE  UNCHANGED <<Taken(c), Handling(c), Alone(c)>>
  BY DEF Taken, Handling, Alone, InProgress

\* Taking a request: its record is new, or was blank, and the others stay.
LEMMA NewRequest ==
  ASSUME NEW c \in ConnIDs, NEW n \in ReqIDs,
         req[c][n].st = "none",
         req'[c][n].st \in {"serving", "done"},
         \A m \in ReqIDs : m # n => req'[c][m] = req[c][m]
  PROVE  /\ Taken(c)' = Taken(c) \cup {n}
         /\ Handling(c)' = IF req'[c][n].st = "serving" THEN Handling(c) \cup {n}
                                                        ELSE Handling(c)
         /\ Alone(c)' = IF req'[c][n].st = "serving" /\ req'[c][n].kind = "startTLS"
                          THEN Alone(c) \cup {n} ELSE Alone(c)
<1>1. Taken(c)' = Taken(c) \cup {n}
  BY DEF Taken
<1>2. Handling(c)' = IF req'[c][n].st = "serving" THEN Handling(c) \cup {n} ELSE Handling(c)
  BY DEF Handling, InProgress
<1>3. Alone(c)' = IF req'[c][n].st = "serving" /\ req'[c][n].kind = "startTLS"
                   THEN Alone(c) \cup {n} ELSE Alone(c)
  BY DEF Alone, InProgress
<1> QED
  BY <1>1, <1>2, <1>3

\* A request changes its status: it goes on or it ends.
LEMMA StatusChange ==
  ASSUME ConnInv, NEW c \in ConnIDs, NEW n \in ReqIDs, NEW s \in Statuses,
         SetStatus(c, n, s), InProgress(c, n), s # "none"
  PROVE  /\ \A d \in ConnIDs \ {c} : req'[d] = req[d]
         /\ UNCHANGED Taken(c)
         /\ s # "done" => UNCHANGED <<Handling(c), Alone(c)>>
         /\ s = "done" => /\ n \in Handling(c)
                          /\ Handling(c)' = Handling(c) \ {n}
                          /\ Alone(c)' = Alone(c) \ {n}
         /\ \A m \in ReqIDs : req'[c][m].kind = req[c][m].kind
<1>1. \A m \in ReqIDs :
        /\ req'[c][m].st = IF m = n THEN s ELSE req[c][m].st
        /\ req'[c][m].kind = req[c][m].kind
  BY SetStatusEffect DEF ConnInv
<1>2. \A d \in ConnIDs \ {c} : req'[d] = req[d]
  BY DEF SetStatus, ConnInv, ConnTypeOK
<1>3. UNCHANGED Taken(c)
  BY <1>1 DEF Taken, InProgress
<1>4. s # "done" => UNCHANGED Handling(c)
  BY <1>1 DEF Handling, InProgress, Statuses
<1>5. s # "done" => UNCHANGED Alone(c)
  BY <1>1 DEF Alone, InProgress, Statuses
<1>6. s = "done" => n \in Handling(c) /\ Handling(c)' = Handling(c) \ {n}
  BY <1>1 DEF Handling, InProgress
<1>7. s = "done" => Alone(c)' = Alone(c) \ {n}
  BY <1>1 DEF Alone, InProgress
<1> QED
  BY <1>1, <1>2, <1>3, <1>4, <1>5, <1>6, <1>7
-----------------------------------------------------------------------------
\* Every step of the connections is one of ConnLife or leaves it as it is.
LEMMA LifeStep ==
  ASSUME ConnInv, [ConnNext]_connVars
  PROVE  [Life!Next]_(Life!lifeVars)
<1>0. /\ pc \in [ConnIDs -> PCs]
      /\ sock \in [ConnIDs -> {"none", "open", "closed"}]
      /\ req \in [ConnIDs -> [ReqIDs -> Request]]
      /\ crashed \in BOOLEAN
      /\ panicking \in [ConnIDs -> BOOLEAN]
      /\ 1 \in ReqIDs
  BY ConnAssumption DEF ConnInv, ConnTypeOK, ReqIDs
<1> USE <1>0 DEF Running, Goto, loopVars, serveVars, closeVars, wireVars, envVars
<1>1. ASSUME UNCHANGED <<pc, sock, req, crashed>> PROVE UNCHANGED Life!lifeVars
  <2>1. ASSUME NEW c \in ConnIDs PROVE UNCHANGED <<Taken(c), Handling(c), Alone(c), Phase(c)>>
    <3>1. UNCHANGED <<Taken(c), Handling(c), Alone(c)>>
      BY <1>1, SameRequests
    <3>2. UNCHANGED Draining(c)
      BY <1>1 DEF Draining
    <3> QED
      BY <1>1, <3>1, <3>2 DEF Phase
  <2> QED
    BY <1>1, <2>1 DEF Life!lifeVars
<1>2. ASSUME NEW c \in ConnIDs, NEW r \in Routers, newConn(c, r) PROVE Life!Next
  <2>1. /\ pc[c] = "none" /\ pc'[c] = "new" /\ sock'[c] = "open"
        /\ ~crashed /\ UNCHANGED <<crashed, req>>
        /\ \A d \in ConnIDs \ {c} : pc'[d] = pc[d] /\ sock'[d] = sock[d] /\ req'[d] = req[d]
    BY <1>2 DEF newConn
  <2>2. ~Draining(c)'
    BY <2>1, LoopFacts DEF Draining
  <2>3. Phase(c) = "none" /\ Phase(c)' = "serving"
    BY <2>1, <2>2 DEF Phase
  <2> QED
    BY <2>1, <2>3, SameRequests, MapStep
<1>3. ASSUME NEW c \in ConnIDs, NEW p \in {"start", "top", "return"},
             pc[c] \in {"new", "start", "read"}, pc' = [pc EXCEPT ![c] = p],
             ~crashed, UNCHANGED <<crashed, req, sock>>
      PROVE  Life!Next \/ UNCHANGED Life!lifeVars
  <2>1. /\ pc'[c] = p
        /\ \A d \in ConnIDs \ {c} : pc'[d] = pc[d] /\ sock'[d] = sock[d] /\ req'[d] = req[d]
        /\ Phase(c) = "serving" /\ Alone(c) = {} /\ sock[c] # "closed"
    BY <1>3, LoopFacts
  <2>2. UNCHANGED <<Taken(c), Handling(c), Alone(c)>>
    BY <1>3, SameRequests
  <2>3. Phase(c)' = IF p = "return" THEN "draining" ELSE "serving"
    <3>1. Draining(c)' = (p = "return")
      <4>1. ~Draining(c)
        BY <1>3, <2>1, PhaseCases
      <4> QED
        BY <1>3, <2>1, <4>1, Zenon DEF Draining
    <3> QED
      BY <1>3, <2>1, <3>1, Zenon DEF Phase
  <2> QED
    BY <1>3, <2>1, <2>2, <2>3, MapStep, Zenon
<1>4. ASSUME NEW c \in ConnIDs, goServe(c) \/ setDeadlines(c) \/ readMalformed(c) \/ readFail(c)
      PROVE  Life!Next \/ UNCHANGED Life!lifeVars
  <2>1. /\ pc[c] \in {"new", "start", "read"}
        /\ \E p \in {"start", "top", "return"} : pc' = [pc EXCEPT ![c] = p]
        /\ ~crashed /\ UNCHANGED <<crashed, req, sock>>
    BY <1>4 DEF goServe, setDeadlines, readMalformed, readPacket, readFail
  <2>2. PICK p \in {"start", "top", "return"} : pc' = [pc EXCEPT ![c] = p]
    BY <2>1, Zenon
  <2> QED
    BY <1>3, <2>1, <2>2, Zenon
<1>5. ASSUME NEW c \in ConnIDs, NEW n \in ReqIDs,
             pc[c] \in {"top", "read"}, pc'[c] \in {"top", "handler", "return", "notify"},
             \A m \in Taken(c) : m < n,
             req[c][n].st = "none",
             req'[c][n].st \in {"serving", "done"},
             req'[c][n].st = "done" => req'[c][n].kind = "unbind",
             req'[c][n].kind \in {"unbind", "notice"} \/ pc'[c] \in {"top", "handler"},
             \A m \in ReqIDs : m # n => req'[c][m] = req[c][m],
             \A d \in ConnIDs \ {c} : pc'[d] = pc[d] /\ req'[d] = req[d],
             ~crashed, UNCHANGED <<crashed, sock>>
      PROVE  Life!Next
  <2>1. Phase(c) = "serving" /\ Alone(c) = {} /\ sock[c] # "closed" /\ ~Draining(c)
    BY <1>5, LoopFacts, PhaseCases
  <2>2. /\ Taken(c)' = Taken(c) \cup {n}
        /\ Handling(c)' = IF req'[c][n].st = "serving" THEN Handling(c) \cup {n}
                                                       ELSE Handling(c)
        /\ Alone(c)' = IF req'[c][n].st = "serving" /\ req'[c][n].kind = "startTLS"
                         THEN {n} ELSE {}
    BY <1>5, <2>1, NewRequest
  <2>3. CASE req'[c][n].kind \in {"unbind", "notice"}
    <3>1. Draining(c)'
      BY <2>3 DEF Draining
    <3>2. Phase(c)' = "draining"
      BY <1>5, <2>1, <3>1 DEF Phase
    <3> QED
      BY <1>5, <2>1, <2>2, <2>3, <3>2, MapStep
  <2>4. CASE req'[c][n].kind \notin {"unbind", "notice"}
    <3>1. ~Draining(c)'
      BY <1>5, <2>1, <2>4 DEF Draining
    <3>2. Phase(c)' = "serving"
      BY <1>5, <2>1, <2>4, <3>1, SMTT(30) DEF Phase
    <3> QED
      BY <1>5, <2>1, <2>2, <2>4, <3>2, MapStep
  <2> QED
    BY <2>3, <2>4
<1>6. ASSUME NEW c \in ConnIDs, readUnbind(c) \/ readStartTLS(c) \/ dispatch(c) PROVE Life!Next
  <2> DEFINE n == requestID[c]
             k == sent[c][rpos[c] + 1].kind
  <2>1. /\ pc[c] = "read" /\ rpos[c] < Len(sent[c]) /\ ~crashed /\ UNCHANGED <<crashed, sock>>
        /\ \/ k = "unbind" /\ Receive(c, "serving") /\ pc' = [pc EXCEPT ![c] = "handler"]
           \/ k = "unbind" /\ Receive(c, "done") /\ pc' = [pc EXCEPT ![c] = "return"]
           \/ k = "startTLS" /\ Receive(c, "serving") /\ pc' = [pc EXCEPT ![c] = "handler"]
           \/ k = "op" /\ Receive(c, "serving") /\ pc' = [pc EXCEPT ![c] = "top"]
    BY <1>6, SMTT(30) DEF readUnbind, readStartTLS, dispatch, readPacket
  <2>2. /\ \A d \in ConnIDs, m \in ReqIDs : d # c \/ m # n => req'[d][m] = req[d][m]
        /\ req' \in [ConnIDs -> [ReqIDs -> Request]]
        /\ req'[c][n].kind = k
        /\ req'[c][n].st \in {"serving", "done"}
        /\ req'[c][n].st = "done" => k = "unbind"
    BY <2>1, ReceiveEffect, Zenon DEF Statuses
  <2>3. n \in ReqIDs
    BY <2>1, ReadIndex
  <2>4. req[c][n].st = "none" /\ \A m \in Taken(c) : m < n
    <3>1. \A m \in Taken(c) : m < n
      BY <2>1, LoopFacts
    <3>2. n \in Nat /\ n \notin Taken(c)
      BY <2>3, <3>1, ConnAssumption DEF ReqIDs
    <3> QED
      BY <2>3, <3>1, <3>2 DEF Taken
  <2>5. \A d \in ConnIDs \ {c} : pc'[d] = pc[d] /\ req'[d] = req[d]
    BY <2>1, <2>2
  <2>6. /\ pc'[c] \in {"top", "handler", "return"}
        /\ k = "unbind" \/ pc'[c] \in {"top", "handler"}
    BY <2>1
  <2> HIDE DEF n, k
  <2>7. /\ pc[c] \in {"top", "read"} /\ ~crashed /\ UNCHANGED <<crashed, sock>>
        /\ pc'[c] \in {"top", "handler", "return", "notify"}
    BY <2>1, <2>6
  <2>8. /\ req'[c][n].st = "done" => req'[c][n].kind = "unbind"
        /\ req'[c][n].kind \in {"unbind", "notice"} \/ pc'[c] \in {"top", "handler"}
        /\ \A m \in ReqIDs : m # n => req'[c][m] = req[c][m]
    BY <2>2, <2>6
  <2> QED
    BY <1>5, <2>2, <2>3, <2>4, <2>5, <2>7, <2>8, SMTT(30)
<1>7. ASSUME NEW c \in ConnIDs, loopTop(c) PROVE Life!Next \/ UNCHANGED Life!lifeVars
  <2> DEFINE n == requestID[c] + 1
  <2>1. /\ n \in ReqIDs
        /\ req' \in [ConnIDs -> [ReqIDs -> Request]]
        /\ \A d \in ConnIDs, m \in ReqIDs : d # c \/ m # n => req'[d][m] = req[d][m]
        /\ req'[c][n].st = IF shutdown THEN "serving" ELSE "none"
        /\ req'[c][n].kind = IF shutdown THEN "notice" ELSE "none"
        /\ n > requestID[c]
    BY <1>7, LoopTopEffect
  <2>2. /\ pc[c] = "top" /\ ~crashed /\ UNCHANGED <<crashed, sock>>
        /\ pc' = [pc EXCEPT ![c] = IF shutdown THEN "notify" ELSE "read"]
    BY <1>7 DEF loopTop
  <2>3. req[c][n].st = "none" /\ req[c][n].kind = "none"
    BY <2>1 DEF ConnInv, RequestInv
  <2>4. \A d \in ConnIDs \ {c} : pc'[d] = pc[d] /\ req'[d] = req[d]
    BY <2>1, <2>2
  <2>5. CASE shutdown
    <3>1. \A m \in Taken(c) : m < n
      <4>1. requestID[c] \in Nat /\ Taken(c) \subseteq Nat
        BY ConnAssumption DEF ConnInv, ConnTypeOK, Taken, ReqIDs
      <4> QED
        BY <4>1, LoopFacts
    <3>2. pc'[c] = "notify" /\ req'[c][n].st = "serving" /\ req'[c][n].kind = "notice"
      BY <2>1, <2>2, <2>5
    <3>3. \A m \in ReqIDs : m # n => req'[c][m] = req[c][m]
      BY <2>1
    <3> HIDE DEF n
    <3> QED
      BY <1>5, <2>1, <2>2, <2>3, <2>4, <3>1, <3>2, <3>3, Zenon
  <2>6. CASE ~shutdown
    <3> HIDE DEF n
    <3>1. UNCHANGED Taken(c)
      BY <2>1, <2>3, <2>6 DEF Taken
    <3>2. UNCHANGED Handling(c)
      BY <2>1, <2>3, <2>6 DEF Handling, InProgress
    <3>3. UNCHANGED Alone(c)
      BY <2>1, <2>3, <2>6, Zenon DEF Alone, InProgress
    <3>4. Phase(c) = "serving" /\ ~Draining(c) /\ sock[c] # "closed"
      BY <2>2, LoopFacts, PhaseCases
    <3>5. ~Draining(c)'
      BY <2>1, <2>2, <2>3, <2>6, <3>4 DEF Draining
    <3>6. Phase(c)' = "serving"
      BY <2>2, <2>6, <3>4, <3>5 DEF Phase
    <3> QED
      BY <2>1, <2>2, <2>4, <3>1, <3>2, <3>3, <3>4, <3>6, MapStep
  <2> QED
    BY <2>5, <2>6
<1>8. ASSUME NEW c \in ConnIDs, NEW n \in ReqIDs,
             \/ WriteLock(c, n) \/ StartTLS(c, n) \/ initConn(c, n) \/ handshakeError(c, n)
             \/ WriteFlush(c, n) /\ req[c][n].kind # "notice"
      PROVE  UNCHANGED Life!lifeVars
  <2>1. /\ InProgress(c, n)
        /\ \E s \in {"writing", "handshake", "serving"} : SetStatus(c, n, s)
        /\ ~crashed /\ UNCHANGED <<crashed, pc, sock>>
    BY <1>8 DEF WriteLock, StartTLS, initConn, handshakeError, WriteFlush, InProgress
  <2>2. PICK s \in {"writing", "handshake", "serving"} : SetStatus(c, n, s)
    BY <2>1
  <2>3. s \in Statuses /\ s # "none" /\ s # "done"
    BY DEF Statuses
  <2>4. /\ \A d \in ConnIDs \ {c} : req'[d] = req[d]
        /\ UNCHANGED <<Taken(c), Handling(c), Alone(c)>>
        /\ \A m \in ReqIDs : req'[c][m].kind = req[c][m].kind
    BY <2>1, <2>2, <2>3, StatusChange
  <2>5. UNCHANGED Draining(c)
    BY <2>1, <2>4 DEF Draining
  <2>6. UNCHANGED Phase(c)
    BY <2>1, <2>5 DEF Phase
  <2> QED
    BY <2>1, <2>4, <2>6, MapStep
<1>9. ASSUME NEW c \in ConnIDs, NEW n \in ReqIDs, ~crashed, crashed' \in BOOLEAN,
             InProgress(c, n), SetStatus(c, n, "done"), UNCHANGED sock,
             \/ req[c][n].kind = "op" /\ UNCHANGED pc
             \/ /\ req[c][n].kind \in {"unbind", "notice"}
                /\ pc[c] \in {"handler", "notify"} /\ pc' = [pc EXCEPT ![c] = "return"]
             \/ /\ req[c][n].kind = "startTLS" /\ pc[c] = "handler"
                /\ pc' = [pc EXCEPT ![c] = "top"] \/ pc' = [pc EXCEPT ![c] = "return"]
      PROVE  Life!Next
  <2>1. /\ \A d \in ConnIDs \ {c} : req'[d] = req[d]
        /\ UNCHANGED Taken(c)
        /\ n \in Handling(c)
        /\ Handling(c)' = Handling(c) \ {n}
        /\ Alone(c)' = Alone(c) \ {n}
        /\ \A m \in ReqIDs : req'[c][m].kind = req[c][m].kind
    BY <1>9, StatusChange DEF Statuses
  <2>2. \A d \in ConnIDs \ {c} : pc'[d] = pc[d] /\ sock'[d] = sock[d]
    BY <1>9
  <2>3. \/ UNCHANGED Phase(c)
        \/ n \in Alone(c) /\ Phase(c) = "serving" /\ Phase(c)' = "draining"
    <3>1. CASE req[c][n].kind = "op" /\ UNCHANGED pc
      <4>1. UNCHANGED Draining(c)
        BY <2>1, <3>1, SMTT(30) DEF Draining
      <4> QED
        BY <1>9, <3>1, <4>1 DEF Phase
    <3>2. CASE /\ req[c][n].kind \in {"unbind", "notice"}
               /\ pc[c] \in {"handler", "notify"} /\ pc' = [pc EXCEPT ![c] = "return"]
      <4>1. Draining(c) /\ Draining(c)'
        BY <2>1, <3>2 DEF Draining
      <4>2. sock[c] # "closed" /\ sock'[c] # "closed"
        BY <1>9, <3>2, LoopFacts
      <4>3. pc'[c] = "return"
        BY <3>2
      <4> QED
        BY <3>2, <4>1, <4>2, <4>3 DEF Phase
    <3>3. CASE /\ req[c][n].kind = "startTLS" /\ pc[c] = "handler"
               /\ pc' = [pc EXCEPT ![c] = "top"] \/ pc' = [pc EXCEPT ![c] = "return"]
      <4>1. n = requestID[c]
        BY <1>9, <3>3 DEF ConnInv, RequestInv
      <4>2. \A m \in ReqIDs : req[c][m].kind \notin {"unbind", "notice"}
        BY <3>3, <4>1 DEF ConnInv, RequestInv
      <4>3. sock[c] # "closed" /\ sock'[c] # "closed"
        BY <1>9, <3>3, LoopFacts
      <4>4. ~Draining(c) /\ (Draining(c)' <=> pc'[c] = "return")
        BY <2>1, <3>3, <4>2 DEF Draining
      <4>5. n \in Alone(c)
        BY <1>9, <3>3 DEF Alone
      <4>6. Phase(c) = "serving"
        BY <3>3, <4>3, <4>4, PhaseCases
      <4>7. Phase(c)' \in {"serving", "draining"}
        BY <3>3, <4>3 DEF Phase
      <4> QED
        BY <4>5, <4>6, <4>7
    <3> QED
      BY <1>9, <3>1, <3>2, <3>3
  <2> QED
    BY <1>9, <2>1, <2>2, <2>3, MapStep
<1>10. ASSUME NEW c \in ConnIDs, NEW n \in ReqIDs,
              \/ HandlerReturn(c, n) \/ HandlerPanic(c, n)
              \/ WriteFlush(c, n) /\ req[c][n].kind = "notice"
       PROVE  Life!Next
  <2>1. /\ ~crashed /\ crashed' \in BOOLEAN
        /\ InProgress(c, n) /\ SetStatus(c, n, "done") /\ UNCHANGED sock
    BY <1>10, Zenon DEF HandlerReturn, HandlerPanic, WriteFlush, InProgress
  <2>2. \/ req[c][n].kind = "op" /\ UNCHANGED pc
        \/ /\ req[c][n].kind \in {"unbind", "notice"}
           /\ pc[c] \in {"handler", "notify"} /\ pc' = [pc EXCEPT ![c] = "return"]
        \/ /\ req[c][n].kind = "startTLS" /\ pc[c] = "handler"
           /\ pc' = [pc EXCEPT ![c] = "top"] \/ pc' = [pc EXCEPT ![c] = "return"]
    BY <1>10 DEF HandlerReturn, HandlerPanic, WriteFlush, AfterHandler
  <2> QED
    BY <1>9, <2>1, <2>2
<1>11. ASSUME NEW c \in ConnIDs, connDone(c) PROVE UNCHANGED Life!lifeVars
  <2>1. /\ pc[c] = "return" /\ pc'[c] = "close" /\ ~crashed /\ UNCHANGED <<crashed, sock, req>>
        /\ \A d \in ConnIDs \ {c} : pc'[d] = pc[d] /\ sock'[d] = sock[d] /\ req'[d] = req[d]
    BY <1>11 DEF connDone
  <2>2. sock[c] # "closed" /\ Phase(c) = "draining"
    BY <2>1, LoopFacts
  <2>3. Draining(c)'
    BY <2>1 DEF Draining
  <2>4. Phase(c)' = "draining"
    BY <2>1, <2>2, <2>3 DEF Phase
  <2> QED
    BY <2>1, <2>2, <2>4, SameRequests, MapStep
<1>12. ASSUME NEW c \in ConnIDs, close(c) PROVE Life!Next
  <2>1. /\ pc[c] = "close" /\ pc'[c] = "closed" /\ sock'[c] = "closed" /\ requestsWg[c] = 0
        /\ ~crashed /\ UNCHANGED <<crashed, req>>
        /\ \A d \in ConnIDs \ {c} : pc'[d] = pc[d] /\ sock'[d] = sock[d] /\ req'[d] = req[d]
    BY <1>12 DEF close, requestsWgWait
  <2>2. Phase(c) = "draining"
    BY <2>1, LoopFacts
  <2>3. Phase(c)' = "closed"
    BY <2>1 DEF Phase
  <2>4. ASSUME NEW n \in ReqIDs, InProgress(c, n) PROVE FALSE
    <3>1. CASE req[c][n].kind = "op"
      BY <2>1, <2>4, <3>1, RunningCounted
    <3>2. CASE req[c][n].kind # "op"
      BY <2>1, <2>4, <3>2 DEF ConnInv, RequestInv
    <3> QED
      BY <3>1, <3>2
  <2>5. Handling(c) = {}
    BY <2>4 DEF Handling
  <2> QED
    BY <2>1, <2>2, <2>3, <2>5, SameRequests, MapStep
<1>13. ASSUME NEW c \in ConnIDs, onCloseHandler(c) PROVE Life!Next
  <2>1. /\ pc[c] = "closed" /\ pc'[c] = "end" /\ ~crashed /\ UNCHANGED <<sock, req>>
        /\ \A d \in ConnIDs \ {c} : pc'[d] = pc[d] /\ sock'[d] = sock[d] /\ req'[d] = req[d]
    BY <1>13 DEF onCloseHandler
  <2>2. crashed' \in BOOLEAN
    BY <1>13, Zenon DEF onCloseHandler
  <2>3. Phase(c) = "closed" /\ Phase(c)' = "reported"
    BY <2>1, LoopFacts DEF Phase
  <2> QED
    BY <2>1, <2>2, <2>3, SameRequests, MapStep
<1>14. ASSUME NEW c \in ConnIDs, NEW e \in Deadlines,
              ClientSend(c) \/ ClientChange(c) \/ DeadlineExpires(c, e)
       PROVE  UNCHANGED Life!lifeVars
  BY <1>1, <1>14 DEF ClientSend, ClientChange, DeadlineExpires
<1>15. ASSUME shutdownCancel \/ UNCHANGED connVars PROVE UNCHANGED Life!lifeVars
  BY <1>1, <1>15 DEF shutdownCancel, connVars
<1>16. ASSUME Exit PROVE Life!Next
  <2>1. UNCHANGED <<pc, sock, req>> /\ ~crashed /\ crashed' = TRUE
    BY <1>16 DEF Exit
  <2>2. ASSUME NEW c \in ConnIDs PROVE UNCHANGED <<Taken(c), Handling(c), Alone(c), Phase(c)>>
    <3>1. UNCHANGED <<Taken(c), Handling(c), Alone(c)>>
      BY <2>1, SameRequests
    <3>2. UNCHANGED Draining(c)
      BY <2>1 DEF Draining
    <3> QED
      BY <2>1, <3>1, <3>2 DEF Phase
  <2>3. Life!Crash
    BY <2>1, <2>2 DEF Life!Crash
  <2> QED
    BY <2>3 DEF Life!Next
<1> QED
  <2> HIDE <1>0
  <2> QED
    BY <1>2, <1>4, <1>6, <1>7, <1>8, <1>10, <1>11, <1>12, <1>13, <1>14, <1>15, <1>16, SMTT(30)
    DEF ConnNext, ConnStep, ServeStep, CloseStep, HandlerStep, ClientStep, Deadlines

\* A connection begins as one of ConnLife.
LEMMA LifeInit == ConnInit => Life!Init
<1> SUFFICES ASSUME ConnInit PROVE Life!Init
  OBVIOUS
<1>1. ASSUME NEW c \in ConnIDs PROVE Phase(c) = "none"
  BY DEF ConnInit, Phase
<1>2. ASSUME NEW c \in ConnIDs PROVE Taken(c) = {} /\ Handling(c) = {} /\ Alone(c) = {}
  BY DEF ConnInit, NoRequest, Taken, Handling, Alone, InProgress
<1> QED
  BY <1>1, <1>2 DEF Life!Init, ConnInit

\* serveRequests, close and the deferred calls of Run keep to the life of a
\* connection that ConnLife describes.
THEOREM ConnImplementsLife == ConnSpec => LivesAsPromised
<1>1. ConnInv /\ [ConnNext]_connVars => [Life!Next]_(Life!lifeVars)
  BY LifeStep
<1> QED
  BY LifeInit, ConnInvariant, <1>1, PTL DEF ConnSpec, LivesAsPromised, Life!Spec
=============================================================================
