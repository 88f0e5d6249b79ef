----------------------------- MODULE MuxProofs ------------------------------
(*****************************************************************************)
(* The routing of a Mux, for any number of goroutines that register and that *)
(* serve, for any routes and requests and any EqualFold.                     *)
(*                                                                           *)
(* The inductive invariant says what m.mu protects (who is storing, and that *)
(* only the last slot can be blank), that a stored route belongs to a call   *)
(* that is done, and what a request without the lock may rely on: the slots  *)
(* stored when it came in are there, and nothing is stored while it is quiet. *)
(*****************************************************************************)
EXTENDS Mux, FiniteSetTheorems, TLAPS

RouteValues == {newRoute(c, k) : c \in Callers, k \in Calls}

\* Whether caller c is in the middle of storing what kind k says.
Storing(c, k) == callPc[c] = "storing" /\ call[c].kind = k

LockInv(c) ==
  /\ callPc[c] \in {"locked", "storing"} => mu = c
  /\ callPc[c] \notin {"start", "failed"} => call[c].fn
  /\ callPc[c] = "done" => Registered(c)

SlotsInv ==
  /\ \A i \in 1..Len(routes) : routes[i] # Blank => callPc[routes[i].h] = "done"
  /\ \A i \in 1..(Len(routes) - 1) : routes[i] # Blank
  /\ Len(routes) > 0 /\ routes[Len(routes)] = Blank => \E c \in Callers : Storing(c, "route")
  /\ \A c \in Callers : Storing(c, "route") => Len(routes) > 0 /\ routes[Len(routes)] = Blank
  /\ defaultRoute = Blank => \E c \in Callers : Storing(c, "default")
  /\ unbindRoute = Blank => \E c \in Callers : Storing(c, "unbind")

Seen == [len : Nat, stored : Nat]
Before == [slots : Nat, dflt : BOOLEAN, quiet : BOOLEAN]

\* The routes of the first n slots do not match the request.
NoMatch(q, n) == n <= Len(routes) /\ \A i \in 1..n : passes(i, q)

RequestInv(q) ==
  /\ seen[q].len <= Len(routes)
  /\ seen[q].len = seen[q].stored \/ seen[q].len = seen[q].stored + 1
  /\ \A i \in 1..seen[q].stored : routes[i] # Blank
  /\ reqPc[q] = "start" => seen[q].len = seen[q].stored
  /\ reqPc[q] \in {"range", "default"} => before[q].slots = seen[q].stored
  /\ before[q].dflt => defaultRoute \in Callers
  /\ InServe(q) /\ before[q].quiet => mu = Nobody /\ seen[q].stored = seen[q].len
  /\ reqPc[q] = "default" => NoMatch(q, seen[q].stored) /\ defaultRoute # Nobody
  /\ reqPc[q] = "unbind" => unbindRoute # Nobody
  /\ outcome[q].by # "none" => reqPc[q] = "end"
  /\ outcome[q].by = "route" =>
       /\ outcome[q].slot \in 1..Len(routes)
       /\ matches(outcome[q].slot, q)
       /\ NoMatch(q, outcome[q].slot - 1)
  /\ outcome[q].by \in {"default", "refused"} => NoMatch(q, before[q].slots)
  /\ outcome[q].by = "refused" => ~before[q].dflt
  /\ outcome[q].by = "panic" => ~before[q].quiet

MuxTypeOK ==
  /\ mu \in Callers \cup {Nobody}
  /\ routes \in Seq(RouteValues \cup {Blank})
  /\ defaultRoute \in Callers \cup {Nobody, Blank}
  /\ unbindRoute \in Callers \cup {Nobody, Blank}
  /\ callPc \in [Callers -> CallPCs]
  /\ call \in [Callers -> Calls]
  /\ reqPc \in [Requests -> ReqPCs]
  /\ seen \in [Requests -> Seen]
  /\ before \in [Requests -> Before]
  /\ DOMAIN outcome = Requests

MuxInv ==
  /\ MuxTypeOK
  /\ \A c \in Callers : LockInv(c)
  /\ SlotsInv
  /\ \A q \in Requests : RequestInv(q)
-----------------------------------------------------------------------------
\* The slots stored are the first ones, all of them unless one is being stored.
LEMMA StoredCount ==
  ASSUME MuxInv
  PROVE  /\ Cardinality(Stored) \in Nat
         /\ Cardinality(Stored) = Len(routes) \/ Cardinality(Stored) + 1 = Len(routes)
         /\ \A i \in 1..Cardinality(Stored) : routes[i] # Blank
         /\ mu = Nobody => Cardinality(Stored) = Len(routes)
<1> DEFINE n == Len(routes)
<1>0. n \in Nat /\ SlotsInv /\ \A c \in Callers : LockInv(c)
  BY DEF MuxInv, MuxTypeOK
<1> HIDE DEF n
<1>1. CASE n > 0 /\ routes[n] = Blank
  <2>1. Stored = 1..(n - 1)
    BY <1>0, <1>1 DEF Stored, SlotsInv, n
  <2>2. Cardinality(1..(n - 1)) = n - 1
    BY <1>0, <1>1, FS_Interval
  <2>3. mu # Nobody
    <3>1. PICK c \in Callers : Storing(c, "route")
      BY <1>0, <1>1 DEF SlotsInv, n
    <3> QED
      BY <1>0, <3>1, MuxAssumption DEF Storing, LockInv
  <2> QED
    BY <1>0, <1>1, <2>1, <2>2, <2>3 DEF SlotsInv, n
<1>2. CASE ~(n > 0 /\ routes[n] = Blank)
  <2>1. Stored = 1..n
    BY <1>0, <1>2 DEF Stored, SlotsInv, n
  <2>2. Cardinality(1..n) = n
    BY <1>0, FS_Interval
  <2>3. \A i \in 1..n : routes[i] # Blank
    BY <1>0, <1>2 DEF SlotsInv, n
  <2> QED
    BY <1>0, <2>1, <2>2, <2>3 DEF n
<1> QED
  BY <1>1, <1>2

\* The initial state satisfies the invariant.
LEMMA InitMuxInv == Init => MuxInv
<1> SUFFICES ASSUME Init PROVE MuxInv
  OBVIOUS
<1> USE DEF Init
<1>1. MuxTypeOK
  <2>1. seen \in [Requests -> Seen]
    BY DEF Seen
  <2>2. before \in [Requests -> Before]
    BY DEF Before
  <2>3. callPc \in [Callers -> CallPCs] /\ reqPc \in [Requests -> ReqPCs]
    BY DEF CallPCs, ReqPCs
  <2>4. routes \in Seq(RouteValues \cup {Blank})
    OBVIOUS
  <2> QED
    BY <2>1, <2>2, <2>3, <2>4 DEF MuxTypeOK
<1>2. \A c \in Callers : LockInv(c)
  BY DEF LockInv
<1>3. SlotsInv
  BY MuxAssumption DEF SlotsInv, Storing
<1>4. \A q \in Requests : RequestInv(q)
  BY DEF RequestInv, InServe, Outcome
<1> QED
  BY <1>1, <1>2, <1>3, <1>4 DEF MuxInv

\* What a registration does to the routes: a stored slot is kept, and only the
\* last one, being stored by the caller that holds m.mu, is set.
LEMMA RegisterEffect ==
  ASSUME MuxInv, NEW c \in Callers, Register(c)
  PROVE  /\ routes' \in Seq(RouteValues \cup {Blank})
         /\ \/ UNCHANGED routes
            \/ /\ appendLen(c)
               /\ Len(routes') = Len(routes) + 1
               /\ \A i \in 1..Len(routes) : routes'[i] = routes[i]
               /\ routes'[Len(routes) + 1] = Blank
            \/ /\ appendRoute(c)
               /\ Len(routes) > 0
               /\ Len(routes') = Len(routes)
               /\ \A i \in 1..(Len(routes) - 1) : routes'[i] = routes[i]
               /\ routes[Len(routes)] = Blank
               /\ routes'[Len(routes)] = newRoute(c, call[c])
<1>0. routes \in Seq(RouteValues \cup {Blank}) /\ call[c] \in Calls
  BY DEF MuxInv, MuxTypeOK
<1>1. newRoute(c, call[c]) \in RouteValues
  BY <1>0 DEF RouteValues
<1>2. CASE appendLen(c)
  <2>1. routes' = Append(routes, Blank)
    BY <1>2 DEF appendLen
  <2> QED
    BY <1>0, <1>2, <2>1
<1>3. CASE appendRoute(c)
  <2>1. Len(routes) > 0 /\ routes[Len(routes)] = Blank
    BY <1>3 DEF appendRoute, CallGoto, MuxInv, SlotsInv, Storing
  <2> DEFINE x == newRoute(c, call[c])
             n == Len(routes)
  <2>2. routes' = [routes EXCEPT ![n] = x] /\ x \in RouteValues \cup {Blank} /\ n \in 1..n
    BY <1>0, <1>1, <1>3, <2>1 DEF appendRoute
  <2> HIDE DEF x
  <2> QED
    BY <1>0, <1>3, <2>1, <2>2 DEF x
<1>4. CASE registerNil(c) \/ lock(c) \/ DefaultRoute(c) \/ Unbind(c)
  BY <1>0, <1>4 DEF registerNil, lock, DefaultRoute, Unbind, muxVars
<1> QED
  BY <1>2, <1>3, <1>4 DEF Register

\* What a registration leaves as it is, whoever makes it.
LEMMA RegisterFrame ==
  ASSUME MuxInv, NEW c \in Callers, Register(c)
  PROVE  /\ UNCHANGED <<call, reqVars>>
         /\ \A d \in Callers \ {c} : callPc'[d] = callPc[d]
         /\ callPc' \in [Callers -> CallPCs]
         /\ callPc[c] \notin {"done", "failed"}
         /\ callPc[c] \in {"locked", "storing"} => mu = c
  BY DEF Register, registerNil, lock, appendLen, appendRoute, DefaultRoute, Unbind, CallGoto,
     muxVars, MuxInv, MuxTypeOK, LockInv, CallPCs

\* Serving a request leaves the Mux and the callers as they are.
LEMMA ServeFrame ==
  ASSUME NEW q \in Requests, Serve(q)
  PROVE  UNCHANGED <<muxVars, callVars, msg>>
  BY DEF Serve, serve, serveRoute, servePanic, serveNone, serveDefault, serveUnbind, End

\* Every step keeps what m.mu protects.
LEMMA LockStep ==
  ASSUME MuxInv, [Next]_vars, NEW d \in Callers
  PROVE  LockInv(d)'
<1>0. /\ LockInv(d)
      /\ mu \in Callers \cup {Nobody}
      /\ callPc \in [Callers -> CallPCs]
      /\ call \in [Callers -> Calls]
      /\ routes \in Seq(RouteValues \cup {Blank})
  BY DEF MuxInv, MuxTypeOK
<1>1. ASSUME UNCHANGED <<muxVars, callVars>> PROVE LockInv(d)'
  <2>1. UNCHANGED Registered(d)
    BY <1>1 DEF Registered, Stored, muxVars, callVars
  <2> QED
    BY <1>0, <1>1, <2>1 DEF LockInv, muxVars, callVars
<1>2. ASSUME NEW c \in Callers, Register(c) PROVE LockInv(d)'
  <2>1. /\ UNCHANGED call
        /\ \A e \in Callers \ {c} : callPc'[e] = callPc[e]
        /\ callPc[c] \in {"locked", "storing"} => mu = c
    BY <1>2, RegisterFrame
  <2>2. ASSUME Registered(d) PROVE Registered(d)'
    <3>1. CASE call[d].kind = "route"
      <4>1. PICK i \in Stored : routes[i].h = d
        BY <2>2, <3>1 DEF Registered
      <4>2. i \in Stored' /\ routes'[i] = routes[i]
        BY <1>0, <1>2, <4>1, RegisterEffect DEF Stored
      <4> QED
        BY <2>1, <3>1, <4>1, <4>2 DEF Registered
    <3>2. CASE call[d].kind # "route"
      <4>1. /\ defaultRoute \in Callers => defaultRoute' \in Callers
            /\ unbindRoute \in Callers => unbindRoute' \in Callers
        BY <1>2, MuxAssumption DEF Register, registerNil, lock, appendLen, appendRoute,
           DefaultRoute, Unbind, muxVars
      <4>2. call[d].kind \in {"default", "unbind"}
        BY <1>0, <3>2, MuxAssumption
      <4> QED
        BY <2>1, <2>2, <4>1, <4>2, Zenon DEF Registered
    <3> QED
      BY <3>1, <3>2
  <2>3. CASE d # c
    <3>1. mu' = mu \/ callPc[d] \notin {"locked", "storing"}
      BY <1>0, <1>2, <2>1, <2>3, MuxAssumption DEF LockInv, Register, registerNil, lock, muFree,
         appendLen, appendRoute, DefaultRoute, Unbind, muxVars, CallGoto
    <3> QED
      BY <1>0, <2>1, <2>2, <2>3, <3>1 DEF LockInv
  <2>4. CASE d = c
    <3>1. ASSUME callPc'[c] = "done" PROVE Registered(c)'
      <4>1. CASE appendRoute(c)
        <5>1. /\ Len(routes) \in 1..Len(routes')
              /\ routes'[Len(routes)] = newRoute(c, call[c])
              /\ call[c].kind = "route"
              /\ callPc[c] = "storing"
          BY <1>0, <1>2, <4>1, RegisterEffect DEF appendRoute, appendLen, CallGoto
        <5>2. newRoute(c, call[c]).h = c /\ newRoute(c, call[c]) # Blank
          BY <1>0, MuxAssumption DEF newRoute
        <5>3. Len(routes) \in Stored'
          BY <5>1, <5>2 DEF Stored
        <5> QED
          BY <2>1, <5>1, <5>2, <5>3 DEF Registered
      <4>2. CASE DefaultRoute(c)
        BY <2>1, <3>1, <4>2, <1>0 DEF DefaultRoute, CallGoto, Registered
      <4>3. CASE Unbind(c)
        BY <2>1, <3>1, <4>3, <1>0 DEF Unbind, CallGoto, Registered
      <4> QED
        BY <1>0, <1>2, <3>1, <4>1, <4>2, <4>3
        DEF Register, registerNil, lock, appendLen, CallGoto
    <3>2. callPc'[c] \in {"locked", "storing"} => mu' = c
      BY <1>0, <1>2, <2>1 DEF Register, registerNil, lock, appendLen, appendRoute, DefaultRoute,
         Unbind, CallGoto, muxVars
    <3>3. callPc'[c] \notin {"start", "failed"} => call[c].fn
      BY <1>0, <1>2, <2>4 DEF Register, registerNil, lock, appendLen, appendRoute, DefaultRoute,
         Unbind, CallGoto, LockInv
    <3> QED
      BY <2>1, <2>4, <3>1, <3>2, <3>3 DEF LockInv
  <2> QED
    BY <2>3, <2>4
<1>3. ASSUME NEW q \in Requests, Serve(q) PROVE LockInv(d)'
  BY <1>1, <1>3, ServeFrame
<1>4. CASE UNCHANGED vars
  BY <1>1, <1>4 DEF vars
<1> QED
  BY <1>2, <1>3, <1>4 DEF Next

\* Every step keeps the types.
LEMMA MuxTypeStep ==
  ASSUME MuxInv, [Next]_vars
  PROVE  MuxTypeOK'
<1>0. MuxTypeOK
  BY DEF MuxInv
<1>1. ASSUME NEW c \in Callers, Register(c) PROVE MuxTypeOK'
  <2>1. routes' \in Seq(RouteValues \cup {Blank})
    BY <1>1, RegisterEffect
  <2>2. callPc' \in [Callers -> CallPCs] /\ UNCHANGED <<call, reqVars>>
    BY <1>1, RegisterFrame
  <2>3. /\ mu' \in Callers \cup {Nobody}
        /\ defaultRoute' \in Callers \cup {Nobody, Blank}
        /\ unbindRoute' \in Callers \cup {Nobody, Blank}
    BY <1>0, <1>1 DEF MuxTypeOK, Register, registerNil, lock, appendLen, appendRoute,
       DefaultRoute, Unbind, muxVars
  <2>4. before' \in [Requests -> Before]
    <3>1. CASE lock(c)
      <4>1. \A q \in Requests : [before[q] EXCEPT !.quiet = before[q].quiet /\ ~InServe(q)] \in Before
        BY <1>0, Zenon DEF MuxTypeOK, Before
      <4> QED
        BY <3>1, <4>1 DEF lock
    <3>2. CASE UNCHANGED before
      BY <1>0, <3>2 DEF MuxTypeOK
    <3> QED
      BY <1>1, <3>1, <3>2 DEF Register, registerNil, appendLen, appendRoute, DefaultRoute, Unbind
  <2> QED
    BY <1>0, <2>1, <2>2, <2>3, <2>4 DEF MuxTypeOK, reqVars
<1>2. ASSUME NEW q \in Requests, Serve(q) PROVE MuxTypeOK'
  <2>1. Started \in Before /\ [len |-> Len(routes), stored |-> Cardinality(Stored)] \in Seen
    BY <1>0, StoredCount DEF Started, Before, Seen, MuxTypeOK
  <2>2. /\ seen' \in [Requests -> Seen]
        /\ before' \in [Requests -> Before]
    BY <1>0, <1>2, <2>1 DEF MuxTypeOK, Serve, serve, serveRoute, servePanic, serveNone,
       serveDefault, serveUnbind, End
  <2>3. reqPc' \in [Requests -> ReqPCs] /\ DOMAIN outcome' = Requests
    BY <1>0, <1>2 DEF MuxTypeOK, Serve, serve, serveRoute, servePanic, serveNone,
       serveDefault, serveUnbind, End, ReqGoto, ReqPCs
  <2>4. UNCHANGED <<muxVars, callVars>>
    BY <1>2, ServeFrame
  <2> QED
    BY <1>0, <2>2, <2>3, <2>4 DEF MuxTypeOK, muxVars, callVars
<1>3. CASE UNCHANGED vars
  BY <1>0, <1>3 DEF vars, muxVars, callVars, reqVars, MuxTypeOK
<1> QED
  BY <1>1, <1>2, <1>3 DEF Next

\* Every step keeps the order in which slots are stored.
LEMMA SlotsStep ==
  ASSUME MuxInv, [Next]_vars
  PROVE  SlotsInv'
<1>0. /\ SlotsInv
      /\ routes \in Seq(RouteValues \cup {Blank})
      /\ Len(routes) \in Nat
      /\ callPc \in [Callers -> CallPCs]
      /\ call \in [Callers -> Calls]
      /\ \A c \in Callers : LockInv(c)
  BY DEF MuxInv, MuxTypeOK
<1>1. ASSUME UNCHANGED <<muxVars, callVars>> PROVE SlotsInv'
  BY <1>0, <1>1 DEF SlotsInv, Storing, muxVars, callVars
<1>2. ASSUME NEW c \in Callers, Register(c) PROVE SlotsInv'
  <2>1. /\ UNCHANGED call
        /\ \A e \in Callers \ {c} : callPc'[e] = callPc[e]
        /\ callPc[c] \notin {"done", "failed"}
        /\ callPc[c] \in {"locked", "storing"} => mu = c
    BY <1>2, RegisterFrame
  <2>2. \A e \in Callers : callPc[c] \in {"locked", "storing"} /\ callPc[e] = "storing" => e = c
    BY <1>0, <2>1 DEF LockInv
  <2>3. \A e \in Callers : callPc[e] = "done" => callPc'[e] = "done"
    BY <2>1
  <2>4. ASSUME NEW i \in 1..Len(routes), routes[i] # Blank PROVE callPc'[routes[i].h] = "done"
    <3>1. routes[i] \in RouteValues
      BY <1>0, <2>4
    <3>2. routes[i].h \in Callers
      BY <3>1 DEF RouteValues, newRoute
    <3> QED
      BY <1>0, <2>3, <2>4, <3>2 DEF SlotsInv
  <2>5. CASE appendLen(c)
    <3>1. /\ call[c].kind = "route" /\ callPc[c] = "locked" /\ callPc'[c] = "storing"
          /\ UNCHANGED <<defaultRoute, unbindRoute>>
      BY <1>0, <2>5 DEF appendLen, CallGoto
    <3>2. /\ Len(routes') = Len(routes) + 1
          /\ \A i \in 1..Len(routes) : routes'[i] = routes[i]
          /\ routes'[Len(routes) + 1] = Blank
      BY <1>0, <2>5 DEF appendLen
    <3>3. Len(routes) > 0 => routes[Len(routes)] # Blank
      BY <1>0, <2>2, <3>1 DEF SlotsInv, Storing
    <3>4. Storing(c, "route")'
      BY <2>1, <3>1 DEF Storing
    <3>5. defaultRoute # Blank /\ unbindRoute # Blank
      BY <1>0, <2>2, <3>1 DEF SlotsInv, Storing
    <3> QED
      BY <1>0, <2>1, <2>4, <3>1, <3>2, <3>3, <3>4, <3>5 DEF SlotsInv
  <2>6. CASE appendRoute(c)
    <3>1. /\ call[c].kind = "route" /\ callPc[c] = "storing" /\ callPc'[c] = "done"
          /\ UNCHANGED <<defaultRoute, unbindRoute>>
      BY <1>0, <2>6 DEF appendRoute, CallGoto
    <3>2. /\ Len(routes') = Len(routes)
          /\ \A i \in 1..(Len(routes) - 1) : routes'[i] = routes[i]
          /\ routes'[Len(routes)] = newRoute(c, call[c])
      BY <1>0, <1>2, <2>6, <3>1, RegisterEffect DEF appendLen, appendRoute, CallGoto, SlotsInv, Storing
    <3>3. newRoute(c, call[c]).h = c /\ newRoute(c, call[c]) # Blank
      BY <1>0, MuxAssumption DEF newRoute
    <3>4. defaultRoute # Blank /\ unbindRoute # Blank
      BY <1>0, <2>2, <3>1 DEF SlotsInv, Storing
    <3>5. \A e \in Callers : ~Storing(e, "route")'
      BY <2>1, <2>2, <3>1 DEF Storing
    <3> QED
      BY <1>0, <2>4, <3>1, <3>2, <3>3, <3>4, <3>5 DEF SlotsInv
  <2>7. CASE registerNil(c) \/ lock(c) \/ DefaultRoute(c) \/ Unbind(c)
    <3>1. UNCHANGED routes
      BY <2>7 DEF registerNil, lock, DefaultRoute, Unbind, muxVars
    <3>2. \A e \in Callers : Storing(e, "route")' <=> Storing(e, "route")
      BY <1>0, <2>1, <2>7 DEF Storing, registerNil, lock, DefaultRoute, Unbind, CallGoto
    <3>3. defaultRoute' = Blank => \E e \in Callers : Storing(e, "default")'
      <4>1. CASE DefaultRoute(c)
        BY <1>0, <2>1, <2>2, <4>1, MuxAssumption DEF SlotsInv, Storing, DefaultRoute, CallGoto
      <4>2. CASE ~DefaultRoute(c)
        BY <1>0, <2>1, <2>7, <4>2 DEF SlotsInv, Storing, registerNil, lock, Unbind, CallGoto, muxVars
      <4> QED
        BY <4>1, <4>2
    <3>4. unbindRoute' = Blank => \E e \in Callers : Storing(e, "unbind")'
      <4>1. CASE Unbind(c)
        BY <1>0, <2>1, <2>2, <4>1, MuxAssumption DEF SlotsInv, Storing, Unbind, CallGoto
      <4>2. CASE ~Unbind(c)
        BY <1>0, <2>1, <2>7, <4>2 DEF SlotsInv, Storing, registerNil, lock, DefaultRoute, CallGoto, muxVars
      <4> QED
        BY <4>1, <4>2
    <3> QED
      BY <1>0, <2>4, <3>1, <3>2, <3>3, <3>4 DEF SlotsInv
  <2> QED
    BY <1>2, <2>5, <2>6, <2>7 DEF Register
<1>3. ASSUME NEW q \in Requests, Serve(q) PROVE SlotsInv'
  BY <1>1, <1>3, ServeFrame
<1>4. CASE UNCHANGED vars
  BY <1>1, <1>4, Zenon DEF vars
<1> QED
  BY <1>2, <1>3, <1>4 DEF Next

\* A registration does not disturb a request that is being served.
LEMMA RequestRegister ==
  ASSUME MuxInv, NEW c \in Callers, Register(c), NEW q \in Requests
  PROVE  RequestInv(q)'
<1>0. /\ RequestInv(q)
      /\ routes \in Seq(RouteValues \cup {Blank})
      /\ Len(routes) \in Nat
      /\ seen[q] \in Seen /\ before[q] \in Before
      /\ before \in [Requests -> Before]
  BY DEF MuxInv, MuxTypeOK
<1>1. /\ UNCHANGED <<call, reqPc, msg, seen, outcome>>
      /\ callPc[c] \in {"locked", "storing"} => mu = c
  BY RegisterFrame DEF reqVars
<1>2. /\ Len(routes') \in Nat /\ Len(routes) <= Len(routes')
      /\ \A i \in 1..Len(routes) : routes[i] # Blank => routes'[i] = routes[i]
  BY <1>0, RegisterEffect
<1>3. /\ defaultRoute \in Callers => defaultRoute' \in Callers
      /\ defaultRoute # Nobody => defaultRoute' # Nobody
      /\ unbindRoute # Nobody => unbindRoute' # Nobody
  BY MuxAssumption DEF Register, registerNil, lock, appendLen, appendRoute, DefaultRoute,
     Unbind, muxVars
<1>4. /\ before'[q].slots = before[q].slots
      /\ before'[q].dflt = before[q].dflt
      /\ before'[q].quiet => before[q].quiet /\ (InServe(q) => UNCHANGED mu)
  <2>1. CASE lock(c)
    <3>1. before'[q] = [before[q] EXCEPT !.quiet = before[q].quiet /\ ~InServe(q)]
      BY <2>1 DEF lock
    <3> QED
      BY <1>0, <3>1, Zenon DEF Before
  <2>2. CASE registerNil(c)
    BY <2>2 DEF registerNil, muxVars
  <2>3. CASE appendLen(c) \/ appendRoute(c) \/ DefaultRoute(c) \/ Unbind(c)
    <3>1. UNCHANGED before /\ mu = c
      BY <1>1, <2>3 DEF appendLen, appendRoute, DefaultRoute, Unbind, CallGoto
    <3> QED
      BY <1>0, <3>1, MuxAssumption DEF RequestInv
  <2> QED
    BY <2>1, <2>2, <2>3 DEF Register
<1>5. ASSUME NEW n \in Int, NoMatch(q, n)
      PROVE  /\ n <= Len(routes')
             /\ \A i \in 1..n : passes(i, q)'
  <2>1. ASSUME NEW i \in 1..n PROVE passes(i, q)'
    <3>1. i \in 1..Len(routes) /\ passes(i, q)
      BY <1>0, <1>5 DEF NoMatch
    <3> QED
      BY <1>1, <1>2, <3>1, Zenon DEF passes
  <2> QED
    BY <1>0, <1>2, <1>5, <2>1 DEF NoMatch
<1>6. ASSUME NEW i \in 1..Len(routes), matches(i, q)
      PROVE  i \in 1..Len(routes') /\ matches(i, q)'
  <2>1. i \in 1..Len(routes')
    BY <1>0, <1>2
  <2>2. routes[i] # Blank /\ routes'[i] = routes[i]
    BY <1>2, <1>6 DEF matches
  <2> QED
    BY <1>1, <1>6, <2>1, <2>2, Zenon DEF matches
<1>7. /\ seen[q].len \in Nat /\ seen[q].stored \in Nat /\ before[q].slots \in Nat
  BY <1>0 DEF Seen, Before
<1>8. seen'[q].len <= Len(routes') /\ \A i \in 1..seen'[q].stored : routes'[i] # Blank
  BY <1>0, <1>1, <1>2, <1>7 DEF RequestInv
<1>9. outcome'[q].by = "route" =>
        /\ outcome'[q].slot \in 1..Len(routes')
        /\ matches(outcome[q].slot, q)'
        /\ NoMatch(q, outcome[q].slot - 1)'
  BY <1>0, <1>1, <1>5, <1>6, SMTT(30) DEF RequestInv, NoMatch
<1>10. outcome'[q].by \in {"default", "refused"} => NoMatch(q, before[q].slots)'
  <2> SUFFICES ASSUME outcome'[q].by \in {"default", "refused"} PROVE NoMatch(q, before[q].slots)'
    OBVIOUS
  <2>1. NoMatch(q, before[q].slots)
    BY <1>0, <1>1 DEF RequestInv
  <2> QED
    BY <1>4, <1>5, <1>7, <2>1 DEF NoMatch
<1>11. reqPc'[q] = "default" => NoMatch(q, seen[q].stored)' /\ defaultRoute' # Nobody
  <2> SUFFICES ASSUME reqPc'[q] = "default"
               PROVE  NoMatch(q, seen[q].stored)' /\ defaultRoute' # Nobody
    OBVIOUS
  <2>1. NoMatch(q, seen[q].stored) /\ defaultRoute # Nobody
    BY <1>0, <1>1 DEF RequestInv
  <2> QED
    BY <1>1, <1>3, <1>5, <1>7, <2>1, SMTT(30) DEF NoMatch
<1> QED
  BY <1>0, <1>1, <1>3, <1>4, <1>8, <1>9, <1>10, <1>11 DEF RequestInv, InServe

\* A step of serve leaves the routes alone, and so what they match.
LEMMA ServeMatches ==
  ASSUME NEW p \in Requests, Serve(p), NEW q \in Requests, NEW i
  PROVE  (passes(i, q)' <=> passes(i, q)) /\ (matches(i, q)' <=> matches(i, q))
<1>1. UNCHANGED <<routes, msg>>
  BY ServeFrame DEF muxVars
<1> QED
  BY <1>1 DEF passes, matches

\* A blank default or unbind route is one that is being stored, under m.mu.
LEMMA BlankIsLocked ==
  ASSUME MuxInv, defaultRoute = Blank \/ unbindRoute = Blank
  PROVE  mu # Nobody
<1>1. PICK c \in Callers : callPc[c] = "storing"
  BY DEF MuxInv, SlotsInv, Storing
<1> QED
  BY <1>1, MuxAssumption DEF MuxInv, LockInv

\* A step of serve keeps the invariant of the request it serves.
LEMMA RequestServe ==
  ASSUME MuxInv, NEW q \in Requests, Serve(q)
  PROVE  RequestInv(q)'
<1>0. /\ RequestInv(q)
      /\ Len(routes) \in Nat
      /\ defaultRoute \in Callers \cup {Nobody, Blank}
      /\ seen \in [Requests -> Seen] /\ before \in [Requests -> Before]
      /\ reqPc \in [Requests -> ReqPCs] /\ DOMAIN outcome = Requests
  BY DEF MuxInv, MuxTypeOK
<1>1. /\ UNCHANGED <<mu, routes, defaultRoute, unbindRoute>>
      /\ \A i : (passes(i, q)' <=> passes(i, q)) /\ (matches(i, q)' <=> matches(i, q))
  BY ServeFrame, ServeMatches DEF muxVars
<1>2. /\ seen[q].len \in Nat /\ seen[q].stored \in Nat /\ before[q].slots \in Nat
      /\ before[q].quiet \in BOOLEAN /\ before[q].dflt \in BOOLEAN
  BY <1>0 DEF Seen, Before
<1> DEFINE ends(from, by, i) ==
             /\ reqPc[q] = from /\ reqPc'[q] = "end"
             /\ outcome'[q].by = by /\ outcome'[q].slot = i
             /\ seen'[q] = seen[q] /\ before'[q] = before[q]
<1>3. ASSUME NEW from, NEW by, NEW i, End(q, from, by, i) PROVE ends(from, by, i)
  BY <1>0, <1>3 DEF End, ReqGoto, Outcome
<1>4. CASE serve(q)
  <2>1. /\ reqPc[q] = "start" /\ reqPc'[q] = "range"
        /\ seen'[q].len = Len(routes) /\ seen'[q].stored = Cardinality(Stored)
        /\ before'[q].slots = Cardinality(Stored)
        /\ before'[q].dflt = (defaultRoute \in Callers) /\ before'[q].quiet = (mu = Nobody)
        /\ UNCHANGED outcome
    BY <1>0, <1>4 DEF serve, ReqGoto, Started
  <2>2. outcome'[q].by = "none"
    BY <1>0, <2>1 DEF RequestInv
  <2>3. before'[q].dflt => defaultRoute' \in Callers
    BY <1>1, <2>1, Zenon
  <2>4. before'[q].quiet => mu' = Nobody /\ seen'[q].stored = seen'[q].len
    BY <1>1, <2>1, StoredCount, Zenon
  <2>5. /\ seen'[q].len <= Len(routes')
        /\ seen'[q].len = seen'[q].stored \/ seen'[q].len = seen'[q].stored + 1
        /\ \A i \in 1..seen'[q].stored : routes'[i] # Blank
    BY <1>0, <1>1, <2>1, StoredCount
  <2> QED
    BY <2>1, <2>2, <2>3, <2>4, <2>5 DEF RequestInv, InServe
<1>5. CASE serveRoute(q)
  <2>1. PICK i \in 1..seen[q].len :
          matches(i, q) /\ (\A j \in 1..(i - 1) : passes(j, q)) /\ End(q, "range", "route", i)
    BY <1>5 DEF serveRoute
  <2>2. ends("range", "route", i)
    BY <1>3, <2>1, Zenon
  <2>3. i \in 1..Len(routes) /\ matches(i, q)' /\ NoMatch(q, outcome[q].slot - 1)'
    BY <1>0, <1>1, <1>2, <2>1, <2>2, SMTT(30) DEF RequestInv, NoMatch
  <2>4. outcome'[q].slot = i /\ matches(outcome[q].slot, q)'
    BY <2>2, <2>3, Zenon DEF matches
  <2> QED
    BY <1>0, <1>1, <1>2, <2>2, <2>3, <2>4 DEF RequestInv, InServe
<1>6. CASE servePanic(q)
  <2>1. ends("range", "panic", 0) /\ seen[q].stored < seen[q].len
    BY <1>3, <1>6, Zenon DEF servePanic
  <2>2. seen[q].stored # seen[q].len
    BY <1>2, <2>1
  <2>3. ~before[q].quiet
    BY <1>0, <2>1, <2>2, Zenon DEF RequestInv, InServe
  <2> QED
    BY <1>0, <1>1, <2>1, <2>3, Zenon DEF RequestInv, InServe
<1>7. CASE serveNone(q)
  <2>1. reqPc[q] = "range" /\ NoMatch(q, seen[q].stored)
    BY <1>0, <1>2, <1>7 DEF serveNone, NoMatch, RequestInv, ReqGoto, End
  <2>2. CASE defaultRoute = Nobody
    <3>1. ends("range", "refused", 0) /\ before[q].slots = seen[q].stored
      BY <1>0, <1>3, <1>7, <2>1, <2>2, Zenon DEF serveNone, RequestInv
    <3>2. NoMatch(q, before[q].slots)'
      BY <1>1, <1>2, <2>1, <3>1, Zenon DEF NoMatch
    <3> QED
      BY <1>0, <1>1, <1>2, <2>2, <3>1, <3>2, MuxAssumption, Zenon DEF RequestInv, InServe
  <2>3. CASE defaultRoute # Nobody
    <3>1. reqPc'[q] = "default" /\ UNCHANGED <<seen, outcome, before>>
      BY <1>0, <1>7, <2>3, Zenon DEF serveNone, ReqGoto
    <3>2. NoMatch(q, seen[q].stored)'
      BY <1>1, <1>2, <2>1, <3>1 DEF NoMatch
    <3>3. outcome[q].by = "none"
      BY <1>0, <2>1, Zenon DEF RequestInv
    <3> QED
      BY <1>0, <1>1, <1>2, <2>1, <2>3, <3>1, <3>2, <3>3, Zenon DEF RequestInv, InServe
  <2> QED
    BY <2>2, <2>3
<1>8. CASE serveDefault(q)
  <2>1. CASE defaultRoute = Blank
    <3>1. ends("default", "panic", 0) /\ mu # Nobody
      BY <1>3, <1>8, <2>1, BlankIsLocked DEF serveDefault
    <3> QED
      BY <1>0, <1>1, <1>2, <3>1, Zenon DEF RequestInv, InServe
  <2>2. CASE defaultRoute # Blank
    <3>1. ends("default", "default", 0)
      BY <1>3, <1>8, <2>2 DEF serveDefault
    <3>2. NoMatch(q, before[q].slots)
      BY <1>0, <3>1 DEF RequestInv
    <3>3. NoMatch(q, before[q].slots)'
      BY <1>1, <1>2, <3>1, <3>2 DEF NoMatch
    <3> QED
      BY <1>0, <1>1, <1>2, <3>1, <3>3, Zenon DEF RequestInv, InServe
  <2> QED
    BY <2>1, <2>2
<1>9. CASE serveUnbind(q)
  <2>1. CASE unbindRoute # Nobody /\ reqPc[q] = "start"
    <3>1. /\ reqPc'[q] = "unbind" /\ before' = [before EXCEPT ![q] = Started]
          /\ UNCHANGED <<seen, outcome>>
      BY <1>0, <1>9, <2>1 DEF serveUnbind, ReqGoto, End
    <3>2. /\ before'[q].dflt = (defaultRoute \in Callers) /\ before'[q].quiet = (mu = Nobody)
          /\ outcome'[q].by = "none"
      BY <1>0, <2>1, <3>1 DEF Started, RequestInv
    <3> QED
      BY <1>0, <1>1, <1>2, <2>1, <3>1, <3>2, Zenon DEF RequestInv, InServe
  <2>2. CASE unbindRoute = Nobody /\ reqPc[q] = "start"
    <3>1. ends("start", "ignored", 0)
      BY <1>3, <1>9, <2>2, SMTT(30) DEF serveUnbind, End, ReqGoto
    <3> QED
      BY <1>0, <1>1, <1>2, <3>1, ZenonT(30) DEF RequestInv, InServe
  <2>3. CASE reqPc[q] # "start"
    <3>1. \/ ends("unbind", "panic", 0) /\ mu # Nobody
          \/ ends("unbind", "unbind", 0)
      BY <1>3, <1>9, <2>3, BlankIsLocked DEF serveUnbind, End, ReqGoto
    <3> QED
      BY <1>0, <1>1, <1>2, <3>1, Zenon DEF RequestInv, InServe
  <2> QED
    BY <2>1, <2>2, <2>3
<1> QED
  BY <1>4, <1>5, <1>6, <1>7, <1>8, <1>9 DEF Serve

\* A step of serve for one request does not disturb the others.
LEMMA RequestOther ==
  ASSUME MuxInv, NEW p \in Requests, Serve(p), NEW q \in Requests, q # p
  PROVE  RequestInv(q)'
<1>0. /\ RequestInv(q)
      /\ seen \in [Requests -> Seen] /\ before \in [Requests -> Before]
      /\ reqPc \in [Requests -> ReqPCs] /\ DOMAIN outcome = Requests
  BY DEF MuxInv, MuxTypeOK
<1>1. /\ UNCHANGED <<mu, routes, defaultRoute, unbindRoute>>
      /\ \A i : (passes(i, q)' <=> passes(i, q)) /\ (matches(i, q)' <=> matches(i, q))
  BY ServeFrame, ServeMatches, Zenon DEF muxVars
<1>2. /\ reqPc'[q] = reqPc[q] /\ seen'[q] = seen[q]
      /\ outcome'[q] = outcome[q] /\ before'[q] = before[q]
  BY <1>0 DEF Serve, serve, serveRoute, servePanic, serveNone, serveDefault, serveUnbind, End,
     ReqGoto
<1>3. ASSUME NEW n PROVE NoMatch(q, n) => n <= Len(routes') /\ \A i \in 1..n : passes(i, q)'
  BY <1>1, Zenon DEF NoMatch
<1>4. reqPc'[q] = "default" => NoMatch(q, seen[q].stored)' /\ defaultRoute' # Nobody
  BY <1>0, <1>1, <1>2, <1>3, Zenon DEF RequestInv, NoMatch
<1>5. outcome'[q].by = "route" =>
        /\ outcome'[q].slot \in 1..Len(routes')
        /\ matches(outcome[q].slot, q)'
        /\ NoMatch(q, outcome[q].slot - 1)'
  <2> SUFFICES ASSUME outcome'[q].by = "route"
               PROVE  /\ outcome'[q].slot \in 1..Len(routes')
                      /\ matches(outcome[q].slot, q)'
                      /\ NoMatch(q, outcome[q].slot - 1)'
    OBVIOUS
  <2>1. /\ outcome[q].slot \in 1..Len(routes)
        /\ matches(outcome[q].slot, q)
        /\ NoMatch(q, outcome[q].slot - 1)
    BY <1>0, <1>2 DEF RequestInv
  <2>2. matches(outcome[q].slot, q)'
    <3>1. UNCHANGED <<routes, msg>>
      BY ServeFrame, Zenon DEF muxVars
    <3> QED
      BY <1>2, <2>1, <3>1, Zenon DEF matches
  <2> QED
    BY <1>1, <1>2, <1>3, <2>1, <2>2 DEF NoMatch
<1>6. outcome'[q].by \in {"default", "refused"} => NoMatch(q, before[q].slots)'
  BY <1>0, <1>1, <1>2, <1>3 DEF RequestInv, NoMatch
<1> QED
  BY <1>0, <1>1, <1>2, <1>4, <1>5, <1>6, Zenon DEF RequestInv, InServe

\* Every step keeps the invariant of every request.
LEMMA RequestStep ==
  ASSUME MuxInv, [Next]_vars, NEW q \in Requests
  PROVE  RequestInv(q)'
<1>1. ASSUME NEW c \in Callers, Register(c) PROVE RequestInv(q)'
  BY <1>1, RequestRegister
<1>2. ASSUME NEW p \in Requests, Serve(p) PROVE RequestInv(q)'
  BY <1>2, RequestServe, RequestOther, Zenon
<1>3. CASE UNCHANGED vars
  <2>1. RequestInv(q)
    BY DEF MuxInv
  <2>2. UNCHANGED <<mu, routes, defaultRoute, unbindRoute, reqPc, msg, seen, outcome, before>>
    BY <1>3 DEF vars, muxVars, reqVars
  <2>3. \A i : passes(i, q)' <=> passes(i, q)
    BY <2>2 DEF passes
  <2>4. matches(outcome[q].slot, q)' <=> matches(outcome[q].slot, q)
    BY <2>2 DEF matches
  <2>5. /\ NoMatch(q, seen[q].stored)' <=> NoMatch(q, seen[q].stored)
        /\ NoMatch(q, before[q].slots)' <=> NoMatch(q, before[q].slots)
        /\ NoMatch(q, outcome[q].slot - 1)' <=> NoMatch(q, outcome[q].slot - 1)
    BY <2>2, <2>3 DEF NoMatch
  <2> QED
    BY <2>1, <2>2, <2>4, <2>5 DEF RequestInv, InServe
<1> QED
  BY <1>1, <1>2, <1>3 DEF Next
-----------------------------------------------------------------------------
\* The invariant of the Mux, its callers and its requests holds throughout.
THEOREM MuxInvariant == Spec => []MuxInv
<1>1. Init => MuxInv
  BY InitMuxInv
<1>2. MuxInv /\ [Next]_vars => MuxInv'
  BY LockStep, MuxTypeStep, SlotsStep, RequestStep DEF MuxInv
<1> QED
  BY <1>1, <1>2, PTL DEF Spec

\* The Mux, the calls that register and the requests keep their types.
THEOREM MuxTypeCorrect == Spec => []TypeOK
<1>1. MuxInv => TypeOK
  <2> SUFFICES ASSUME MuxInv PROVE TypeOK
    OBVIOUS
  <2>1. ASSUME NEW i \in 1..Len(routes) PROVE routes[i] = Blank \/ routes[i].h \in Callers
    <3>1. routes[i] \in RouteValues \cup {Blank}
      BY DEF MuxInv, MuxTypeOK
    <3> QED
      BY <3>1 DEF RouteValues, newRoute
  <2>2. ASSUME NEW q \in Requests
        PROVE  seen[q].stored <= seen[q].len /\ seen[q].len <= seen[q].stored + 1
    <3>1. seen[q] \in Seen /\ RequestInv(q)
      BY DEF MuxInv, MuxTypeOK
    <3>2. seen[q].stored \in Nat /\ seen[q].len \in Nat
      BY <3>1 DEF Seen
    <3> QED
      BY <3>1, <3>2 DEF RequestInv
  <2> QED
    BY <2>1, <2>2 DEF TypeOK, MuxInv, MuxTypeOK
<1> QED
  BY <1>1, MuxInvariant, PTL

\* Serve calls the first route that matches, for any registrations meanwhile.
THEOREM ServeFirstMatch == Spec => []FirstMatch
<1>1. MuxInv => FirstMatch
  <2> SUFFICES ASSUME MuxInv, NEW q \in Requests, outcome[q].by = "route"
               PROVE  /\ match(routes[outcome[q].slot], msg[q])
                      /\ \A j \in 1..(outcome[q].slot - 1) : ~match(routes[j], msg[q])
    BY Zenon DEF FirstMatch
  <2>1. matches(outcome[q].slot, q) /\ \A j \in 1..(outcome[q].slot - 1) : passes(j, q)
    BY DEF MuxInv, RequestInv, NoMatch
  <2> QED
    BY <2>1, Zenon DEF matches, passes
<1> QED
  BY <1>1, MuxInvariant, PTL

\* Serve leaves a request to the default route, or refuses it, only if no route
\* registered when it came in handles it.
THEOREM ServeMissesNone == Spec => []NoHandlerMissed
<1>1. MuxInv => NoHandlerMissed
  <2> SUFFICES ASSUME MuxInv, NEW q \in Requests, outcome[q].by \in {"default", "refused"}
               PROVE  /\ \A i \in 1..before[q].slots : ~match(routes[i], msg[q])
                      /\ outcome[q].by = "refused" => ~before[q].dflt
    BY Zenon DEF NoHandlerMissed
  <2>1. /\ \A i \in 1..before[q].slots : passes(i, q)
        /\ outcome[q].by = "refused" => ~before[q].dflt
    BY DEF MuxInv, RequestInv, NoMatch
  <2> QED
    BY <2>1, Zenon DEF passes
<1> QED
  BY <1>1, MuxInvariant, PTL

\* m.mu: no registration is lost, and a nil handler is never registered.
THEOREM NoRegistrationLost == Spec => []RegisteredStays
<1>1. MuxInv => RegisteredStays
  <2> SUFFICES ASSUME MuxInv, NEW c \in Callers
               PROVE  /\ callPc[c] = "done" => call[c].fn /\ Registered(c)
                      /\ callPc[c] = "failed" => \A i \in Stored : routes[i].h # c
    BY DEF RegisteredStays
  <2>1. callPc[c] = "done" => call[c].fn /\ Registered(c)
    BY DEF MuxInv, LockInv
  <2>2. callPc[c] = "failed" => \A i \in Stored : routes[i].h # c
    BY DEF MuxInv, SlotsInv, Stored
  <2> QED
    BY <2>1, <2>2
<1> QED
  BY <1>1, MuxInvariant, PTL

\* Serve, which reads the routes without m.mu, panics only beside a registration.
THEOREM QuietServeIsSafe == Spec => []PanicNeedsRegistration
<1>1. MuxInv => PanicNeedsRegistration
  BY DEF MuxInv, RequestInv, PanicNeedsRegistration
<1> QED
  BY <1>1, MuxInvariant, PTL
=============================================================================
