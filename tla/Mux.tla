-------------------------------- MODULE Mux ---------------------------------
(***************************************************************************)
(* A Mux shared by the goroutines that register routes and the goroutines  *)
(* that serve requests.  Registrations exclude each other with m.mu;       *)
(* serve and the unbind case of serveRequests read the routes without it.  *)
(*                                                                         *)
(* Go stores a grown slice and an interface word by word, so a reader may  *)
(* meet a route list whose last slot is not stored yet (Blank), or an      *)
(* interface whose type is stored and whose data is not (Blank again).     *)
(* Calling a method of it panics.                                          *)
(***************************************************************************)
EXTENDS Naturals, Sequences, FiniteSets

CONSTANTS
  Callers,   \* goroutines that register a handler, each calls once
  Calls,     \* the registrations they may make: routes with their options
  Requests,  \* goroutines that serve a request, each serves one
  Messages,  \* the requests they may be given
  EqualFold(_, _),  \* strings.EqualFold
  Nobody,    \* nil
  Blank      \* a slot or an interface not stored completely

Unset == ""   \* the zero value of a string, a name that was not given

\* Scope
BaseObject == 0
SingleLevel == 1
WholeSubtree == 2

\* The route the method k of a caller c makes of its options; h is the handler.
newRoute(c, k) ==
  [h |-> c, op |-> k.op, ext |-> k.ext, basedn |-> k.basedn, filter |-> k.filter,
   scope |-> IF k.scope = {} THEN 0 ELSE CHOOSE s \in k.scope : TRUE]

ASSUME MuxAssumption ==
  /\ Nobody \notin Callers
  /\ Blank \notin Callers \cup {Nobody}
  /\ \A k \in Calls : k.fn \in BOOLEAN /\ k.kind \in {"route", "default", "unbind"}
  /\ \A c \in Callers, k \in Calls : newRoute(c, k) # Blank

VARIABLES
  mu,           \* the caller holding m.mu
  routes,       \* m.routes: its slots
  defaultRoute, \* m.defaultRoute
  unbindRoute,  \* m.unbindRoute
  callPc,       \* where each caller is
  call,         \* what it registers
  reqPc,        \* where each request is
  msg,          \* its message
  seen,         \* the slots of the list it ranges over, and how many were stored
  outcome,      \* what became of it
  before        \* history: what was registered when it was started, and
                \* whether no registration has been under way since

muxVars == <<mu, routes, defaultRoute, unbindRoute>>
callVars == <<callPc, call>>
reqVars == <<reqPc, msg, seen, outcome>>
vars == <<muxVars, callVars, reqVars, before>>

\* What became of a request: the slot of the route that handled it, if one did.
Outcome(by, i) == [by |-> by, slot |-> i]

Init ==
  /\ mu = Nobody
  /\ routes = <<>>
  /\ defaultRoute = Nobody
  /\ unbindRoute = Nobody
  /\ callPc = [c \in Callers |-> "start"]
  /\ call \in [Callers -> Calls]
  /\ reqPc = [q \in Requests |-> "start"]
  /\ msg \in [Requests -> Messages]
  /\ seen = [q \in Requests |-> [len |-> 0, stored |-> 0]]
  /\ outcome = [q \in Requests |-> Outcome("none", 0)]
  /\ before = [q \in Requests |-> [slots |-> 0, dflt |-> FALSE, quiet |-> TRUE]]

CallGoto(c, from, to) ==
  /\ callPc[c] = from
  /\ callPc' = [callPc EXCEPT ![c] = to]

ReqGoto(q, from, to) ==
  /\ reqPc[q] = from
  /\ reqPc' = [reqPc EXCEPT ![q] = to]

InServe(q) == reqPc[q] \notin {"start", "end"}
Stored == {i \in 1..Len(routes) : routes[i] # Blank}
-----------------------------------------------------------------------------
(* Registering: Bind, Search, ExtendedOperation, Modify, Add and Delete    *)
(* append a route, DefaultRoute and Unbind set theirs.                     *)

\* A nil handler is refused before anything else.
registerNil(c) ==
  /\ ~call[c].fn
  /\ CallGoto(c, "start", "failed")
  /\ UNCHANGED <<muxVars, call, reqVars, before>>

muFreeNoLock == TRUE
muFree == mu = Nobody

lock(c) ==
  /\ call[c].fn
  /\ muFree
  /\ CallGoto(c, "start", "locked")
  /\ mu' = c
  /\ before' = [q \in Requests |-> [before[q] EXCEPT !.quiet = @ /\ ~InServe(q)]]
  /\ UNCHANGED <<routes, defaultRoute, unbindRoute, call, reqVars>>

\* append stores the new length, then the element ...
appendLenUnlocks(c) ==
  /\ call[c].kind = "route"
  /\ CallGoto(c, "locked", "storing")
  /\ routes' = Append(routes, Blank)
  /\ mu' = Nobody
  /\ UNCHANGED <<defaultRoute, unbindRoute, call, reqVars, before>>
appendLen(c) ==
  /\ call[c].kind = "route"
  /\ CallGoto(c, "locked", "storing")
  /\ routes' = Append(routes, Blank)
  /\ UNCHANGED <<mu, defaultRoute, unbindRoute, call, reqVars, before>>

\* ... and the deferred unlock follows.
appendRoute(c) ==
  /\ call[c].kind = "route"
  /\ CallGoto(c, "storing", "done")
  /\ routes' = [routes EXCEPT ![Len(routes)] = newRoute(c, call[c])]
  /\ mu' = Nobody
  /\ UNCHANGED <<defaultRoute, unbindRoute, call, reqVars, before>>

\* The first assignment of an interface changes its type before its data.
DefaultRoute(c) ==
  /\ call[c].kind = "default"
  /\ \/ /\ CallGoto(c, "locked", "storing")
        /\ defaultRoute' = IF defaultRoute = Nobody THEN Blank ELSE defaultRoute
        /\ UNCHANGED mu
     \/ /\ CallGoto(c, "storing", "done")
        /\ defaultRoute' = c
        /\ mu' = Nobody
  /\ UNCHANGED <<routes, unbindRoute, call, reqVars, before>>

Unbind(c) ==
  /\ call[c].kind = "unbind"
  /\ \/ /\ CallGoto(c, "locked", "storing")
        /\ unbindRoute' = IF unbindRoute = Nobody THEN Blank ELSE unbindRoute
        /\ UNCHANGED mu
     \/ /\ CallGoto(c, "storing", "done")
        /\ unbindRoute' = c
        /\ mu' = Nobody
  /\ UNCHANGED <<routes, defaultRoute, call, reqVars, before>>
-----------------------------------------------------------------------------
(* Serving.  A goroutine serves an unbind request with the unbind route,   *)
(* any other request through serve.                                        *)

\* newRequest: the operation of a message, and its name if it is extended.
routeOp(m) == m.type
extendedName(m) == IF m.type = "extendedOperation" THEN m.name ELSE Unset

\* The match method of each type of route.
matchSearch(r, m) ==
  /\ r.basedn # Unset => EqualFold(m.basedn, r.basedn)
  /\ r.filter # Unset => EqualFold(m.filter, r.filter)
  /\ r.scope # 0 => m.scope = r.scope

match(r, m) ==
  /\ r.op = routeOp(m)
  /\ r.op = "extendedOperation" => r.ext = extendedName(m)
  /\ r.op = "search" => matchSearch(r, m)

matches(i, q) == routes[i] # Blank /\ match(routes[i], msg[q])
passes(i, q) == routes[i] # Blank /\ ~match(routes[i], msg[q])

Started ==
  [slots |-> Cardinality(Stored), dflt |-> defaultRoute \in Callers, quiet |-> mu = Nobody]

\* The range statement loads the slice once.
serve(q) ==
  /\ msg[q].type # "unbind"
  /\ ReqGoto(q, "start", "range")
  /\ seen' = [seen EXCEPT ![q] = [len |-> Len(routes), stored |-> Cardinality(Stored)]]
  /\ before' = [before EXCEPT ![q] = Started]
  /\ UNCHANGED <<muxVars, callVars, msg, outcome>>

End(q, from, by, i) ==
  /\ ReqGoto(q, from, "end")
  /\ outcome' = [outcome EXCEPT ![q] = Outcome(by, i)]
  /\ UNCHANGED <<muxVars, callVars, msg, seen, before>>

\* The first route that matches handles the request.
serveRouteAny(q) == \E i \in 1..seen[q].len : matches(i, q) /\ End(q, "range", "route", i)
serveRoute(q) ==
  \E i \in 1..seen[q].len :
    /\ matches(i, q)
    /\ \A j \in 1..(i - 1) : passes(j, q)
    /\ End(q, "range", "route", i)

\* A slot that was not stored when the slice was loaded may be nil, or lie
\* beyond the array that was loaded.
servePanic(q) ==
  /\ seen[q].stored < seen[q].len
  /\ \A j \in 1..seen[q].stored : passes(j, q)
  /\ End(q, "range", "panic", 0)

\* No route matches: the default route, if there is one.
serveNoneShort(q) ==
  /\ \A j \in 1..(seen[q].len - 1) : passes(j, q)
  /\ \/ defaultRoute # Nobody /\ ReqGoto(q, "range", "default")
        /\ UNCHANGED <<muxVars, callVars, msg, seen, outcome, before>>
     \/ defaultRoute = Nobody /\ End(q, "range", "refused", 0)
serveNone(q) ==
  /\ \A j \in 1..seen[q].len : passes(j, q)
  /\ \/ defaultRoute # Nobody /\ ReqGoto(q, "range", "default")
        /\ UNCHANGED <<muxVars, callVars, msg, seen, outcome, before>>
     \/ defaultRoute = Nobody /\ End(q, "range", "refused", 0)

serveDefault(q) ==
  \/ defaultRoute = Blank /\ End(q, "default", "panic", 0)
  \/ defaultRoute # Blank /\ End(q, "default", "default", 0)

\* The unbind case of serveRequests.
serveUnbind(q) ==
  /\ msg[q].type = "unbind"
  /\ \/ /\ unbindRoute # Nobody
        /\ ReqGoto(q, "start", "unbind")
        /\ before' = [before EXCEPT ![q] = Started]
        /\ UNCHANGED <<muxVars, callVars, msg, seen, outcome>>
     \/ unbindRoute = Nobody /\ End(q, "start", "ignored", 0)
     \/ unbindRoute = Blank /\ End(q, "unbind", "panic", 0)
     \/ unbindRoute \in Callers /\ End(q, "unbind", "unbind", 0)
-----------------------------------------------------------------------------
Register(c) ==
  registerNil(c) \/ lock(c) \/ appendLen(c) \/ appendRoute(c) \/ DefaultRoute(c) \/ Unbind(c)

Serve(q) ==
  \/ serve(q) \/ serveRoute(q) \/ servePanic(q) \/ serveNone(q) \/ serveDefault(q)
  \/ serveUnbind(q)

Next == (\E c \in Callers : Register(c)) \/ (\E q \in Requests : Serve(q))

Spec == Init /\ [][Next]_vars
-----------------------------------------------------------------------------
CallPCs == {"start", "locked", "storing", "done", "failed"}
ReqPCs == {"start", "range", "default", "unbind", "end"}

(* The variables of the Mux, of the callers and of the requests keep their *)
(* types; only the slot being appended can be blank.                       *)
TypeOK ==
  /\ mu \in Callers \cup {Nobody}
  /\ \A i \in 1..Len(routes) : routes[i] = Blank \/ routes[i].h \in Callers
  /\ {defaultRoute, unbindRoute} \subseteq Callers \cup {Nobody, Blank}
  /\ callPc \in [Callers -> CallPCs]
  /\ reqPc \in [Requests -> ReqPCs]
  /\ \A q \in Requests : seen[q].stored <= seen[q].len /\ seen[q].len <= seen[q].stored + 1

(* "Routes are matched in the order they're added and only one route is    *)
(* called per request": the route that served a request matches it and no  *)
(* route added before it does, whatever was being added meanwhile.         *)
FirstMatch ==
  \A q \in Requests : outcome[q].by = "route" =>
    /\ match(routes[outcome[q].slot], msg[q])
    /\ \A j \in 1..(outcome[q].slot - 1) : ~match(routes[j], msg[q])

(* serve falls back only if it must: a request that is left to the default *)
(* route, or refused, has no route that was registered when it came in, and *)
(* it is not refused if there was a default route.                         *)
NoHandlerMissed ==
  \A q \in Requests : outcome[q].by \in {"default", "refused"} =>
    /\ \A i \in 1..before[q].slots : ~match(routes[i], msg[q])
    /\ outcome[q].by = "refused" => ~before[q].dflt

\* Where the handler of a call is found by serve.
Registered(c) ==
  CASE call[c].kind = "route" -> \E i \in Stored : routes[i].h = c
    [] call[c].kind = "default" -> defaultRoute \in Callers
    [] call[c].kind = "unbind" -> unbindRoute \in Callers

(* m.mu: no registration is lost, however many goroutines register, and a  *)
(* nil handler is never registered.                                        *)
RegisteredStays ==
  \A c \in Callers :
    /\ callPc[c] = "done" => call[c].fn /\ Registered(c)
    /\ callPc[c] = "failed" => \A i \in Stored : routes[i].h # c

(* Reading the routes without m.mu is harmless as long as nothing is being *)
(* registered: a request served in such a time does not panic.             *)
PanicNeedsRegistration ==
  \A q \in Requests : outcome[q].by = "panic" => ~before[q].quiet
=============================================================================
