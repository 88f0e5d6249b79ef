------------------------------ MODULE ConnLife ------------------------------
(***************************************************************************)
(* What a connection promises to the handlers and to the on-close callback, *)
(* without sockets, packets, locks or counters.  A connection takes its    *)
(* requests in order, handles several at a time, handles one of them alone *)
(* when it has to, takes none any more once it is draining, is closed when *)
(* none is left, and is reported last.  Conn implements this.              *)
(***************************************************************************)
EXTENDS Naturals

CONSTANTS
  ConnIDs,  \* connection numbers
  ReqIDs    \* request numbers of a connection

VARIABLES
  phase,    \* how far each connection is
  taken,    \* the requests it has taken
  handling, \* those being handled
  alone,    \* those that keep it from taking another one
  crashed   \* the process has ended

lifeVars == <<phase, taken, handling, alone, crashed>>

Phases == {"none", "serving", "draining", "closed", "reported"}

Init ==
  /\ phase = [c \in ConnIDs |-> "none"]
  /\ taken = [c \in ConnIDs |-> {}]
  /\ handling = [c \in ConnIDs |-> {}]
  /\ alone = [c \in ConnIDs |-> {}]
  /\ crashed = FALSE

Up == ~crashed /\ UNCHANGED crashed

Move(c, from, to) ==
  /\ phase[c] = from
  /\ phase' = [phase EXCEPT ![c] = to]

Open(c) ==
  /\ Up
  /\ Move(c, "none", "serving")
  /\ UNCHANGED <<taken, handling, alone>>

\* A request is later than all before it, and none is alone on the connection.
Later(c, n) ==
  /\ phase[c] = "serving"
  /\ alone[c] = {}
  /\ \A m \in taken[c] : m < n
  /\ taken' = [taken EXCEPT ![c] = @ \cup {n}]

Take(c, n) ==
  /\ Up
  /\ Later(c, n)
  /\ handling' = [handling EXCEPT ![c] = @ \cup {n}]
  /\ UNCHANGED <<phase, alone>>

TakeAlone(c, n) ==
  /\ Up
  /\ Later(c, n)
  /\ handling' = [handling EXCEPT ![c] = @ \cup {n}]
  /\ alone' = [alone EXCEPT ![c] = {n}]
  /\ UNCHANGED phase

\* The last request of a connection, for which there may be no handler.
TakeLast(c, n) ==
  /\ Up
  /\ Later(c, n)
  /\ Move(c, "serving", "draining")
  /\ \/ handling' = [handling EXCEPT ![c] = @ \cup {n}]
     \/ UNCHANGED handling
  /\ UNCHANGED alone

\* A handler ends.  If it panics the connection, or the process, ends too.
End(c, n) ==
  /\ ~crashed
  /\ crashed' \in BOOLEAN
  /\ n \in handling[c]
  /\ handling' = [handling EXCEPT ![c] = @ \ {n}]
  /\ alone' = [alone EXCEPT ![c] = @ \ {n}]
  /\ \/ UNCHANGED phase
     \/ n \in alone[c] /\ Move(c, "serving", "draining")
  /\ UNCHANGED taken

Drain(c) ==
  /\ Up
  /\ Move(c, "serving", "draining")
  /\ alone[c] = {}
  /\ UNCHANGED <<taken, handling, alone>>

Close(c) ==
  /\ Up
  /\ Move(c, "draining", "closed")
  /\ handling[c] = {}
  /\ UNCHANGED <<taken, handling, alone>>

Report(c) ==
  /\ ~crashed
  /\ crashed' \in BOOLEAN
  /\ Move(c, "closed", "reported")
  /\ UNCHANGED <<taken, handling, alone>>

Crash ==
  /\ ~crashed
  /\ crashed' = TRUE
  /\ UNCHANGED <<phase, taken, handling, alone>>

Next ==
  \/ \E c \in ConnIDs : Open(c) \/ Drain(c) \/ Close(c) \/ Report(c)
  \/ \E c \in ConnIDs, n \in ReqIDs :
       Take(c, n) \/ TakeAlone(c, n) \/ TakeLast(c, n) \/ End(c, n)
  \/ Crash

Spec == Init /\ [][Next]_lifeVars

\* A connection with no request left is closed, and a closed one reported.
FairSpec ==
  /\ Spec
  /\ \A c \in ConnIDs : WF_lifeVars(Close(c)) /\ WF_lifeVars(Report(c))
=============================================================================
