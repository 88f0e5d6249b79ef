----------------------------- MODULE Directory ------------------------------
(***************************************************************************)
(* The test directory: its users and groups, the handlers that bind,       *)
(* search, modify, add and delete entries, each in the goroutine of its    *)
(* request, and the Set functions and getters called by the test meanwhile. *)
(*                                                                         *)
(* A handler looks entries up without d.mu and takes it only to change     *)
(* something.  So the two slices are modelled as Go has them: a header     *)
(* (array and length) and arrays of slots.  A loop loads the header once   *)
(* and reads the slots one by one; a header is stored word by word; append *)
(* stores the length before the element, and delete shifts the slots of    *)
(* the array it shares with every loop that is under way.                  *)
(***************************************************************************)
EXTENDS Naturals, Sequences

CONSTANTS
  Requests,      \* goroutines, each handles one request or calls one function
  Ops,           \* what they may do
  Entries,       \* the entries that exist from the start
  dnOf,          \* their distinguished names
  memberOf,      \* the member attributes of groups: a sequence of texts
  Defaults,      \* what Start is given: Users, Groups, TokenGroups, AllowAnonymousBind
  UserDN,        \* base of the users
  Contains(_, _),\* strings.Contains on the texts of the model
  Serial,        \* whether a request waits for the answer of the one before
  Nil            \* a slot not stored, the holder of a free mutex

Lists == {"users", "groups"}
SetKinds == {"SetUsers", "SetGroups", "SetTokenGroups", "SetAllowAnonymousBind", "SetControls"}
GetKinds == {"Users", "Groups", "TokenGroups", "AllowAnonymousBind", "Controls"}
Refs == Entries \cup Requests   \* an added entry is named after its request

ASSUME DirectoryAssumption ==
  /\ Nil \notin Refs /\ Entries \cap Requests = {}
  /\ dnOf \in [Entries -> STRING]
  /\ Defaults.Users \in Seq(Entries) /\ Defaults.Groups \in Seq(Entries)
  /\ Defaults.AllowAnonymousBind \in BOOLEAN
  /\ Serial \in BOOLEAN
  /\ \A op \in Ops :
       /\ op.kind \in {"SetUsers", "SetGroups"} => op.entries \in Seq(Entries)
       /\ op.kind \in {"SetAllowAnonymousBind", "SetControls"} => op.enabled \in BOOLEAN

VARIABLES
  list,        \* d.users and d.groups: their headers
  arrays,      \* the arrays allocated so far
  attrs,       \* the attributes of the entries
  tokenGroups, \* the SIDs that have token groups
  allowAnonymousBind,
  controls,    \* whether d.controls is not nil
  mu,          \* the goroutine holding d.mu
  pc,          \* where each goroutine is
  req,         \* its request
  on,          \* the list it loops over or changes
  hdr,         \* the header its loop has loaded
  pos,         \* the next slot of its loop
  found,       \* what the loop has found: slots and entries
  next,        \* the header it is storing
  reply,       \* the result code of its response
  removed,     \* history: the entry it removed
  crashed      \* a handler has panicked

listVars == <<list, arrays>>
setVars == <<attrs, tokenGroups, allowAnonymousBind, controls>>
loopVars == <<on, hdr, pos, found>>
vars == <<listVars, setVars, loopVars, mu, pc, req, next, reply, removed, crashed>>

NoHeader == [arr |-> 0, len |-> 0]

\* Start copies the defaults but TokenGroups.
Init ==
  /\ list = [users |-> [arr |-> 1, len |-> Len(Defaults.Users)],
             groups |-> [arr |-> 2, len |-> Len(Defaults.Groups)]]
  /\ arrays = <<Defaults.Users, Defaults.Groups>>
  /\ attrs = [e \in Refs |-> [a \in {"password"} |-> <<"pw">>]]
  /\ tokenGroups = {}
  /\ allowAnonymousBind = Defaults.AllowAnonymousBind
  /\ controls = FALSE
  /\ mu = Nil
  /\ pc = [q \in Requests |-> "start"]
  /\ req \in [Requests -> Ops]
  /\ on = [q \in Requests |-> "users"]
  /\ hdr = [q \in Requests |-> NoHeader]
  /\ pos = [q \in Requests |-> 1]
  /\ found = [q \in Requests |-> <<>>]
  /\ next = [q \in Requests |-> NoHeader]
  /\ reply = [q \in Requests |-> "none"]
  /\ removed = [q \in Requests |-> Nil]
  /\ crashed = FALSE

Up == ~crashed /\ UNCHANGED crashed

DN(e) == IF e \in Requests THEN req[e].dn ELSE dnOf[e]

Goto(q, from, to) ==
  /\ pc[q] = from
  /\ pc' = [pc EXCEPT ![q] = to]

\* A loop or find evaluates its slice: the header is loaded.
loadHeader(q, l) ==
  /\ on' = [on EXCEPT ![q] = l]
  /\ hdr' = [hdr EXCEPT ![q] = list[l]]
  /\ pos' = [pos EXCEPT ![q] = 1]

\* The deferred write of the response.
Answer(q, from, code) ==
  /\ Goto(q, from, "end")
  /\ reply' = [reply EXCEPT ![q] = code]

\* A panic of a handler runs its deferred calls and ends the process.
Panic(q, from) ==
  /\ Answer(q, from, "panic")
  /\ crashed' = TRUE

muFreeNoLock == TRUE
muFree == mu = Nil

unlockForgotten == UNCHANGED mu
unlock == mu' = Nil
-----------------------------------------------------------------------------
(* Looking entries up.                                                     *)

\* The elements of the filter a handler uses: the request's own filter, or its
\* DN in parentheses.  handleModify looks in the groups with a bare DN, which
\* has no element.
filter(q) ==
  CASE req[q].kind \in {"searchUsers", "searchGroups"} -> req[q].filter
    [] req[q].kind = "searchGeneric" ->
         IF Contains(req[q].dn, UserDN) THEN {req[q].dn} ELSE req[q].filter
    [] req[q].kind = "modify" /\ on[q] = "groups" -> {}
    [] OTHER -> {req[q].dn}

match(f, text) == \E element \in f : Contains(text, element)

slot(q) ==
  LET a == arrays[hdr[q].arr]
  IN  IF pos[q] <= Len(a) THEN a[pos[q]] ELSE Nil

LoopingPast(q) == pc[q] \in {"find", "findMembers", "bind"} /\ pos[q] <= hdr[q].len + 1
Looping(q) == pc[q] \in {"find", "findMembers", "bind"} /\ pos[q] <= hdr[q].len

\* The searches of groups skip what they have found before.
Skipped(q, e) ==
  /\ req[q].kind \in {"searchGroups", "searchGeneric"}
  /\ on[q] = "groups"
  /\ \E k \in 1..Len(found[q]) : found[q][k].e = e

\* One round of the loop of find, or of a search of groups.
find(q) ==
  /\ Up
  /\ Looping(q)
  /\ pc[q] = "find"
  /\ slot(q) # Nil
  /\ IF match(filter(q), DN(slot(q))) /\ ~Skipped(q, slot(q))
       THEN found' = [found EXCEPT ![q] = Append(@, [at |-> pos[q], e |-> slot(q)])]
       ELSE UNCHANGED found
  /\ pos' = [pos EXCEPT ![q] = @ + 1]
  /\ UNCHANGED <<listVars, setVars, on, hdr, mu, pc, req, next, reply, removed>>

\* One round of findMembers: a group is found once for each member that matches.
findMembers(q) ==
  /\ Up
  /\ Looping(q)
  /\ pc[q] = "findMembers"
  /\ slot(q) # Nil
  /\ LET e == slot(q)
         hits == SelectSeq(memberOf[e], LAMBDA m : match(req[q].filter, m))
     IN  found' = [found EXCEPT ![q] =
                     @ \o [k \in 1..Len(hits) |-> [at |-> pos[q], e |-> e]]]
  /\ pos' = [pos EXCEPT ![q] = @ + 1]
  /\ UNCHANGED <<listVars, setVars, on, hdr, mu, pc, req, next, reply, removed>>

\* A slot that is not stored, or lies beyond the array, is no entry.
nilEntry(q) ==
  /\ ~crashed
  /\ Looping(q)
  /\ slot(q) = Nil
  /\ Panic(q, pc[q])
  /\ UNCHANGED <<listVars, setVars, loopVars, mu, req, next, removed>>
-----------------------------------------------------------------------------
(* The handlers up to the point where they answer or want the lock.        *)

Found(q) == {found[q][k].e : k \in 1..Len(found[q])}

\* In a serial run a request comes when the one before is answered.
Turn(q) == Serial => \A p \in Requests : pc[p] \in {"start", "end"}

\* A bind without password may be anonymous, and a search for a SID is answered
\* from the token groups if there are any.
Immediate(q) ==
  \/ req[q].kind = "bind" /\ req[q].password = "" /\ allowAnonymousBind
  \/ req[q].kind = "searchGeneric" /\ req[q].sid /\ tokenGroups # {}

\* A handler answers at once or starts its first loop; a Set function goes
\* straight to the lock.
begin(q) ==
  /\ Up
  /\ Turn(q)
  /\ \/ /\ Immediate(q)
        /\ Answer(q, "start", "success")
        /\ UNCHANGED loopVars
     \/ /\ ~Immediate(q)
        /\ \/ /\ req[q].kind = "bind"
              /\ Goto(q, "start", "bind") /\ loadHeader(q, "users")
           \/ /\ req[q].kind = "searchGroups"
              /\ Goto(q, "start", "findMembers") /\ loadHeader(q, "groups")
           \/ /\ req[q].kind \in {"searchUsers", "searchGeneric", "modify", "add", "delete"}
              /\ Goto(q, "start", "find") /\ loadHeader(q, "users")
        /\ UNCHANGED <<found, reply>>
     \/ /\ req[q].kind \in SetKinds
        /\ Goto(q, "start", "lock")
        /\ UNCHANGED <<loopVars, reply>>
  /\ UNCHANGED <<listVars, setVars, mu, req, next, removed>>

\* The getters return what is there without d.mu: a slice is its header, and its
\* array stays shared.  history: whether somebody was changing it.
get(q) ==
  /\ Up
  /\ Turn(q)
  /\ req[q].kind \in GetKinds
  /\ Answer(q, "start", IF mu = Nil THEN "got" ELSE "gotMeanwhile")
  /\ \/ req[q].kind = "Users" /\ loadHeader(q, "users")
     \/ req[q].kind = "Groups" /\ loadHeader(q, "groups")
     \/ req[q].kind \notin {"Users", "Groups"} /\ UNCHANGED <<on, hdr, pos>>
  /\ UNCHANGED <<listVars, setVars, found, mu, req, next, removed>>

\* Whether a bind finds its password first among those of the entry.  It is open
\* what a loop over attributes sees while a modify is shifting them.
Password(q, e) ==
  {"password" \in DOMAIN attrs[e] /\ attrs[e].password # <<>>
     /\ Head(attrs[e].password) = req[q].password}
  \cup {b \in BOOLEAN : \E p \in Requests : pc[p] = "locked" /\ req[p].kind = "modify" /\ e \in Found(p)}

\* One round of the loop of handleBind.
handleBind(q) ==
  /\ Up
  /\ Looping(q)
  /\ pc[q] = "bind"
  /\ slot(q) # Nil
  /\ \/ /\ DN(slot(q)) = req[q].dn
        /\ TRUE \in Password(q, slot(q))
        /\ controls => muFree
        /\ Answer(q, "bind", "success")
        /\ UNCHANGED pos
     \/ /\ DN(slot(q)) = req[q].dn => FALSE \in Password(q, slot(q))
        /\ pos' = [pos EXCEPT ![q] = @ + 1]
        /\ UNCHANGED <<pc, reply>>
  /\ UNCHANGED <<listVars, setVars, on, hdr, found, mu, req, next, removed>>

LoopDoneEarly(q, at) == pc[q] = at /\ pos[q] >= hdr[q].len
LoopDone(q, at) == pc[q] = at /\ pos[q] > hdr[q].len

\* The loop is over and another one follows: findMembers leads to the groups
\* themselves, a generic search goes through both lists, and modify and delete
\* turn to the groups when no user matches.
nextLoop(q) ==
  /\ Up
  /\ \/ LoopDone(q, "findMembers")
     \/ /\ LoopDone(q, "find")
        /\ on[q] = "users"
        /\ \/ req[q].kind = "searchGeneric"
           \/ req[q].kind \in {"modify", "delete"} /\ found[q] = <<>>
  /\ pc' = [pc EXCEPT ![q] = "find"]
  /\ loadHeader(q, "groups")
  /\ UNCHANGED <<listVars, setVars, found, mu, req, next, reply, removed>>

\* The last loop is over.
LastLoopDone(q) ==
  /\ LoopDone(q, "find")
  /\ req[q].kind = "searchGeneric" => on[q] = "groups"
  /\ req[q].kind \in {"modify", "delete"} /\ found[q] = <<>> => on[q] = "groups"

\* The result code of a handler that changes nothing.
refusal(q) ==
  CASE req[q].kind = "add" -> "entryAlreadyExists"
    [] req[q].kind \in {"modify", "delete"} /\ Len(found[q]) > 1 -> "inappropriateMatching"
    [] OTHER -> "noSuchObject"

RefusedNoCheck(q) == req[q].kind \in {"modify", "delete"} /\ Len(found[q]) # 1
Refused(q) ==
  \/ req[q].kind \in {"searchUsers", "searchGroups", "searchGeneric"} /\ found[q] = <<>>
  \/ req[q].kind \in {"modify", "delete"} /\ Len(found[q]) # 1
  \/ req[q].kind = "add" /\ found[q] # <<>>

handleSearch(q) ==
  /\ Up
  /\ LastLoopDone(q)
  /\ req[q].kind \in {"searchUsers", "searchGroups", "searchGeneric"}
  /\ ~Refused(q)
  /\ controls => muFree
  /\ Answer(q, "find", "success")
  /\ UNCHANGED <<listVars, setVars, loopVars, mu, req, next, removed>>

\* An entry cannot be written: the search ends without the lock, and its own
\* response goes to the same broken writer.  A SID may have no entry to write;
\* the model does not tell.
writeError(q) ==
  /\ Up
  /\ req[q].kind \in {"searchUsers", "searchGroups", "searchGeneric"}
  /\ \/ Turn(q) /\ Immediate(q) /\ Answer(q, "start", "unwritten")
     \/ LastLoopDone(q) /\ ~Refused(q) /\ Answer(q, "find", "unwritten")
  /\ UNCHANGED <<listVars, setVars, loopVars, mu, req, next, removed>>

refuse(q) ==
  /\ Up
  /\ \/ /\ LastLoopDone(q)
        /\ Refused(q)
        /\ Answer(q, "find", refusal(q))
     \/ /\ LoopDone(q, "bind")
        /\ Answer(q, "bind", "invalidCredentials")
  /\ UNCHANGED <<listVars, setVars, loopVars, mu, req, next, removed>>

\* The handlers that change something take the lock with what they have found.
lock(q) ==
  /\ Up
  /\ \/ /\ LastLoopDone(q)
        /\ req[q].kind \in {"modify", "add", "delete"}
        /\ ~Refused(q)
     \/ pc[q] = "lock"
  /\ muFree
  /\ mu' = q
  /\ pc' = [pc EXCEPT ![q] = "locked"]
  /\ UNCHANGED <<listVars, setVars, loopVars, req, next, reply, removed>>
-----------------------------------------------------------------------------
(* What they do under the lock.  The deferred unlock comes before the      *)
(* deferred write of the response.                                         *)

\* One change of a modify request.  Replace assigns to the local pointer.
change(a, c) ==
  CASE c.op = "add" -> [n \in DOMAIN a \cup {c.type} |->
                          IF n # c.type THEN a[n]
                          ELSE IF n \in DOMAIN a THEN a[n] \o c.vals ELSE c.vals]
    [] c.op = "delete" -> [n \in DOMAIN a \ {c.type} |-> a[n]]
    [] c.op = "replace" -> a

handleModify(q) ==
  /\ Up
  /\ req[q].kind = "modify" /\ pc[q] = "locked"
  /\ LET e == found[q][1].e
         after[k \in 0..Len(req[q].changes)] ==
           IF k = 0 THEN attrs[e] ELSE change(after[k - 1], req[q].changes[k])
     IN  attrs' = [attrs EXCEPT ![e] = after[Len(req[q].changes)]]
  /\ unlock
  /\ Answer(q, "locked", "success")
  /\ UNCHANGED <<listVars, tokenGroups, allowAnonymousBind, controls, loopVars, req, next, removed>>

\* The words of a header are stored one by one: one of them is there already.
Half(old, new) == {[old EXCEPT !.arr = new.arr], [old EXCEPT !.len = new.len]}

\* growslice: the capacity doubles.
grown(a) == a \o [k \in 1..(IF a = <<>> THEN 1 ELSE Len(a)) |-> Nil]

\* append with room in the array stores the length; without, it stores the
\* header of a larger copy.
appendUser(q) ==
  LET h == list["users"]
      a == arrays[h.arr]
  IN  /\ Up
      /\ req[q].kind = "add"
      /\ \/ /\ h.len < Len(a)
            /\ Goto(q, "locked", "element")
            /\ next' = [next EXCEPT ![q] = [h EXCEPT !.len = @ + 1]]
            /\ list' = [list EXCEPT !["users"].len = @ + 1]
            /\ UNCHANGED arrays
         \/ /\ h.len = Len(a)
            /\ Goto(q, "locked", "header")
            /\ arrays' = Append(arrays, grown(a))
            /\ next' = [next EXCEPT ![q] = [arr |-> Len(arrays) + 1, len |-> h.len + 1]]
            /\ \E w \in Half(h, next'[q]) : list' = [list EXCEPT !["users"] = w]
      /\ UNCHANGED <<setVars, loopVars, mu, req, reply, removed>>

\* The element comes last.
handleAdd(q) ==
  /\ Up
  /\ Answer(q, "element", "success")
  /\ arrays' = [arrays EXCEPT ![next[q].arr][next[q].len] = q]
  /\ attrs' = [attrs EXCEPT ![q] = req[q].attrs]
  /\ unlock
  /\ UNCHANGED <<list, tokenGroups, allowAnonymousBind, controls, loopVars, req, next, removed>>

\* delete shifts the slots after the one it has found, in place ...
shiftOne(a, at, len) == [k \in 1..Len(a) |-> IF k \in (at + 1)..(len - 1) THEN a[k + 1] ELSE a[k]]
shiftClear(a, at, len) ==
  [k \in 1..Len(a) |-> IF k = len THEN Nil ELSE IF k \in at..(len - 1) THEN a[k + 1] ELSE a[k]]
shift(a, at, len) == [k \in 1..Len(a) |-> IF k \in at..(len - 1) THEN a[k + 1] ELSE a[k]]

foundAtNext(q) == found[q][1].at + 1
foundAt(q) == found[q][1].at

deleteShift(q) ==
  LET h == list[on[q]]
      at == foundAt(q)
  IN  /\ ~crashed
      /\ req[q].kind = "delete" /\ pc[q] = "locked"
      /\ \/ /\ at <= h.len
            /\ Goto(q, "locked", "shifted")
            /\ removed' = [removed EXCEPT ![q] = arrays[h.arr][at]]
            /\ arrays' = [arrays EXCEPT ![h.arr] = shift(@, at, h.len)]
            /\ next' = [next EXCEPT ![q] = [h EXCEPT !.len = @ - 1]]
            /\ UNCHANGED <<mu, reply, crashed>>
         \/ /\ at > h.len
            /\ Panic(q, "locked")
            /\ unlock
            /\ UNCHANGED <<arrays, next, removed>>
      /\ UNCHANGED <<list, setVars, loopVars, req>>

\* ... and stores the shorter length.
handleDelete(q) ==
  /\ Up
  /\ Answer(q, "shifted", "success")
  /\ list' = [list EXCEPT ![on[q]] = next[q]]
  /\ unlock
  /\ UNCHANGED <<arrays, setVars, loopVars, req, next, removed>>

\* SetUsers and SetGroups store the header of the caller's slice.
setList(q, kind, l) ==
  /\ Up
  /\ req[q].kind = kind
  /\ Goto(q, "locked", "header")
  /\ arrays' = Append(arrays, req[q].entries)
  /\ next' = [next EXCEPT ![q] = [arr |-> Len(arrays) + 1, len |-> Len(req[q].entries)]]
  /\ on' = [on EXCEPT ![q] = l]
  /\ \E w \in Half(list[l], next'[q]) : list' = [list EXCEPT ![l] = w]
  /\ UNCHANGED <<setVars, hdr, pos, found, mu, req, reply, removed>>

\* The header is complete; an append goes on with its element.
storeHeader(q) ==
  /\ Up
  /\ list' = [list EXCEPT ![on[q]] = next[q]]
  /\ \/ /\ req[q].kind = "add"
        /\ Goto(q, "header", "element")
        /\ UNCHANGED <<mu, reply>>
     \/ /\ req[q].kind \in SetKinds
        /\ Answer(q, "header", "set")
        /\ unlock
  /\ UNCHANGED <<arrays, setVars, loopVars, req, next, removed>>

\* The other settings are single words.
setWord(q) ==
  /\ Up
  /\ Answer(q, "locked", "set")
  /\ \/ /\ req[q].kind = "SetTokenGroups"
        /\ tokenGroups' = req[q].sids
        /\ UNCHANGED <<allowAnonymousBind, controls>>
     \/ /\ req[q].kind = "SetAllowAnonymousBind"
        /\ allowAnonymousBind' = req[q].enabled
        /\ UNCHANGED <<tokenGroups, controls>>
     \/ /\ req[q].kind = "SetControls"
        /\ controls' = req[q].enabled
        /\ UNCHANGED <<tokenGroups, allowAnonymousBind>>
  /\ unlock
  /\ UNCHANGED <<listVars, attrs, loopVars, req, next, removed>>
-----------------------------------------------------------------------------
Look(q) ==
  \/ begin(q) \/ get(q) \/ find(q) \/ findMembers(q) \/ handleBind(q) \/ nilEntry(q)
  \/ nextLoop(q) \/ handleSearch(q) \/ writeError(q) \/ refuse(q)

Change(q) ==
  \/ handleModify(q) \/ appendUser(q) \/ handleAdd(q) \/ deleteShift(q) \/ handleDelete(q)
  \/ setList(q, "SetUsers", "users") \/ setList(q, "SetGroups", "groups")
  \/ storeHeader(q) \/ setWord(q)

Next == \E q \in Requests : Look(q) \/ lock(q) \/ Change(q)

Spec == Init /\ [][Next]_vars

\* Goroutines are scheduled and the mutex, free again and again, is handed over.
\* No write has to fail.
FairSpec ==
  /\ Spec
  /\ \A q \in Requests :
       /\ WF_vars((Look(q) /\ ~writeError(q)) \/ Change(q))
       /\ SF_vars(lock(q) \/ handleSearch(q) \/ handleBind(q))
-----------------------------------------------------------------------------
Codes == {"none", "success", "noSuchObject", "inappropriateMatching", "entryAlreadyExists",
          "invalidCredentials", "unwritten", "panic", "set", "got", "gotMeanwhile"}
PCs == {"start", "bind", "findMembers", "find", "lock", "locked", "header", "element",
        "shifted", "end"}
Header == [arr : Nat, len : Nat]

(* Every variable keeps its type, and whoever is changing something holds  *)
(* d.mu.                                                                   *)
TypeOK ==
  /\ list \in [Lists -> Header]
  /\ \A a \in 1..Len(arrays) : arrays[a] \in Seq(Refs \cup {Nil})
  /\ DOMAIN attrs = Refs
  /\ allowAnonymousBind \in BOOLEAN /\ controls \in BOOLEAN /\ crashed \in BOOLEAN
  /\ mu \in Requests \cup {Nil}
  /\ pc \in [Requests -> PCs]
  /\ on \in [Requests -> Lists]
  /\ hdr \in [Requests -> Header] /\ next \in [Requests -> Header]
  /\ reply \in [Requests -> Codes]
  /\ removed \in [Requests -> Refs \cup {Nil}]
  /\ \A q \in Requests : pc[q] \in {"locked", "header", "element", "shifted"} => mu = q

Slots(l) == SubSeq(arrays[list[l].arr], 1, list[l].len)
Members(l) == {Slots(l)[k] : k \in 1..list[l].len}
Did(q, kind) == req[q].kind = kind /\ reply[q] = "success"

\* The users that the requests answered so far leave.
UsersLeft ==
  ({Defaults.Users[k] : k \in 1..Len(Defaults.Users)} \cup {q \in Requests : Did(q, "add")})
    \ {removed[q] : q \in {r \in Requests : Did(r, "delete") /\ on[r] = "users"}}

(* The lock of handleAdd and handleDelete: whenever nobody holds it, the   *)
(* users are exactly the ones the directory was started with and the ones  *)
(* whose add was answered, less the one each answered delete has removed,  *)
(* and none is there twice.  No add or delete is lost or half done.        *)
EntriesIntact ==
  mu = Nil /\ ~crashed /\ (\A q \in Requests : req[q].kind = "SetUsers" => reply[q] = "none") =>
    /\ Members("users") = UsersLeft
    /\ \A i, j \in 1..list["users"].len : Slots("users")[i] = Slots("users")[j] => i = j

(* "entry exists for DN": no two users have the same DN, if they had not   *)
(* at the start.                                                           *)
UniqueDN ==
  mu = Nil /\ ~crashed => \A i, j \in 1..list["users"].len :
    DN(Slots("users")[i]) = DN(Slots("users")[j]) => i = j

(* handleDelete and handleModify change one entry, the only one their DN   *)
(* matches: no other one of the list matches it when a delete or modify is *)
(* answered with success, and a modify never changes a group.              *)
ChangeMatches ==
  [][\A q \in Requests : pc[q] # "end" /\ pc'[q] = "end" /\ reply'[q] = "success" =>
       LET hits(l) == {e \in Members(l)' : match({req[q].dn}, DN(e))}
           changed == {e \in Refs : attrs'[e] # attrs[e]}
       IN  /\ req[q].kind = "delete" => match({req[q].dn}, DN(removed[q])) /\ hits(on[q]) = {}
           /\ req[q].kind = "modify" => \E e \in Refs : hits("users") = {e} /\ changed \subseteq {e}
           /\ req[q].kind # "modify" => changed \subseteq {q}]_vars

(* "we're updating what the ptr points at": after a modify that replaces   *)
(* an attribute of an entry and was answered with success, the attribute   *)
(* has the new values.                                                     *)
ReplaceTakesEffect ==
  \A q \in Requests : Did(q, "modify") =>
    LET a == attrs[found[q][1].e]
    IN  \A k \in 1..Len(req[q].changes) :
          req[q].changes[k].op = "replace" /\ req[q].changes[k].type \in DOMAIN a =>
            a[req[q].changes[k].type] = req[q].changes[k].vals

(* Users and Groups hand out the slice the directory goes on working with. *)
(* What that leaves of it: if nobody was changing the directory at the     *)
(* time, every slot of the slice is an entry and stays one, although       *)
(* deletes shift the entries of the array and adds append to it.           *)
SliceStaysWhole ==
  \A q \in Requests : req[q].kind \in {"Users", "Groups"} /\ reply[q] = "got" =>
    \A k \in 1..hdr[q].len : k <= Len(arrays[hdr[q].arr]) /\ arrays[hdr[q].arr][k] # Nil

(* The loops and slices of the handlers: requests handled one after the    *)
(* other never make a handler panic.                                       *)
NoPanic == ~crashed

(* find: when users are searched and nothing changes meanwhile, an answer  *)
(* that can be written has all the users the filter matches and no other.  *)
SearchComplete ==
  [][\A q \in Requests :
       req[q].kind = "searchUsers" /\ pc[q] # "end" /\ pc'[q] = "end" /\ reply'[q] # "unwritten" =>
         Found(q) = {e \in Members("users") : match(req[q].filter, DN(e))}]_vars

(* Every handler unlocks d.mu and answers: every request that was started  *)
(* comes to the write of its answer, unless a handler has panicked.        *)
EveryRequestAnswered ==
  \A q \in Requests : pc[q] # "start" ~> crashed \/ pc[q] = "end"
=============================================================================
