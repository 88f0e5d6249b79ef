------------------------- MODULE DirectoryInductive -------------------------
(***************************************************************************)
(* The inductive invariant of the test directory, for any number of        *)
(* requests running concurrently, any entries and any operations, and the  *)
(* proof that every step keeps it.                                         *)
(*                                                                         *)
(* The idea: whoever holds d.mu is the only one to change the slices, so   *)
(* at every moment, also while a header is half stored or the slots are    *)
(* being shifted, each list has definite contents.  They change in one     *)
(* step of each add, delete and Set, whatever the loops without the lock   *)
(* see meanwhile.                                                          *)
(***************************************************************************)
EXTENDS Directory, TLAPS

Changing == {"locked", "header", "element", "shifted"}
Loops == {"find", "findMembers", "bind"}
FindKinds == {"searchUsers", "searchGroups", "searchGeneric", "modify", "add", "delete"}

\* The header of list l when the one who holds d.mu has stored its words, less
\* the slot an add has not stored yet.
Current(l) ==
  IF mu = Nil \/ pc[mu] = "locked" \/ on[mu] # l THEN list[l]
  ELSE IF req[mu].kind = "add" THEN [arr |-> next[mu].arr, len |-> next[mu].len - 1]
  ELSE next[mu]

\* The k-th entry of list l.
Entry(l, k) == arrays[Current(l).arr][k]

\* What the types leave open: the loops work on arrays that exist.
DirectoryTypes ==
  /\ TypeOK
  /\ arrays \in Seq(Seq(Refs \cup {Nil}))
  /\ req \in [Requests -> Ops]
  /\ pos \in [Requests -> Nat \ {0}]
  /\ DOMAIN found = Requests
  /\ \A l \in Lists : list[l].arr \in 1..Len(arrays)
  /\ \A q \in Requests : pc[q] \in Loops => hdr[q].arr \in 1..Len(arrays)

FoundEntry == [at : Nat \ {0}, e : Refs]
FoundType == Seq(FoundEntry)

\* What each goroutine may rely on: who has d.mu is changing something of its
\* own kind, and a delete or a modify does so with the one entry it has found.
RequestInv(q) ==
  /\ mu = q => pc[q] \in Changing
  /\ pc[q] = "header" => req[q].kind \in {"add", "SetUsers", "SetGroups"}
  /\ pc[q] = "element" => req[q].kind = "add"
  /\ pc[q] = "shifted" => req[q].kind = "delete"
  /\ pc[q] = "findMembers" => req[q].kind = "searchGroups"
  /\ pc[q] = "find" => req[q].kind \in FindKinds
  /\ pc[q] = "bind" => req[q].kind = "bind"
  /\ pc[q] = "lock" => req[q].kind \in SetKinds
  /\ req[q].kind = "add" => on[q] = "users"
  /\ pc[q] = "header" /\ req[q].kind = "SetUsers" => on[q] = "users"
  /\ pc[q] = "header" /\ req[q].kind = "SetGroups" => on[q] = "groups"
  /\ req[q].kind \in {"modify", "delete"} => found[q] \in FoundType
  /\ req[q].kind \in {"modify", "delete"} /\ pc[q] \in Changing => Len(found[q]) = 1
  /\ reply[q] = "none" <=> pc[q] # "end"

\* The contents of each list are entries, in an array of its own with room for
\* them, and for the one being added.
ListsInv ==
  /\ \A l \in Lists :
       /\ Current(l) \in Header
       /\ Current(l).arr \in 1..Len(arrays)
       /\ Current(l).len <= Len(arrays[Current(l).arr])
       /\ \A k \in 1..Current(l).len : Entry(l, k) # Nil
  /\ Current("users").arr # Current("groups").arr
  /\ \A q \in Requests : pc[q] \in {"header", "element"} /\ req[q].kind = "add" =>
       next[q].len \in 1..Len(arrays[next[q].arr])
  /\ \A q \in Requests : pc[q] = "element" => list["users"] = next[q]

\* An added entry is stored before it is answered, and nowhere else.
AddedInv ==
  /\ \A a \in 1..Len(arrays) : \A k \in 1..Len(arrays[a]) :
       arrays[a][k] \in Requests => Did(arrays[a][k], "add")
  /\ \A q \in Requests : removed[q] \in Requests => Did(removed[q], "add")

\* A slice that was handed out has an array.
HandedOut ==
  \A q \in Requests : req[q].kind \in {"Users", "Groups"} /\ reply[q] = "got" =>
    hdr[q].arr \in 1..Len(arrays)

DirectoryInv ==
  /\ DirectoryTypes
  /\ \A q \in Requests : RequestInv(q)
  /\ ListsInv
  /\ AddedInv
  /\ HandedOut /\ SliceStaysWhole

\* A step that changes nothing keeps the invariant.
LEMMA StutterKeeps ==
  ASSUME DirectoryInv, UNCHANGED vars
  PROVE  DirectoryInv'
<1>1. /\ UNCHANGED <<arrays, list, attrs, tokenGroups, allowAnonymousBind, controls>>
      /\ UNCHANGED <<mu, pc, on, hdr, pos, found, req, next, reply, removed, crashed>>
  BY DEF vars, listVars, setVars, loopVars
<1>2. TypeOK' /\ DirectoryTypes'
  BY <1>1 DEF DirectoryInv, DirectoryTypes, TypeOK
<1>3. \A q \in Requests : RequestInv(q)'
  BY <1>1 DEF DirectoryInv, RequestInv
<1>4. ListsInv'
  BY <1>1 DEF DirectoryInv, ListsInv, Entry, Current
<1>5. AddedInv'
  BY <1>1 DEF DirectoryInv, AddedInv, Did
<1>6. HandedOut' /\ SliceStaysWhole'
  BY <1>1 DEF DirectoryInv, HandedOut, SliceStaysWhole
<1> QED
  BY <1>2, <1>3, <1>4, <1>5, <1>6 DEF DirectoryInv

\* The invariant, part by part.
LEMMA Parts ==
  ASSUME DirectoryInv
  PROVE  /\ DirectoryTypes /\ (\A q \in Requests : RequestInv(q))
         /\ ListsInv /\ AddedInv /\ HandedOut /\ SliceStaysWhole
  BY Zenon DEF DirectoryInv

\* The types of the directory's fields and of the goroutines' variables.
LEMMA Types ==
  ASSUME DirectoryTypes
  PROVE  /\ list \in [Lists -> Header] /\ arrays \in Seq(Seq(Refs \cup {Nil}))
         /\ crashed \in BOOLEAN /\ mu \in Requests \cup {Nil}
         /\ pc \in [Requests -> PCs] /\ req \in [Requests -> Ops]
         /\ reply \in [Requests -> Codes] /\ on \in [Requests -> Lists]
         /\ hdr \in [Requests -> Header] /\ pos \in [Requests -> Nat \ {0}]
         /\ DOMAIN found = Requests /\ next \in [Requests -> Header]
         /\ removed \in [Requests -> Refs \cup {Nil}]
         /\ Len(arrays) \in Nat /\ "users" \in Lists /\ "groups" \in Lists /\ DOMAIN attrs = Refs
         /\ \A l \in Lists : list[l].arr \in 1..Len(arrays)
         /\ \A q \in Requests : pc[q] \in Loops => hdr[q].arr \in 1..Len(arrays)
         /\ \A q \in Requests : pc[q] \in Changing => mu = q
  BY DEF DirectoryTypes, TypeOK, Lists, Changing

\* The array a list points at holds entries and empty slots.
LEMMA ListArray ==
  ASSUME DirectoryTypes, NEW l \in Lists
  PROVE  /\ list[l] \in Header /\ list[l].len \in Nat
         /\ arrays[list[l].arr] \in Seq(Refs \cup {Nil}) /\ Len(arrays[list[l].arr]) \in Nat
<1>1. list[l] \in Header /\ arrays \in Seq(Seq(Refs \cup {Nil})) /\ list[l].arr \in 1..Len(arrays)
  BY Types, Zenon
<1>2. list[l].len \in Nat
  BY <1>1 DEF Header
<1>3. arrays[list[l].arr] \in Seq(Refs \cup {Nil})
  BY <1>1
<1> QED
  BY <1>1, <1>2, <1>3

\* So does every array.
LEMMA ArrayType ==
  ASSUME DirectoryTypes, NEW a \in 1..Len(arrays)
  PROVE  arrays[a] \in Seq(Refs \cup {Nil}) /\ Len(arrays[a]) \in Nat
<1>1. arrays \in Seq(Seq(Refs \cup {Nil}))
  BY Types, Zenon
<1>2. arrays[a] \in Seq(Refs \cup {Nil})
  BY <1>1
<1> QED
  BY <1>2

\* delete's shift copies slots, it makes up none.
LEMMA ShiftCopies ==
  ASSUME NEW a \in Seq(Refs \cup {Nil}), NEW n \in Nat, n <= Len(a), NEW at \in 1..n
  PROVE  /\ DOMAIN shift(a, at, n) = 1..Len(a)
         /\ \A k \in 1..Len(a) : \E i \in 1..Len(a) : shift(a, at, n)[k] = a[i]
BY DEF shift

\* A slice with spare capacity is not full.
LEMMA SpareNotFull ==
  ASSUME NEW i \in Nat, NEW j \in Nat, i < j
  PROVE  ~(i = j)
OBVIOUS

\* The contents of a list.
LEMMA Contents ==
  ASSUME ListsInv, NEW l \in Lists
  PROVE  /\ Current(l) \in Header
         /\ Current(l).arr \in 1..Len(arrays)
         /\ Current(l).len <= Len(arrays[Current(l).arr])
         /\ \A k \in 1..Current(l).len : Entry(l, k) # Nil
         /\ Current("users").arr # Current("groups").arr
  BY Zenon DEF ListsInv

\* The slot that an add is about to fill.
LEMMA Room ==
  ASSUME ListsInv, NEW q \in Requests
  PROVE  /\ pc[q] \in {"header", "element"} /\ req[q].kind = "add" =>
              next[q].len \in 1..Len(arrays[next[q].arr])
         /\ pc[q] = "element" => list["users"] = next[q]
  BY Zenon DEF ListsInv

-----------------------------------------------------------------------------
(* What the steps do, without the details that no invariant is about.      *)

\* A round of find adds the entry of the slot to what it has found, or not.
LEMMA FindEffect ==
  ASSUME NEW q \in Requests, find(q)
  PROVE  /\ pc[q] = "find" /\ slot(q) # Nil /\ pos[q] <= hdr[q].len /\ ~crashed
         /\ \/ found' = found
            \/ found' = [found EXCEPT ![q] = Append(@, [at |-> pos[q], e |-> slot(q)])]
         /\ pos' = [pos EXCEPT ![q] = @ + 1]
         /\ UNCHANGED <<listVars, setVars, on, hdr, mu, pc, req, next, reply, removed, crashed>>
  BY Zenon DEF find, Looping, Up

\* A round of findMembers adds something to what it has found.
LEMMA FindMembersEffect ==
  ASSUME NEW q \in Requests, findMembers(q)
  PROVE  /\ pc[q] = "findMembers" /\ ~crashed
         /\ \E s : found' = [found EXCEPT ![q] = @ \o s]
         /\ pos' = [pos EXCEPT ![q] = @ + 1]
         /\ UNCHANGED <<listVars, setVars, on, hdr, mu, pc, req, next, reply, removed, crashed>>
  BY Zenon DEF findMembers, Looping, Up

\* A modify changes the attributes of the entry it has found.
LEMMA ModifyEffect ==
  ASSUME NEW q \in Requests, handleModify(q)
  PROVE  /\ req[q].kind = "modify" /\ pc[q] = "locked" /\ ~crashed
         /\ \E v : attrs' = [attrs EXCEPT ![found[q][1].e] = v]
         /\ mu' = Nil
         /\ Answer(q, "locked", "success")
         /\ UNCHANGED <<listVars, tokenGroups, allowAnonymousBind, controls, loopVars, req, next,
                        removed, crashed>>
  BY Zenon DEF handleModify, unlock, Up

\* A refusal answers with one of the result codes.
LEMMA RefuseEffect ==
  ASSUME NEW q \in Requests, refuse(q)
  PROVE  /\ pc[q] \in {"find", "bind"} /\ ~crashed
         /\ \E code \in Codes \ {"none", "success", "got", "gotMeanwhile"} : Answer(q, pc[q], code)
         /\ UNCHANGED <<listVars, setVars, loopVars, mu, req, next, removed, crashed>>
<1>1. refusal(q) \in Codes \ {"none", "success", "got", "gotMeanwhile"}
  BY Zenon DEF refusal, Codes
<1>2. "invalidCredentials" \in Codes \ {"none", "success", "got", "gotMeanwhile"}
  BY DEF Codes
<1> QED
  BY <1>1, <1>2, Zenon DEF refuse, LastLoopDone, LoopDone, Up

\* A search that cannot write ends, and that is all.
LEMMA WriteErrorEffect ==
  ASSUME NEW q \in Requests, writeError(q)
  PROVE  /\ req[q].kind \in {"searchUsers", "searchGroups", "searchGeneric"}
         /\ pc[q] \in {"start", "find"}
         /\ Answer(q, pc[q], "unwritten")
         /\ UNCHANGED <<listVars, setVars, loopVars, mu, req, next, removed, crashed>>
  BY Zenon DEF writeError, Answer, Goto, Up

\* The variables of the other goroutines stay as they are.
Frame(q) ==
  /\ req' = req
  /\ pc' \in [Requests -> PCs] /\ reply' \in [Requests -> Codes] /\ on' \in [Requests -> Lists]
  /\ hdr' \in [Requests -> Header] /\ pos' \in [Requests -> Nat \ {0}] /\ DOMAIN found' = Requests
  /\ next' \in [Requests -> Header] /\ removed' \in [Requests -> Refs \cup {Nil}]
  /\ \A p \in Requests \ {q} :
       /\ pc'[p] = pc[p] /\ reply'[p] = reply[p] /\ on'[p] = on[p] /\ hdr'[p] = hdr[p]
       /\ found'[p] = found[p] /\ next'[p] = next[p] /\ removed'[p] = removed[p]

\* A handler without the lock, or a getter, changes nothing that is shared.
LEMMA LookFrame ==
  ASSUME DirectoryTypes, NEW q \in Requests, Look(q)
  PROVE  /\ UNCHANGED <<listVars, setVars, mu, next, removed>>
         /\ Frame(q)
         /\ crashed' \in BOOLEAN
<1>0. /\ pc \in [Requests -> PCs] /\ reply \in [Requests -> Codes] /\ on \in [Requests -> Lists]
      /\ hdr \in [Requests -> Header] /\ pos \in [Requests -> Nat \ {0}] /\ DOMAIN found = Requests
      /\ next \in [Requests -> Header] /\ removed \in [Requests -> Refs \cup {Nil}]
      /\ list \in [Lists -> Header] /\ crashed \in BOOLEAN
  BY Types, Zenon
<1>a. {"users", "groups"} \subseteq Lists
  BY DEF Lists
<1>b. {"bind", "find", "findMembers", "lock", "end"} \subseteq PCs
  BY DEF PCs
<1>c. {"success", "got", "gotMeanwhile", "invalidCredentials", "unwritten", "panic"} \subseteq Codes
  BY DEF Codes
<1>d. [pos EXCEPT ![q] = @ + 1] \in [Requests -> Nat \ {0}]
  BY <1>0
<1> USE <1>0, <1>a, <1>b, <1>c DEF Frame, listVars, setVars, loopVars, Goto, Answer, loadHeader, Up
<1>1. CASE begin(q)
  BY <1>1 DEF begin
<1>2. CASE get(q)
  BY <1>2 DEF get
<1>3. CASE find(q)
  <2>1. \/ found' = found
        \/ found' = [found EXCEPT ![q] = Append(@, [at |-> pos[q], e |-> slot(q)])]
    BY <1>3, FindEffect
  <2>2. DOMAIN found' = Requests /\ \A p \in Requests \ {q} : found'[p] = found[p]
    BY <2>1
  <2> QED
    BY <1>3, <1>d, <2>2, FindEffect, Zenon
<1>4. CASE findMembers(q)
  BY <1>4, <1>d, FindMembersEffect
<1>5. CASE handleBind(q)
  <2>1. UNCHANGED <<listVars, setVars, mu, next, removed, on, hdr, found, req, crashed>>
    BY <1>5 DEF handleBind
  <2>2. \/ Answer(q, "bind", "success") /\ UNCHANGED pos
        \/ pos' = [pos EXCEPT ![q] = @ + 1] /\ UNCHANGED <<pc, reply>>
    BY <1>5, Zenon DEF handleBind
  <2> QED
    BY <1>d, <2>1, <2>2
<1>6. CASE nilEntry(q)
  BY <1>6 DEF nilEntry, Panic
<1>7. CASE nextLoop(q)
  BY <1>7 DEF nextLoop
<1>8. CASE handleSearch(q)
  BY <1>8 DEF handleSearch
<1>9. CASE refuse(q)
  BY <1>9, RefuseEffect
<1>10. CASE writeError(q)
  BY <1>10, WriteErrorEffect
<1> HIDE <1>0, <1>a, <1>b, <1>c DEF Frame, listVars, setVars, loopVars, Goto, Answer, loadHeader, Up
<1> QED
  BY <1>1, <1>2, <1>3, <1>4, <1>5, <1>6, <1>7, <1>8, <1>9, <1>10, Zenon DEF Look

\* Where it goes on: to another round or loop, to the lock of a Set function, or
\* to its answer, which is no success of a request that changes something.
LEMMA LookEffect ==
  ASSUME DirectoryTypes, NEW q \in Requests, RequestInv(q), Look(q)
  PROVE  /\ pc[q] \in {"start"} \cup Loops
         /\ pc'[q] \in {"lock", "end"} \cup Loops
         /\ pc'[q] \in Loops => hdr'[q].arr \in 1..Len(arrays)
         /\ pc'[q] = "lock" => pc[q] = "start" /\ req[q].kind \in SetKinds
         /\ pc'[q] # "end" => reply'[q] = reply[q]
         /\ pc'[q] = "end" => reply'[q] # "none"
         /\ pc'[q] = "end" /\ reply'[q] = "success" => req[q].kind \notin {"add", "delete", "modify"}
         /\ pc'[q] = "end" /\ reply'[q] = "got" =>
              /\ mu = Nil
              /\ req[q].kind = "Users" => hdr'[q] = list["users"]
              /\ req[q].kind = "Groups" => hdr'[q] = list["groups"]
<1>0. /\ pc \in [Requests -> PCs] /\ reply \in [Requests -> Codes]
      /\ hdr \in [Requests -> Header]
      /\ list["users"].arr \in 1..Len(arrays) /\ list["groups"].arr \in 1..Len(arrays)
      /\ pc[q] \in Loops => hdr[q].arr \in 1..Len(arrays)
  BY Types, Zenon
<1> USE <1>0 DEF Loops, Goto, Answer, loadHeader, loopVars
<1>1. CASE begin(q)
  BY <1>1, Zenon DEF begin, Immediate
<1>2. CASE get(q)
  BY <1>2 DEF get
<1>3. CASE find(q)
  BY <1>3, FindEffect, Zenon
<1>4. CASE findMembers(q)
  BY <1>4, FindMembersEffect
<1>5. CASE handleBind(q)
  <2>1. hdr' = hdr /\ pc[q] = "bind"
    BY <1>5 DEF handleBind
  <2>2. \/ Answer(q, "bind", "success")
        \/ UNCHANGED <<pc, reply>>
    BY <1>5, Zenon DEF handleBind
  <2> QED
    BY <2>1, <2>2 DEF RequestInv
<1>6. CASE nilEntry(q)
  BY <1>6 DEF nilEntry, Panic, Looping
<1>7. CASE nextLoop(q)
  BY <1>7 DEF nextLoop, LoopDone
<1>8. CASE handleSearch(q)
  BY <1>8 DEF handleSearch
<1>9. CASE refuse(q)
  BY <1>9, RefuseEffect
<1>10. CASE writeError(q)
  BY <1>10, WriteErrorEffect
<1> HIDE <1>0 DEF Loops, Goto, Answer, loadHeader, loopVars
<1> QED
  BY <1>1, <1>2, <1>3, <1>4, <1>5, <1>6, <1>7, <1>8, <1>9, <1>10, Zenon DEF Look

\* An entry that a loop meets is one of the directory's.
LEMMA SlotIsEntry ==
  ASSUME DirectoryTypes, NEW q \in Requests, pc[q] \in Loops, slot(q) # Nil
  PROVE  slot(q) \in Refs
<1>1. /\ hdr[q].arr \in 1..Len(arrays) /\ pos[q] \in Nat \ {0}
      /\ arrays \in Seq(Seq(Refs \cup {Nil}))
  BY Types
<1>2. arrays[hdr[q].arr] \in Seq(Refs \cup {Nil})
  BY <1>1
<1> QED
  BY <1>1, <1>2 DEF slot

\* Looking around keeps what a goroutine relies on.
LEMMA LookKeepsRequest ==
  ASSUME DirectoryTypes, NEW q \in Requests, RequestInv(q), Look(q)
  PROVE  RequestInv(q)'
<1>0. /\ pc \in [Requests -> PCs] /\ on \in [Requests -> Lists] /\ DOMAIN found = Requests
      /\ pos[q] \in Nat \ {0}
      /\ req' = req /\ mu' = mu
      /\ mu # q
  BY Types, LookFrame, LookEffect DEF Frame, RequestInv, Changing, Loops
<1>1. /\ pc'[q] \notin Changing
      /\ pc'[q] = "lock" => req[q].kind \in SetKinds
      /\ reply'[q] = "none" <=> pc'[q] # "end"
  BY LookEffect DEF RequestInv, Changing, Loops
<1>2. /\ pc'[q] = "findMembers" => req[q].kind = "searchGroups"
      /\ pc'[q] = "find" => req[q].kind \in FindKinds
      /\ pc'[q] = "bind" => req[q].kind = "bind"
      /\ req[q].kind = "add" => on'[q] = "users"
      /\ req[q].kind \in {"modify", "delete"} => found'[q] \in FoundType
  <2> USE <1>0 DEF Loops, Goto, Answer, loadHeader, loopVars, RequestInv, FindKinds
  <2>1. CASE begin(q)
    BY <2>1 DEF begin
  <2>2. CASE get(q)
    BY <2>2 DEF get
  <2>3. CASE find(q)
    <3>1. slot(q) \in Refs
      BY <2>3, FindEffect, SlotIsEntry, Zenon
    <3>2. [at |-> pos[q], e |-> slot(q)] \in FoundEntry
      BY <3>1 DEF FoundEntry
    <3>3. found[q] \in FoundType => Append(found[q], [at |-> pos[q], e |-> slot(q)]) \in FoundType
      BY <3>2 DEF FoundType
    <3> QED
      BY <2>3, <3>3, FindEffect, Zenon
  <2>4. CASE findMembers(q)
    BY <2>4, FindMembersEffect
  <2>5. CASE handleBind(q)
    BY <2>5, Zenon DEF handleBind
  <2>6. CASE nilEntry(q)
    BY <2>6 DEF nilEntry, Panic, Looping
  <2>7. CASE nextLoop(q)
    BY <2>7 DEF nextLoop, LoopDone
  <2>8. CASE handleSearch(q)
    BY <2>8 DEF handleSearch
  <2>9. CASE refuse(q)
    BY <2>9, RefuseEffect
  <2>10. CASE writeError(q)
    BY <2>10, WriteErrorEffect
  <2> HIDE <1>0 DEF Loops, Goto, Answer, loadHeader, loopVars, RequestInv, FindKinds
  <2> QED
    BY <2>1, <2>2, <2>3, <2>4, <2>5, <2>6, <2>7, <2>8, <2>9, <2>10, Zenon DEF Look
<1> QED
  BY <1>0, <1>1, <1>2, Zenon DEF RequestInv, Changing

-----------------------------------------------------------------------------
(* The changes under d.mu.                                                 *)

\* Whoever has just taken d.mu, or is about to, finds the lists complete.
LEMMA CurrentIsList ==
  ASSUME NEW l \in Lists, mu = Nil \/ pc[mu] = "locked"
  PROVE  Current(l) = list[l]
  BY Zenon DEF Current

\* What a delete is going to remove is there, or it panics.
LEMMA DeleteTarget ==
  ASSUME DirectoryInv, NEW q \in Requests, req[q].kind = "delete", pc[q] = "locked"
  PROVE  /\ mu = q /\ on[q] \in Lists /\ list[on[q]] \in Header
         /\ list[on[q]].arr \in 1..Len(arrays)
         /\ found[q][1].at \in Nat \ {0}
         /\ found[q][1].at <= list[on[q]].len =>
              /\ arrays[list[on[q]].arr][found[q][1].at] \in Refs
              /\ list[on[q]].len - 1 \in Nat
<1>1. /\ mu = q /\ on[q] \in Lists /\ list \in [Lists -> Header]
      /\ arrays \in Seq(Seq(Refs \cup {Nil}))
  BY Parts, Types DEF Changing
<1>2. found[q] \in FoundType /\ Len(found[q]) = 1
  BY Parts, Zenon DEF RequestInv, Changing
<1>3. found[q][1] \in FoundEntry
  BY <1>2 DEF FoundType
<1> DEFINE h == list[on[q]]
<1>4. Current(on[q]) = h
  BY <1>1, CurrentIsList
<1>5. /\ h.arr \in 1..Len(arrays) /\ h.len \in Nat
      /\ h.len <= Len(arrays[h.arr])
      /\ \A k \in 1..h.len : arrays[h.arr][k] # Nil
  BY <1>1, <1>4, Parts, Contents DEF Entry, Header
<1>6. arrays[h.arr] \in Seq(Refs \cup {Nil})
  BY <1>1, <1>5
<1>7. ASSUME found[q][1].at <= h.len
      PROVE  arrays[h.arr][found[q][1].at] \in Refs /\ h.len - 1 \in Nat
  <2>1. found[q][1].at \in 1..h.len
    BY <1>3, <1>5, <1>7 DEF FoundEntry
  <2>2. h.len - 1 \in Nat
    BY <1>5, <2>1
  <2>3. found[q][1].at \in 1..Len(arrays[h.arr]) /\ arrays[h.arr][found[q][1].at] # Nil
    BY <1>5, <1>6, <2>1, SMTT(30)
  <2> HIDE DEF h
  <2>4. arrays[h.arr][found[q][1].at] \in Refs \cup {Nil}
    BY <1>6, <2>3
  <2> QED
    BY <2>2, <2>3, <2>4
<1> QED
  BY <1>1, <1>3, <1>5, <1>7 DEF FoundEntry

\* A change is made by the one who holds d.mu, and concerns no other goroutine.
LEMMA ChangeFrame ==
  ASSUME DirectoryInv, NEW q \in Requests, lock(q) \/ Change(q)
  PROVE  /\ Frame(q)
         /\ UNCHANGED <<hdr, pos, found>>
         /\ crashed' \in BOOLEAN
         /\ pc[q] \notin {"start", "end", "bind", "findMembers"}
         /\ pc'[q] # "end" => reply'[q] = reply[q]
         /\ pc'[q] = "end" => reply'[q] \in {"success", "set", "panic"}
         /\ pc'[q] \in Changing \cup {"end"}
<1>0. /\ pc \in [Requests -> PCs] /\ reply \in [Requests -> Codes] /\ on \in [Requests -> Lists]
      /\ hdr \in [Requests -> Header] /\ pos \in [Requests -> Nat \ {0}] /\ DOMAIN found = Requests
      /\ next \in [Requests -> Header] /\ removed \in [Requests -> Refs \cup {Nil}]
      /\ list \in [Lists -> Header] /\ crashed \in BOOLEAN
      /\ req \in [Requests -> Ops]
      /\ Len(arrays) \in Nat
  BY Parts, Types, Zenon
<1>a. {"users", "groups"} \subseteq Lists
  BY DEF Lists
<1>b. Changing \cup {"end"} \subseteq PCs
  BY DEF PCs, Changing
<1>c. {"success", "set", "panic"} \subseteq Codes
  BY DEF Codes
<1>d. ASSUME req[q].kind = "delete", pc[q] = "locked", found[q][1].at <= list[on[q]].len
      PROVE  ~(found[q][1].at > list[on[q]].len)
  BY <1>d, DeleteTarget DEF Header
<1>e. \A n \in Nat : [arr |-> Len(arrays) + 1, len |-> n] \in Header
  BY <1>0 DEF Header
<1>f. ASSUME NEW h \in Header
      PROVE  [h EXCEPT !.len = @ + 1] \in Header /\ h.len + 1 \in Nat
  BY DEF Header
<1> USE <1>0, <1>a, <1>b, <1>c DEF Frame, listVars, setVars, loopVars, Goto, Answer, Up, unlock
<1>1. CASE lock(q)
  BY <1>1 DEF lock, LastLoopDone, LoopDone, Changing
<1>2. CASE handleModify(q)
  <2>1. /\ pc[q] = "locked" /\ Answer(q, "locked", "success")
        /\ UNCHANGED <<on, hdr, pos, found, req, next, removed, crashed>>
    BY <1>2, ModifyEffect
  <2> QED
    BY <2>1
<1>3. CASE appendUser(q)
  <2> DEFINE h == list["users"]
  <2>1. h \in Header
    OBVIOUS
  <2>2. [h EXCEPT !.len = @ + 1] \in Header /\ h.len + 1 \in Nat
    BY <1>f, <2>1, Zenon
  <2>3. [arr |-> Len(arrays) + 1, len |-> h.len + 1] \in Header
    BY <1>e, <2>2, Zenon
  <2>4. /\ \/ Goto(q, "locked", "element") /\ next' = [next EXCEPT ![q] = [h EXCEPT !.len = @ + 1]]
           \/ /\ Goto(q, "locked", "header")
              /\ next' = [next EXCEPT ![q] = [arr |-> Len(arrays) + 1, len |-> h.len + 1]]
        /\ UNCHANGED <<on, hdr, pos, found, req, reply, removed, crashed>>
    BY <1>3, Zenon DEF appendUser
  <2> HIDE DEF h
  <2>5. \E n \in Header : next' = [next EXCEPT ![q] = n]
    BY <2>2, <2>3, <2>4, Zenon
  <2>6. pc[q] = "locked" /\ \E at \in Changing : pc' = [pc EXCEPT ![q] = at]
    BY <2>4 DEF Changing
  <2> QED
    BY <2>4, <2>5, <2>6
<1>4. CASE handleAdd(q)
  BY <1>4 DEF handleAdd
<1>5. CASE deleteShift(q)
  <2> DEFINE h == list[on[q]]
  <2>0. req[q].kind = "delete" /\ pc[q] = "locked"
    BY <1>5, SMTT(30) DEF deleteShift
  <2>1. CASE found[q][1].at <= h.len
    <3>1. /\ pc' = [pc EXCEPT ![q] = "shifted"]
          /\ removed' = [removed EXCEPT ![q] = arrays[h.arr][found[q][1].at]]
          /\ next' = [next EXCEPT ![q] = [h EXCEPT !.len = @ - 1]]
          /\ UNCHANGED <<reply, crashed, on, hdr, pos, found, req>>
      <4>1. ~(found[q][1].at > h.len)
        BY <1>d, <2>0, <2>1, Zenon
      <4> QED
        BY <1>5, <4>1, Zenon DEF deleteShift, foundAt
    <3>2. [h EXCEPT !.len = @ - 1] \in Header
      BY <2>0, <2>1, DeleteTarget, Zenon DEF Header
    <3>3. arrays[h.arr][found[q][1].at] \in Refs
      BY <2>0, <2>1, DeleteTarget
    <3> QED
      BY <2>0, <3>1, <3>2, <3>3 DEF Changing
  <2>2. CASE ~(found[q][1].at <= h.len)
    BY <1>5, <2>0, <2>2, ZenonT(30) DEF deleteShift, foundAt, Panic
  <2> QED
    BY <2>1, <2>2
<1>6. CASE handleDelete(q)
  BY <1>6 DEF handleDelete
<1>7. ASSUME NEW kind \in {"SetUsers", "SetGroups"}, NEW l \in Lists, setList(q, kind, l)
      PROVE  /\ Frame(q) /\ UNCHANGED <<hdr, pos, found, reply, crashed>>
             /\ pc[q] = "locked" /\ pc'[q] = "header"
  <2>1. req[q].kind = kind /\ req[q] \in Ops
    BY <1>7 DEF setList
  <2>2. req[q].entries \in Seq(Entries)
    BY <2>1, DirectoryAssumption
  <2>3. [arr |-> Len(arrays) + 1, len |-> Len(req[q].entries)] \in Header
    <3>1. Len(req[q].entries) \in Nat
      BY <2>2
    <3> QED
      BY <1>e, <3>1, Zenon
  <2> QED
    BY <1>7, <2>3 DEF setList, Changing
<1>8. CASE storeHeader(q)
  <2>1. /\ pc[q] = "header" /\ UNCHANGED <<on, hdr, pos, found, req, next, removed, crashed>>
        /\ \/ pc' = [pc EXCEPT ![q] = "element"] /\ reply' = reply
           \/ pc' = [pc EXCEPT ![q] = "end"] /\ reply' = [reply EXCEPT ![q] = "set"]
    BY <1>8, Zenon DEF storeHeader
  <2>2. pc'[q] \in Changing \cup {"end"} /\ "header" \in Changing
    BY <2>1 DEF Changing
  <2>3. CASE pc' = [pc EXCEPT ![q] = "element"] /\ reply' = reply
    BY <2>1, <2>2, <2>3
  <2>4. CASE pc' = [pc EXCEPT ![q] = "end"] /\ reply' = [reply EXCEPT ![q] = "set"]
    BY <2>1, <2>2, <2>4
  <2> QED
    BY <2>1, <2>3, <2>4, Zenon
<1>9. CASE setWord(q)
  BY <1>9 DEF setWord
<1>10. \A kind \in {"SetUsers", "SetGroups"} : \A l \in Lists : setList(q, kind, l) =>
         /\ Frame(q) /\ UNCHANGED <<hdr, pos, found, reply, crashed>>
         /\ pc[q] = "locked" /\ pc'[q] = "header"
  BY <1>7, Zenon
<1> HIDE DEF Frame, listVars, setVars, loopVars, Goto, Answer, Up, unlock
<1>11. CASE setList(q, "SetUsers", "users") \/ setList(q, "SetGroups", "groups")
  BY <1>10, <1>11 DEF Changing
<1> HIDE <1>0, <1>a, <1>b, <1>c
<1> QED
  BY <1>1, <1>2, <1>3, <1>4, <1>5, <1>6, <1>8, <1>9, <1>11, Zenon DEF Change

\* A change keeps what the goroutine that makes it relies on.
LEMMA ChangeKeepsRequest ==
  ASSUME DirectoryInv, NEW q \in Requests, lock(q) \/ Change(q)
  PROVE  RequestInv(q)' /\ mu' \in {q, Nil} /\ (pc'[q] \in Changing => mu' = q)
<1>0. /\ pc \in [Requests -> PCs] /\ on \in [Requests -> Lists] /\ RequestInv(q)
      /\ pc[q] \in Changing => mu = q
      /\ q # Nil
      /\ req' = req /\ found' = found
  BY Parts, Types, ChangeFrame, DirectoryAssumption, Zenon DEF Frame, Refs
<1>1. reply'[q] = "none" <=> pc'[q] # "end"
  BY <1>0, ChangeFrame DEF RequestInv, Changing
<1>2. /\ mu' = q => pc'[q] \in Changing
      /\ mu' \in {q, Nil} /\ (pc'[q] \in Changing => mu' = q)
      /\ pc'[q] = "header" => req[q].kind \in {"add", "SetUsers", "SetGroups"}
      /\ pc'[q] = "element" => req[q].kind = "add"
      /\ pc'[q] = "shifted" => req[q].kind = "delete"
      /\ pc'[q] \notin {"bind", "find", "findMembers", "lock"}
      /\ req[q].kind = "add" => on'[q] = "users"
      /\ pc'[q] = "header" /\ req[q].kind = "SetUsers" => on'[q] = "users"
      /\ pc'[q] = "header" /\ req[q].kind = "SetGroups" => on'[q] = "groups"
      /\ req[q].kind \in {"modify", "delete"} /\ pc'[q] \in Changing => Len(found[q]) = 1
  <2> USE <1>0 DEF Goto, Answer, loopVars, Changing, Up, unlock
  <2>1. CASE lock(q)
    BY <2>1 DEF lock, LastLoopDone, LoopDone, Refused, RequestInv, SetKinds
  <2>2. CASE handleModify(q)
    <3>1. /\ req[q].kind = "modify" /\ pc[q] = "locked" /\ mu' = Nil /\ on' = on
          /\ pc' = [pc EXCEPT ![q] = "end"]
      BY <2>2, ModifyEffect, Zenon
    <3> QED
      BY <3>1, Zenon DEF RequestInv
  <2>3. CASE appendUser(q)
    <3>1. /\ req[q].kind = "add" /\ pc[q] = "locked"
          /\ UNCHANGED <<on, mu>>
          /\ pc' = [pc EXCEPT ![q] = "element"] \/ pc' = [pc EXCEPT ![q] = "header"]
      BY <2>3, Zenon DEF appendUser
    <3> QED
      BY <3>1, Zenon DEF RequestInv
  <2>4. CASE handleAdd(q)
    BY <2>4 DEF handleAdd, RequestInv
  <2>5. CASE deleteShift(q)
    <3>1. /\ req[q].kind = "delete" /\ pc[q] = "locked"
          /\ on' = on
          /\ \/ pc' = [pc EXCEPT ![q] = "shifted"] /\ mu' = mu
             \/ pc' = [pc EXCEPT ![q] = "end"] /\ mu' = Nil
      BY <2>5, Zenon DEF deleteShift, Panic
    <3> QED
      BY <3>1, Zenon DEF RequestInv
  <2>6. CASE handleDelete(q)
    <3>1. pc[q] = "shifted" /\ mu' = Nil /\ on' = on /\ pc' = [pc EXCEPT ![q] = "end"]
      BY <2>6, Zenon DEF handleDelete
    <3> QED
      BY <3>1, Zenon DEF RequestInv
  <2>7. CASE setList(q, "SetUsers", "users") \/ setList(q, "SetGroups", "groups")
    BY <2>7, Zenon DEF setList, RequestInv
  <2>8. CASE storeHeader(q)
    BY <2>8, Zenon DEF storeHeader, SetKinds, RequestInv
  <2>9. CASE setWord(q)
    BY <2>9 DEF setWord, RequestInv
  <2> HIDE <1>0 DEF Goto, Answer, loopVars, Changing, Up, unlock
  <2> QED
    BY <2>1, <2>2, <2>3, <2>4, <2>5, <2>6, <2>7, <2>8, <2>9, Zenon DEF Change
<1> QED
  BY <1>0, <1>1, <1>2, Zenon DEF RequestInv, Changing

\* So does every step, for every goroutine.
LEMMA RequestStep ==
  ASSUME DirectoryInv, NEW q \in Requests, Look(q) \/ lock(q) \/ Change(q), NEW p \in Requests
  PROVE  RequestInv(p)'
<1>0. DirectoryTypes /\ RequestInv(q) /\ RequestInv(p)
  BY Parts
<1>1. CASE p = q
  BY <1>0, <1>1, LookKeepsRequest, ChangeKeepsRequest, Zenon
<1>2. CASE p # q
  <2>1. Frame(q)
    BY <1>0, LookFrame, ChangeFrame, Zenon
  <2>2. mu' = p => mu = p
    <3>1. p # Nil
      BY DirectoryAssumption DEF Refs
    <3>2. CASE Look(q)
      BY <1>0, <3>2, LookFrame
    <3>3. CASE lock(q) \/ Change(q)
      BY <1>2, <3>1, <3>3, ChangeKeepsRequest
    <3> QED
      BY <3>2, <3>3
  <2> QED
    BY <1>0, <1>2, <2>1, <2>2, Zenon DEF Frame, RequestInv
<1> QED
  BY <1>1, <1>2

-----------------------------------------------------------------------------
(* The contents of the lists.                                              *)

\* The steps that write an array or make one.
Allocates(q) ==
  \/ appendUser(q) /\ list["users"].len = Len(arrays[list["users"].arr])
  \/ setList(q, "SetUsers", "users") \/ setList(q, "SetGroups", "groups")
Shifts(q) == deleteShift(q) /\ found[q][1].at <= list[on[q]].len
Quiet(q) ==
  \/ Look(q) \/ lock(q) \/ handleModify(q) \/ handleDelete(q) \/ storeHeader(q) \/ setWord(q)
  \/ appendUser(q) /\ list["users"].len < Len(arrays[list["users"].arr])
  \/ deleteShift(q) /\ ~(found[q][1].at <= list[on[q]].len)

\* Every step is of one of these kinds, or is the last of an add.
LEMMA StepKinds ==
  ASSUME NEW q \in Requests, Look(q) \/ lock(q) \/ Change(q)
  PROVE  Quiet(q) \/ Allocates(q) \/ Shifts(q) \/ handleAdd(q)
<1>1. ASSUME appendUser(q)
      PROVE  list["users"].len < Len(arrays[list["users"].arr])
               \/ list["users"].len = Len(arrays[list["users"].arr])
  BY <1>1, Zenon DEF appendUser
<1> QED
  BY <1>1, Zenon DEF Change, Quiet, Allocates, Shifts

\* The lists belong to the one who holds d.mu.
LEMMA Holder ==
  ASSUME DirectoryInv, NEW q \in Requests
  PROVE  /\ q # Nil
         /\ mu = q <=> pc[q] \in Changing
         /\ on[q] \in Lists
         /\ list \in [Lists -> Header]
         /\ pc \in [Requests -> PCs] /\ next \in [Requests -> Header] /\ on \in [Requests -> Lists]
         /\ \A p \in Requests : pc[p] \in Changing => mu = p
<1>1. q # Nil
  BY DirectoryAssumption DEF Refs
<1>2. mu = q => pc[q] \in Changing
  BY Parts, Zenon DEF RequestInv
<1> QED
  BY <1>1, <1>2, Parts, Types

\* A quiet step leaves the contents alone: they are the same when the header is
\* complete, and when only the length is stored and the element is not.
LEMMA QuietCurrent ==
  ASSUME DirectoryInv, NEW q \in Requests, Quiet(q), NEW l \in Lists
  PROVE  Current(l)' = Current(l) /\ arrays' = arrays
<1>0. /\ q # Nil /\ list \in [Lists -> Header] /\ pc \in [Requests -> PCs]
      /\ next \in [Requests -> Header] /\ on \in [Requests -> Lists]
      /\ mu = q <=> pc[q] \in Changing
      /\ RequestInv(q) /\ DirectoryTypes /\ mu \in Requests \cup {Nil}
  BY Holder, Parts, Types
<1> USE <1>0 DEF Goto, Answer, listVars, loopVars, Up, unlock, Changing
<1>1. CASE Look(q)
  <2>1. mu # q
    BY <1>1, LookEffect, Zenon DEF Loops
  <2>2. /\ arrays' = arrays /\ list' = list /\ mu' = mu /\ req' = req /\ next' = next
        /\ mu # Nil => pc'[mu] = pc[mu] /\ on'[mu] = on[mu]
    BY <1>1, <2>1, LookFrame DEF Frame
  <2> QED
    BY <2>2 DEF Current
<1>2. CASE lock(q)
  BY <1>2 DEF lock, muFree, Current
<1>3. CASE handleModify(q)
  BY <1>3, ModifyEffect DEF Current
<1>4. CASE handleDelete(q)
  <2>1. /\ mu = q /\ pc[q] = "shifted" /\ mu' = Nil /\ arrays' = arrays
        /\ list' = [list EXCEPT ![on[q]] = next[q]]
        /\ req[q].kind = "delete"
    BY <1>4 DEF handleDelete, RequestInv
  <2> QED
    BY <2>1 DEF Current
<1>5. CASE storeHeader(q)
  <2>1. /\ mu = q /\ pc[q] = "header" /\ arrays' = arrays
        /\ list' = [list EXCEPT ![on[q]] = next[q]]
        /\ UNCHANGED <<on, req, next>>
    BY <1>5 DEF storeHeader
  <2>2. CASE req[q].kind = "add"
    <3>1. pc'[q] = "element" /\ mu' = mu
      BY <1>5, <2>2, Zenon DEF storeHeader, SetKinds
    <3> QED
      BY <2>1, <2>2, <3>1, Zenon DEF Current
  <2>3. CASE req[q].kind # "add"
    <3>1. mu' = Nil
      BY <1>5, <2>3, Zenon DEF storeHeader
    <3> QED
      BY <2>1, <2>3, <3>1 DEF Current
  <2> QED
    BY <2>2, <2>3
<1>6. CASE setWord(q)
  BY <1>6 DEF setWord, Current
<1>7. CASE appendUser(q) /\ list["users"].len < Len(arrays[list["users"].arr])
  <2> DEFINE h == list["users"]
  <2>0. h \in Header /\ h.len \in Nat /\ ~(h.len = Len(arrays[h.arr]))
    <3>1. h \in Header /\ h.len \in Nat /\ Len(arrays[h.arr]) \in Nat
      BY ListArray, Zenon DEF Lists
    <3> QED
      BY <1>7, <3>1, SpareNotFull, Zenon
  <2>1. /\ mu = q /\ pc[q] = "locked" /\ arrays' = arrays /\ mu' = mu /\ pc'[q] = "element"
        /\ next' = [next EXCEPT ![q] = [h EXCEPT !.len = @ + 1]]
        /\ list' = [list EXCEPT !["users"].len = @ + 1]
        /\ UNCHANGED <<on, req>>
        /\ req[q].kind = "add"
    BY <1>7, <2>0 DEF appendUser
  <2>2. on[q] = "users"
    BY <2>1 DEF RequestInv
  <2>3. next'[q] = [h EXCEPT !.len = @ + 1]
    BY <2>1
  <2>4. next'[q].arr = h.arr /\ next'[q].len - 1 = h.len
    BY <2>0, <2>3 DEF Header
  <2>5. h = [arr |-> h.arr, len |-> h.len]
    BY <2>0 DEF Header
  <2>6. CASE l = "users"
    BY <2>1, <2>2, <2>4, <2>5, <2>6 DEF Current
  <2>7. CASE l = "groups"
    BY <2>1, <2>2, <2>7 DEF Current, Lists
  <2> QED
    BY <2>6, <2>7, Zenon DEF Lists
<1>8. CASE deleteShift(q) /\ ~(found[q][1].at <= list[on[q]].len)
  <2>1. mu = q /\ pc[q] = "locked" /\ mu' = Nil /\ arrays' = arrays /\ list' = list
    BY <1>8 DEF deleteShift, foundAt
  <2> QED
    BY <2>1 DEF Current
<1> HIDE <1>0 DEF Goto, Answer, listVars, loopVars, Up, unlock, Changing
<1> QED
  BY <1>1, <1>2, <1>3, <1>4, <1>5, <1>6, <1>7, <1>8, Zenon DEF Quiet

\* growslice keeps the slots and makes room for one more.
LEMMA GrownKeeps ==
  ASSUME NEW a \in Seq(Refs \cup {Nil})
  PROVE  /\ grown(a) \in Seq(Refs \cup {Nil})
         /\ Len(grown(a)) >= Len(a) + 1
         /\ \A k \in 1..Len(a) : grown(a)[k] = a[k]
         /\ \A k \in (Len(a) + 1)..Len(grown(a)) : grown(a)[k] = Nil
<1> DEFINE n == IF a = <<>> THEN 1 ELSE Len(a)
           b == [k \in 1..n |-> Nil]
<1>1. n \in Nat /\ n >= 1
  BY Z3
<1> HIDE DEF n
<1>2. b \in Seq(Refs \cup {Nil}) /\ Len(b) = n /\ \A k \in 1..n : b[k] = Nil
  BY <1>1
<1>3. grown(a) = a \o b
  BY DEF grown, n
<1> HIDE DEF b
<1>4. Len(a \o b) = Len(a) + n /\ a \o b \in Seq(Refs \cup {Nil})
  BY <1>1, <1>2
<1>5. \A k \in 1..Len(a) : (a \o b)[k] = a[k]
  BY <1>2
<1>6. \A k \in (Len(a) + 1)..(Len(a) + n) : (a \o b)[k] = Nil
  BY <1>1, <1>2
<1>7. Len(a \o b) >= Len(a) + 1 /\ Len(a) + n = Len(a \o b)
  BY <1>1, <1>4
<1> QED
  BY <1>3, <1>4, <1>5, <1>6, <1>7, Zenon

\* An append without room leaves the users where they are, in a larger array.
LEMMA GrowEffect ==
  ASSUME DirectoryInv, NEW q \in Requests, appendUser(q),
         list["users"].len = Len(arrays[list["users"].arr])
  PROVE  LET x == grown(arrays[list["users"].arr])
             n == list["users"].len
         IN  /\ req[q].kind = "add" /\ mu = q /\ pc[q] = "locked" /\ mu' = q /\ pc'[q] = "header"
             /\ x \in Seq(Refs \cup {Nil}) /\ n \in Nat /\ n + 1 <= Len(x)
             /\ Current("users") = list["users"] /\ Current("groups") = list["groups"]
             /\ \A k \in 1..n : x[k] = Entry("users", k)
             /\ \A k \in (n + 1)..Len(x) : x[k] = Nil
             /\ arrays' = Append(arrays, x)
             /\ next'[q] = [arr |-> Len(arrays) + 1, len |-> n + 1]
             /\ Current("users")' = [arr |-> Len(arrays) + 1, len |-> n]
             /\ Current("groups")' = Current("groups")
             /\ list' \in [Lists -> Header]
             /\ list'["users"].arr \in {list["users"].arr, Len(arrays) + 1}
             /\ list'["groups"] = list["groups"]
<1>0. /\ q # Nil /\ list \in [Lists -> Header] /\ pc \in [Requests -> PCs]
      /\ next \in [Requests -> Header] /\ on \in [Requests -> Lists]
      /\ mu = q <=> pc[q] \in Changing
      /\ RequestInv(q) /\ arrays \in Seq(Seq(Refs \cup {Nil}))
      /\ "users" \in Lists /\ "groups" \in Lists
  BY Holder, Parts, Types
<1> DEFINE h == list["users"]
           a == arrays[h.arr]
           new == [arr |-> Len(arrays) + 1, len |-> h.len + 1]
<1>1. h \in Header /\ h.len \in Nat /\ h.arr \in Nat /\ h.arr \in 1..Len(arrays)
  BY <1>0, Parts, Types, Zenon DEF Header
<1>2. ~(h.len < Len(a))
  BY <1>1
<1>3. /\ req[q].kind = "add" /\ pc[q] = "locked" /\ pc' = [pc EXCEPT ![q] = "header"]
      /\ arrays' = Append(arrays, grown(a))
      /\ next' = [next EXCEPT ![q] = new]
      /\ \E w \in Half(h, next'[q]) : list' = [list EXCEPT !["users"] = w]
      /\ UNCHANGED <<mu, on, req>>
  BY <1>2, Zenon DEF appendUser, Goto, loopVars
<1>4. mu = q /\ on[q] = "users"
  BY <1>0, <1>3 DEF Changing, RequestInv
<1>5. a \in Seq(Refs \cup {Nil})
  BY <1>0, <1>1
<1>6. /\ grown(a) \in Seq(Refs \cup {Nil}) /\ h.len + 1 <= Len(grown(a))
      /\ \A k \in 1..h.len : grown(a)[k] = a[k]
      /\ \A k \in (h.len + 1)..Len(grown(a)) : grown(a)[k] = Nil
  BY <1>1, <1>5, GrownKeeps, Zenon
<1>7. next'[q] = new
  BY <1>0, <1>3
<1>8. Current("users") = h /\ Current("groups") = list["groups"]
  BY <1>0, <1>3, <1>4, CurrentIsList
<1>9. Current("users")' = [arr |-> Len(arrays) + 1, len |-> h.len]
  <2>1. Current("users")' = [arr |-> next'[q].arr, len |-> next'[q].len - 1]
    BY <1>0, <1>3, <1>4 DEF Current
  <2> QED
    BY <1>1, <1>7, <2>1
<1>10. PICK w \in Half(h, new) : list' = [list EXCEPT !["users"] = w]
  BY <1>3, <1>7, Zenon
<1>11. w \in Header /\ w.arr \in {h.arr, Len(arrays) + 1}
  BY <1>1 DEF Half, Header
<1>12. /\ list' \in [Lists -> Header] /\ list'["users"].arr \in {h.arr, Len(arrays) + 1}
       /\ list'["groups"] = list["groups"]
  BY <1>0, <1>10, <1>11
<1>13. Current("groups")' = Current("groups")
  BY <1>0, <1>3, <1>4, <1>8, <1>12 DEF Current
<1> QED
  BY <1>0, <1>1, <1>3, <1>4, <1>6, <1>7, <1>8, <1>9, <1>12, <1>13, Zenon DEF Entry

\* A Set function puts the caller's entries in place of a list.
LEMMA SetListEffect ==
  ASSUME DirectoryInv, NEW q \in Requests, NEW kind \in {"SetUsers", "SetGroups"},
         NEW l \in Lists, setList(q, kind, l), NEW m \in Lists \ {l}
  PROVE  LET x == req[q].entries
         IN  /\ req[q].kind = kind /\ mu = q /\ pc[q] = "locked" /\ mu' = q /\ pc'[q] = "header"
             /\ x \in Seq(Entries)
             /\ arrays' = Append(arrays, x)
             /\ Current(l) = list[l] /\ Current(m) = list[m]
             /\ Current(l)' = [arr |-> Len(arrays) + 1, len |-> Len(x)]
             /\ Current(m)' = Current(m)
             /\ list' \in [Lists -> Header]
             /\ list'[l].arr \in {list[l].arr, Len(arrays) + 1}
             /\ list'[m] = list[m]
<1>0. /\ q # Nil /\ list \in [Lists -> Header] /\ pc \in [Requests -> PCs]
      /\ next \in [Requests -> Header] /\ on \in [Requests -> Lists]
      /\ mu = q <=> pc[q] \in Changing
      /\ req[q] \in Ops /\ arrays \in Seq(Seq(Refs \cup {Nil}))
  BY Holder, Parts, Types, Zenon
<1> DEFINE h == list[l]
           new == [arr |-> Len(arrays) + 1, len |-> Len(req[q].entries)]
<1>1. h \in Header /\ h.len \in Nat /\ h.arr \in Nat
  BY <1>0, Zenon DEF Header
<1>2. /\ req[q].kind = kind /\ pc[q] = "locked" /\ pc' = [pc EXCEPT ![q] = "header"]
      /\ arrays' = Append(arrays, req[q].entries)
      /\ next' = [next EXCEPT ![q] = new]
      /\ on' = [on EXCEPT ![q] = l]
      /\ \E w \in Half(h, next'[q]) : list' = [list EXCEPT ![l] = w]
      /\ UNCHANGED <<mu, req>>
  BY Zenon DEF setList, Goto
<1>3. req[q].entries \in Seq(Entries)
  BY <1>0, <1>2, DirectoryAssumption, Zenon
<1>4. mu = q
  BY <1>0, <1>2, Zenon DEF Changing
<1>5. next'[q] = new /\ on'[q] = l /\ pc'[q] = "header"
  BY <1>0, <1>2, Zenon
<1>6. Current(l) = h /\ Current(m) = list[m]
  BY <1>2, <1>4, CurrentIsList
<1>7. Current(l)' = new
  <2>1. req[q].kind # "add"
    BY <1>2
  <2> QED
    BY <1>0, <1>2, <1>4, <1>5, <2>1 DEF Current
<1>8. PICK w \in Half(h, new) : list' = [list EXCEPT ![l] = w]
  BY <1>2, <1>5, Zenon
<1>9. Len(req[q].entries) \in Nat
  BY <1>3
<1>10. w \in Header /\ w.arr \in {h.arr, Len(arrays) + 1}
  BY <1>0, <1>1, <1>9 DEF Half, Header
<1>11. list' \in [Lists -> Header] /\ list'[l].arr \in {h.arr, Len(arrays) + 1} /\ list'[m] = list[m]
  BY <1>0, <1>8, <1>10
<1>12. Current(m)' = Current(m)
  BY <1>0, <1>2, <1>4, <1>5, <1>6, <1>11 DEF Current
<1> QED
  BY <1>2, <1>3, <1>4, <1>5, <1>6, <1>7, <1>11, <1>12, ZenonT(30)

\* What a step does to one array, the others staying as they are.
Writes(a, f) ==
  /\ Len(arrays') = Len(arrays)
  /\ \A b \in 1..Len(arrays) : b # a => arrays'[b] = arrays[b]
  /\ DOMAIN f = 1..Len(arrays[a])
  /\ arrays'[a] = f

\* Assigning to an array of the directory.
LEMMA WriteArray ==
  ASSUME arrays \in Seq(Seq(Refs \cup {Nil})), NEW a \in 1..Len(arrays),
         NEW f \in [1..Len(arrays[a]) -> Refs \cup {Nil}],
         arrays' = [arrays EXCEPT ![a] = f]
  PROVE  arrays' \in Seq(Seq(Refs \cup {Nil})) /\ Writes(a, f) /\ Len(arrays'[a]) = Len(arrays[a])
<1>1. arrays[a] \in Seq(Refs \cup {Nil})
  OBVIOUS
<1>2. Len(arrays[a]) \in Nat
  BY <1>1
<1>3. f \in Seq(Refs \cup {Nil}) /\ DOMAIN f = 1..Len(arrays[a]) /\ Len(f) = Len(arrays[a])
  <2> DEFINE n == Len(arrays[a])
             S == Refs \cup {Nil}
  <2>1. n \in Nat /\ f \in [1..n -> S]
    BY <1>2
  <2> HIDE DEF n, S
  <2>2. f \in Seq(S) /\ DOMAIN f = 1..n
    BY <2>1
  <2>3. Len(f) = n
    BY <2>1, <2>2
  <2> QED
    BY <2>2, <2>3 DEF n, S
<1>4. arrays' \in Seq(Seq(Refs \cup {Nil})) /\ Len(arrays') = Len(arrays)
  BY <1>3, SMTT(30)
<1> QED
  BY <1>3, <1>4 DEF Writes

\* A delete shifts the entries behind the one it has found.
LEMMA ShiftEffect ==
  ASSUME DirectoryInv, NEW q \in Requests, Shifts(q),
         NEW l \in Lists, l = on[q], NEW m \in Lists \ {l}
  PROVE  LET h == list[l]
             at == found[q][1].at
         IN  /\ req[q].kind = "delete" /\ mu = q /\ pc[q] = "locked" /\ mu' = q /\ pc'[q] = "shifted"
             /\ on' = on
             /\ Current(l) = h /\ Current(m) = list[m]
             /\ h \in Header /\ h.arr \in 1..Len(arrays) /\ at \in 1..h.len
             /\ removed'[q] = Entry(l, at)
             /\ arrays' \in Seq(Seq(Refs \cup {Nil}))
             /\ Writes(h.arr, shift(arrays[h.arr], at, h.len))
             /\ Len(arrays'[h.arr]) = Len(arrays[h.arr])
             /\ Current(l)' = [arr |-> h.arr, len |-> h.len - 1]
             /\ Current(m)' = Current(m)
             /\ list' = list
<1>0. /\ q # Nil /\ list \in [Lists -> Header] /\ pc \in [Requests -> PCs]
      /\ next \in [Requests -> Header] /\ on \in [Requests -> Lists]
      /\ arrays \in Seq(Seq(Refs \cup {Nil})) /\ removed \in [Requests -> Refs \cup {Nil}]
  BY Holder, Parts, Types
<1> DEFINE h == list[l]
           at == found[q][1].at
<1>1. req[q].kind = "delete" /\ pc[q] = "locked" /\ at <= h.len
  BY DEF Shifts, deleteShift
<1>2. /\ mu = q /\ l \in Lists /\ h \in Header /\ h.arr \in 1..Len(arrays) /\ at \in Nat \ {0}
      /\ h.len - 1 \in Nat
  BY <1>1, DeleteTarget, ZenonT(30)
<1>3. ~(at > h.len) /\ at \in 1..h.len
  BY <1>1, <1>2 DEF Header
<1>4. /\ pc' = [pc EXCEPT ![q] = "shifted"]
      /\ removed' = [removed EXCEPT ![q] = arrays[h.arr][at]]
      /\ arrays' = [arrays EXCEPT ![h.arr] = shift(@, at, h.len)]
      /\ next' = [next EXCEPT ![q] = [h EXCEPT !.len = @ - 1]]
      /\ UNCHANGED <<mu, list, on, req>>
  BY <1>3, Zenon DEF Shifts, deleteShift, foundAt, Goto, loopVars
<1>5. Current(l) = h /\ Current(m) = list[m]
  BY <1>1, <1>2, CurrentIsList
<1>6. next'[q] = [arr |-> h.arr, len |-> h.len - 1]
  BY <1>0, <1>2, <1>4, Zenon DEF Header
<1>7. Current(l)' = [arr |-> h.arr, len |-> h.len - 1] /\ Current(m)' = Current(m)
  BY <1>0, <1>1, <1>2, <1>4, <1>5, <1>6 DEF Current
<1>8. h.len <= Len(arrays[h.arr])
  BY <1>2, <1>5, Parts, Contents, Zenon
<1>9. arrays[h.arr] \in Seq(Refs \cup {Nil})
  BY <1>0, <1>2
<1>10. shift(arrays[h.arr], at, h.len) \in [1..Len(arrays[h.arr]) -> Refs \cup {Nil}]
  <2> DEFINE a == arrays[h.arr]
             n == h.len
  <2>1. a \in Seq(Refs \cup {Nil}) /\ n \in Nat /\ n <= Len(a) /\ at \in 1..n
    BY <1>2, <1>3, <1>8, <1>9 DEF Header
  <2> HIDE DEF a, n, at
  <2>2. shift(a, at, n) \in [1..Len(a) -> Refs \cup {Nil}]
    BY <2>1 DEF shift
  <2> QED
    BY <2>2 DEF a, n, at
<1> HIDE DEF h, at
<1>11. arrays' = [arrays EXCEPT ![h.arr] = shift(arrays[h.arr], at, h.len)]
  BY <1>4
<1>12. /\ arrays' \in Seq(Seq(Refs \cup {Nil}))
       /\ Writes(h.arr, shift(arrays[h.arr], at, h.len))
       /\ Len(arrays'[h.arr]) = Len(arrays[h.arr])
  BY <1>0, <1>2, <1>10, <1>11, WriteArray, Zenon
<1>13. removed'[q] = Entry(l, at)
  BY <1>0, <1>4, <1>5 DEF Entry
<1> QED
  BY <1>0, <1>1, <1>2, <1>3, <1>4, <1>5, <1>7, <1>12, <1>13 DEF h, at

\* The last step of an add stores the entry behind the others.
LEMMA AddEffect ==
  ASSUME DirectoryInv, NEW q \in Requests, handleAdd(q)
  PROVE  LET a == next[q].arr
             n == next[q].len
         IN  /\ req[q].kind = "add" /\ mu = q /\ pc[q] = "element" /\ mu' = Nil
             /\ pc'[q] = "end" /\ reply'[q] = "success"
             /\ a \in 1..Len(arrays) /\ n \in 1..Len(arrays[a])
             /\ Current("users") = [arr |-> a, len |-> n - 1]
             /\ Current("users")' = [arr |-> a, len |-> n]
             /\ Current("groups")' = Current("groups")
             /\ arrays' \in Seq(Seq(Refs \cup {Nil}))
             /\ Writes(a, [arrays[a] EXCEPT ![n] = q])
             /\ Len(arrays'[a]) = Len(arrays[a])
             /\ list' = list
<1>0. /\ q # Nil /\ list \in [Lists -> Header] /\ pc \in [Requests -> PCs]
      /\ next \in [Requests -> Header] /\ on \in [Requests -> Lists]
      /\ reply \in [Requests -> Codes]
      /\ arrays \in Seq(Seq(Refs \cup {Nil}))
      /\ mu = q <=> pc[q] \in Changing
      /\ RequestInv(q) /\ ListsInv /\ "users" \in Lists
  BY Holder, Parts, Types
<1> DEFINE a == next[q].arr
           n == next[q].len
<1>1. /\ pc[q] = "element" /\ mu' = Nil /\ pc'[q] = "end" /\ reply'[q] = "success"
      /\ arrays' = [arrays EXCEPT ![a][n] = q]
      /\ UNCHANGED <<list, on, req, next>>
  BY <1>0 DEF handleAdd, Answer, Goto, unlock, loopVars
<1>2. mu = q /\ req[q].kind = "add" /\ on[q] = "users" /\ list["users"] = next[q]
  BY <1>0, <1>1, Room DEF RequestInv, Changing
<1>3. Current("users") = [arr |-> a, len |-> n - 1] /\ Current("groups") = list["groups"]
  BY <1>0, <1>1, <1>2 DEF Current
<1>4. n \in 1..Len(arrays[a])
  BY <1>0, <1>1, <1>2, Room
<1>5. a \in 1..Len(arrays)
  BY <1>0, <1>3, Contents
<1>6. next[q] = [arr |-> a, len |-> n]
  BY <1>0 DEF Header
<1>7. Current("users")' = [arr |-> a, len |-> n] /\ Current("groups")' = Current("groups")
  BY <1>1, <1>2, <1>3, <1>6 DEF Current
<1> HIDE DEF a, n
<1>8. arrays[a] \in Seq(Refs \cup {Nil}) /\ q \in Refs
  BY <1>0, <1>5 DEF Refs
<1>9. [arrays[a] EXCEPT ![n] = q] \in [1..Len(arrays[a]) -> Refs \cup {Nil}]
  BY <1>4, <1>8
<1>10. arrays' = [arrays EXCEPT ![a] = [arrays[a] EXCEPT ![n] = q]]
  BY <1>0, <1>1, <1>5
<1>11. /\ arrays' \in Seq(Seq(Refs \cup {Nil}))
       /\ Writes(a, [arrays[a] EXCEPT ![n] = q])
       /\ Len(arrays'[a]) = Len(arrays[a])
  BY <1>0, <1>5, <1>9, <1>10, WriteArray, Zenon
<1> QED
  BY <1>1, <1>2, <1>3, <1>4, <1>5, <1>7, <1>11, Zenon DEF a, n

\* Only the holder of d.mu changes anything, and it is not taken from a holder.
LEMMA OneChanges ==
  ASSUME DirectoryInv, NEW q \in Requests
  PROVE  /\ lock(q) => mu = Nil
         /\ Change(q) => mu = q /\ pc[q] \in Changing
<1>1. lock(q) => mu = Nil
  BY DEF lock, muFree
<1>2. ASSUME Change(q) PROVE pc[q] \in Changing
  <2> USE DEF Goto, Answer, Changing
  <2>1. CASE handleModify(q)
    BY <2>1, ModifyEffect
  <2>2. CASE appendUser(q)
    BY <2>2, Zenon DEF appendUser
  <2>3. CASE deleteShift(q)
    BY <2>3, Zenon DEF deleteShift
  <2>4. CASE handleAdd(q) \/ handleDelete(q) \/ storeHeader(q) \/ setWord(q)
    BY <2>4, Zenon DEF handleAdd, handleDelete, storeHeader, setWord
  <2>5. CASE setList(q, "SetUsers", "users") \/ setList(q, "SetGroups", "groups")
    BY <2>5 DEF setList
  <2> QED
    BY <1>2, <2>1, <2>2, <2>3, <2>4, <2>5 DEF Change
<1> QED
  BY <1>1, <1>2, Holder

\* d.mu excludes: whoever is changing something after a step holds it.
LEMMA MutexStep ==
  ASSUME DirectoryInv, NEW q \in Requests, Look(q) \/ lock(q) \/ Change(q), NEW p \in Requests
  PROVE  /\ pc'[p] \in Changing => mu' = p
         /\ pc'[p] \in Changing /\ p # q => Look(q)
         /\ mu' \in Requests \cup {Nil}
<1>0. /\ DirectoryTypes /\ RequestInv(q)
      /\ mu \in Requests \cup {Nil}
      /\ \A r \in Requests : pc[r] \in Changing => mu = r
      /\ p # Nil
  BY Holder, Parts, Types, Zenon
<1>1. Frame(q)
  BY <1>0, LookFrame, ChangeFrame, Zenon
<1>2. CASE Look(q)
  BY <1>0, <1>1, <1>2, LookFrame, LookEffect, Zenon DEF Frame, Changing, Loops
<1>3. CASE lock(q) \/ Change(q)
  <2>1. mu \in {q, Nil}
    BY <1>3, OneChanges
  <2> QED
    BY <1>0, <1>1, <1>3, <2>1, ChangeKeepsRequest, Zenon DEF Frame
<1> QED
  BY <1>2, <1>3
=============================================================================
