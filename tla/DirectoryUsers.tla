--------------------------- MODULE DirectoryUsers ---------------------------
(***************************************************************************)
(* No add and no delete is lost, however many requests are served at once. *)
(*                                                                         *)
(* UsersInv says how many users there are and that they are different.     *)
(***************************************************************************)
EXTENDS DirectoryProofs

(* What a step does to d.users.                                            *)

\* Which steps count: the one that answers an add, the shift of a delete, and
\* the one that answers a delete.
LEMMA CountingSteps ==
  ASSUME DirectoryInv, NEW q \in Requests, Look(q) \/ lock(q) \/ Change(q)
  PROVE  /\ pc'[q] = "shifted" => Shifts(q)
         /\ pc[q] = "shifted" => handleDelete(q)
         /\ pc'[q] = "end" /\ reply'[q] = "success" /\ req[q].kind = "add" => handleAdd(q)
         /\ pc'[q] = "end" /\ reply'[q] = "success" /\ req[q].kind = "delete" => handleDelete(q)
         /\ handleDelete(q) => /\ pc[q] = "shifted" /\ pc'[q] = "end" /\ reply'[q] = "success"
                               /\ on' = on /\ removed' = removed
<1>0. /\ DirectoryTypes /\ RequestInv(q) /\ pc \in [Requests -> PCs] /\ reply \in [Requests -> Codes]
  BY Parts, Types, Zenon
<1> USE <1>0 DEF Goto, Answer, loopVars
<1>1. CASE Look(q)
  BY <1>1, LookEffect, Zenon DEF Loops, handleDelete
<1>2. CASE lock(q)
  <2>1. pc[q] # "shifted" /\ pc'[q] = "locked"
    BY <1>2 DEF lock, LastLoopDone, LoopDone
  <2> QED
    BY <2>1, Zenon DEF handleDelete
<1>3. CASE handleModify(q)
  BY <1>3, ModifyEffect DEF handleDelete
<1>4. CASE appendUser(q)
  <2>1. pc[q] = "locked" /\ pc'[q] \in {"header", "element"}
    <3>1. pc[q] = "locked" /\ (pc' = [pc EXCEPT ![q] = "header"] \/ pc' = [pc EXCEPT ![q] = "element"])
      BY <1>4, Zenon DEF appendUser
    <3> QED
      BY <3>1
  <2> QED
    BY <2>1 DEF handleDelete
<1>5. CASE handleAdd(q)
  BY <1>5, AddEffect, Zenon DEF handleDelete
<1>6. CASE deleteShift(q)
  <2>1. CASE Shifts(q)
    <3>1. pc[q] = "locked" /\ pc' = [pc EXCEPT ![q] = "shifted"]
      <4>0. PICK l \in Lists : l = on[q]
        BY Holder
      <4>1. PICK m \in Lists : m # l
        BY DEF Lists
      <4>2. found[q][1].at \in 1..list[on[q]].len /\ list[on[q]] \in Header
        BY <2>1, <4>0, <4>1, ShiftEffect
      <4>3. ~(found[q][1].at > list[on[q]].len)
        BY <4>2 DEF Header
      <4> QED
        BY <1>6, <4>3, Zenon DEF deleteShift, foundAt
    <3>2. pc'[q] = "shifted"
      BY <3>1
    <3> QED
      BY <2>1, <3>1, <3>2, Zenon DEF handleDelete
  <2>2. CASE ~Shifts(q)
    <3>1. pc[q] = "locked" /\ Answer(q, "locked", "panic")
      BY <1>6, <2>2, ZenonT(30) DEF deleteShift, Shifts, foundAt, Panic
    <3>2. pc'[q] = "end" /\ reply'[q] = "panic"
      BY <3>1
    <3> QED
      BY <3>1, <3>2, Zenon DEF handleDelete
  <2> QED
    BY <2>1, <2>2
<1>7. CASE handleDelete(q)
  <2>1. /\ pc[q] = "shifted" /\ pc' = [pc EXCEPT ![q] = "end"]
        /\ reply' = [reply EXCEPT ![q] = "success"] /\ on' = on /\ removed' = removed
    BY <1>7, Zenon DEF handleDelete
  <2>2. pc'[q] = "end" /\ reply'[q] = "success"
    BY <2>1
  <2> QED
    BY <1>7, <2>1, <2>2, Zenon DEF RequestInv
<1>8. CASE setList(q, "SetUsers", "users") \/ setList(q, "SetGroups", "groups")
  <2>1. pc[q] = "locked" /\ pc'[q] = "header"
    BY <1>8 DEF setList
  <2> QED
    BY <2>1, Zenon DEF handleDelete
<1>9. CASE storeHeader(q)
  BY <1>9 DEF storeHeader, handleDelete
<1>10. CASE setWord(q)
  BY <1>10 DEF setWord, handleDelete
<1> HIDE <1>0 DEF Goto, Answer, loopVars
<1> QED
  BY <1>1, <1>2, <1>3, <1>4, <1>5, <1>6, <1>7, <1>8, <1>9, <1>10, Zenon DEF Change

\* The users after each kind of step: an add puts one at the end, the shift of a
\* delete takes one out, SetUsers brings its own, and nothing else matters.
LEMMA UsersGain ==
  ASSUME DirectoryInv, NEW q \in Requests, handleAdd(q)
  PROVE  \E n \in Nat : /\ Current("users").len = n /\ Current("users")'.len = n + 1
                        /\ Entry("users", n + 1)' = q
                        /\ \A k \in 1..n : Entry("users", k)' = Entry("users", k)
<1> DEFINE a == next[q].arr
           n == next[q].len
<1>1. /\ a \in 1..Len(arrays) /\ n \in 1..Len(arrays[a])
      /\ Current("users") = [arr |-> a, len |-> n - 1]
      /\ Current("users")' = [arr |-> a, len |-> n]
      /\ arrays'[a] = [arrays[a] EXCEPT ![n] = q]
  BY AddEffect DEF Writes
<1> HIDE DEF a, n
<1>2. arrays[a] \in Seq(Refs \cup {Nil}) /\ n \in Nat
  BY <1>1, Parts, Types
<1>3. arrays'[a][n] = q /\ \A k \in 1..(n - 1) : arrays'[a][k] = arrays[a][k]
  BY <1>1, <1>2
<1>4. /\ Current("users").arr = a /\ Current("users")'.arr = a
      /\ Current("users").len = n - 1 /\ Current("users")'.len = n
  BY <1>1
<1>5. \A k : Entry("users", k) = arrays[a][k] /\ Entry("users", k)' = arrays'[a][k]
  BY <1>4, Zenon DEF Entry
<1>6. PICK m \in Nat : n = m + 1
  BY <1>1, <1>2
<1>7. Current("users").len = m /\ Current("users")'.len = m + 1
  BY <1>4, <1>6
<1>8. arrays'[a][m + 1] = q /\ \A k \in 1..m : arrays'[a][k] = arrays[a][k]
  BY <1>3, <1>6
<1>9. Entry("users", m + 1)' = q
  BY <1>5, <1>8, Zenon
<1> QED
  BY <1>5, <1>7, <1>8, <1>9

\* The shift of a delete leaves its list one shorter, without the entry at the
\* position deleted and with every other entry in its order.
LEMMA ListLoses ==
  ASSUME DirectoryInv, NEW q \in Requests, Shifts(q), NEW l \in Lists, l = on[q]
  PROVE  LET at == found[q][1].at
             n == Current(l).len
         IN  /\ n \in Nat /\ at \in 1..n
             /\ removed'[q] = Entry(l, at)
             /\ Current(l)'.len = n - 1
             /\ \A k \in 1..(n - 1) :
                  Entry(l, k)' = Entry(l, IF k < at THEN k ELSE k + 1)
<1> DEFINE h == list[l]
           at == found[q][1].at
<1>0. PICK m \in Lists : m # l
  BY DEF Lists
<1>1. /\ Current(l) = h /\ h \in Header /\ h.arr \in 1..Len(arrays) /\ at \in 1..h.len
      /\ removed'[q] = Entry(l, at)
      /\ arrays'[h.arr] = shift(arrays[h.arr], at, h.len)
      /\ Current(l)' = [arr |-> h.arr, len |-> h.len - 1]
  BY <1>0, ShiftEffect DEF Writes
<1>2. h.len \in Nat /\ h.len <= Len(arrays[h.arr])
  BY <1>1, Parts, Contents, Zenon DEF Header
<1>3. arrays[h.arr] \in Seq(Refs \cup {Nil})
  BY <1>1, Parts, Types
<1> HIDE DEF h, at
<1>4. \A k \in 1..(h.len - 1) : arrays'[h.arr][k] = arrays[h.arr][IF k < at THEN k ELSE k + 1]
  BY <1>1, <1>2, <1>3 DEF shift
<1>5. \A k : Entry(l, k) = arrays[h.arr][k] /\ Entry(l, k)' = arrays'[h.arr][k]
  BY <1>1 DEF Entry
<1>6. Current(l).len = h.len /\ Current(l)'.len = h.len - 1
  BY <1>1
<1> QED
  BY <1>1, <1>2, <1>4, <1>5, <1>6 DEF at

\* SetUsers leaves exactly the entries it was given in d.users.
LEMMA UsersReplaced ==
  ASSUME DirectoryInv, NEW q \in Requests, setList(q, "SetUsers", "users")
  PROVE  /\ req[q].kind = "SetUsers" /\ pc'[q] = "header" /\ req[q].entries \in Seq(Entries)
         /\ Current("users")'.len = Len(req[q].entries)
         /\ \A k \in 1..Len(req[q].entries) : Entry("users", k)' = req[q].entries[k]
<1> DEFINE x == req[q].entries
<1>0. "users" \in Lists /\ "groups" \in Lists \ {"users"}
  BY DEF Lists
<1>1. /\ req[q].kind = "SetUsers" /\ pc'[q] = "header" /\ x \in Seq(Entries)
      /\ arrays' = Append(arrays, x)
      /\ Current("users")' = [arr |-> Len(arrays) + 1, len |-> Len(x)]
  BY <1>0, SetListEffect
<1>2. arrays \in Seq(Seq(Refs \cup {Nil})) /\ x \in Seq(Refs \cup {Nil})
  BY <1>1, Parts, Types DEF Refs
<1> HIDE DEF x
<1>3. arrays'[Len(arrays) + 1] = x
  BY <1>1, <1>2
<1> QED
  BY <1>1, <1>3 DEF Entry, x

\* Every other step leaves d.users as it was.
LEMMA UsersSame ==
  ASSUME DirectoryInv, NEW q \in Requests, Look(q) \/ lock(q) \/ Change(q),
         ~handleAdd(q), ~(Shifts(q) /\ on[q] = "users"), ~setList(q, "SetUsers", "users")
  PROVE  /\ Current("users")'.len = Current("users").len
         /\ \A k \in 1..Current("users").len : Entry("users", k)' = Entry("users", k)
<1>0. /\ "users" \in Lists /\ "groups" \in Lists /\ Lists = {"users", "groups"}
      /\ arrays \in Seq(Seq(Refs \cup {Nil})) /\ Len(arrays) \in Nat
      /\ Current("users") \in Header /\ Current("users").arr \in 1..Len(arrays)
      /\ Current("users").arr # Current("groups").arr
  BY Parts, Types, Contents, Zenon DEF Lists
<1>1. CASE Quiet(q)
  BY <1>0, <1>1, QuietCurrent DEF Entry
<1>2. CASE appendUser(q) /\ list["users"].len = Len(arrays[list["users"].arr])
  <2> DEFINE x == grown(arrays[list["users"].arr])
             n == list["users"].len
  <2>1. /\ x \in Seq(Refs \cup {Nil}) /\ n \in Nat
        /\ Current("users") = list["users"]
        /\ \A k \in 1..n : x[k] = Entry("users", k)
        /\ arrays' = Append(arrays, x)
        /\ Current("users")' = [arr |-> Len(arrays) + 1, len |-> n]
    BY <1>2, GrowEffect
  <2> HIDE DEF x
  <2>2. arrays'[Len(arrays) + 1] = x
    BY <1>0, <2>1
  <2> QED
    BY <2>1, <2>2 DEF Entry
<1>3. CASE setList(q, "SetGroups", "groups")
  <2>1. arrays' = Append(arrays, req[q].entries) /\ Current("users")' = Current("users")
    BY <1>0, <1>3, SetListEffect
  <2>2. arrays'[Current("users").arr] = arrays[Current("users").arr]
    BY <1>0, <2>1
  <2> QED
    BY <2>1, <2>2, Zenon DEF Entry
<1>4. CASE Shifts(q)
  <2>1. on[q] = "groups"
    BY <1>0, <1>4, Holder
  <2>2. /\ Writes(list["groups"].arr, shift(arrays[list["groups"].arr], found[q][1].at, list["groups"].len))
        /\ Current("users")' = Current("users") /\ Current("groups") = list["groups"]
    BY <1>0, <1>4, <2>1, ShiftEffect
  <2>3. arrays'[Current("users").arr] = arrays[Current("users").arr]
    BY <1>0, <2>2 DEF Writes
  <2> QED
    BY <2>2, <2>3 DEF Entry
<1> QED
  BY <1>1, <1>2, <1>3, <1>4, StepKinds DEF Allocates

\* Slots of a slice that nobody is changing.
LEMMA SlotsAreEntries ==
  ASSUME DirectoryInv, mu = Nil, NEW l \in Lists
  PROVE  /\ list[l] = Current(l) /\ list[l].len \in Nat /\ list[l].arr \in 1..Len(arrays)
         /\ \A k \in 1..list[l].len :
              /\ Slots(l)[k] = Entry(l, k) /\ Entry(l, k) \in Refs
              /\ k <= Len(arrays[list[l].arr]) /\ arrays[list[l].arr][k] = Entry(l, k)
<1>1. /\ list[l] = Current(l) /\ list[l] \in Header /\ list[l].arr \in 1..Len(arrays)
      /\ list[l].len <= Len(arrays[list[l].arr])
      /\ arrays \in Seq(Seq(Refs \cup {Nil}))
      /\ \A k \in 1..list[l].len : Entry(l, k) # Nil /\ Entry(l, k) = arrays[list[l].arr][k]
  BY Parts, Types, Contents, CurrentIsList, Zenon DEF Entry
<1> DEFINE a == arrays[list[l].arr]
           n == list[l].len
<1>2. a \in Seq(Refs \cup {Nil}) /\ n \in Nat /\ n <= Len(a)
  BY <1>1 DEF Header
<1> HIDE DEF a, n
<1>3. \A k \in 1..n : SubSeq(a, 1, n)[k] = a[k] /\ a[k] \in Refs \cup {Nil}
  BY <1>2
<1> QED
  BY <1>1, <1>2, <1>3 DEF Slots, a, n

-----------------------------------------------------------------------------
(* The users that the answered requests leave.                             *)

\* No SetUsers has replaced the users.
UsersKept == \A q \in Requests : req[q].kind = "SetUsers" => pc[q] \in {"start", "lock", "locked"}

\* The users as the requests answered so far leave them; a delete counts from
\* the shift on.
Deleted == {removed[q] : q \in {r \in Requests : /\ req[r].kind = "delete" /\ on[r] = "users"
                                                 /\ pc[r] = "shifted" \/ reply[r] = "success"}}
ExpectedUsers ==
  ({Defaults.Users[k] : k \in 1..Len(Defaults.Users)} \cup {q \in Requests : Did(q, "add")}) \ Deleted

\* While no SetUsers has replaced them, the users are different and the expected.
UsersInv ==
  UsersKept =>
    /\ \A i, j \in 1..Current("users").len : Entry("users", i) = Entry("users", j) => i = j
    /\ {Entry("users", k) : k \in 1..Current("users").len} = ExpectedUsers

\* A step that changes nothing keeps it.
LEMMA UsersStutter ==
  ASSUME UsersInv, UNCHANGED vars
  PROVE  UsersInv'
<1>1. UNCHANGED <<arrays, list, mu, pc, on, req, next, reply, removed>>
  BY DEF vars, listVars, setVars, loopVars
<1>2. Current("users")' = Current("users") /\ \A k : Entry("users", k)' = Entry("users", k)
  BY <1>1 DEF Current, Entry
<1>3. UsersKept' = UsersKept /\ Deleted' = Deleted /\ \A q \in Requests : Did(q, "add")' = Did(q, "add")
  BY <1>1 DEF UsersKept, Deleted, Did
<1>4. ExpectedUsers' = ExpectedUsers
  BY <1>1 DEF ExpectedUsers, Deleted, Did
<1> QED
  BY <1>2, <1>3, <1>4 DEF UsersInv

\* A delete that has shifted the users, or was answered.
HasDeleted(r) ==
  /\ req[r].kind = "delete" /\ on[r] = "users"
  /\ pc[r] = "shifted" \/ reply[r] = "success"

\* Whose add and whose delete of a user count after a step.
LEMMA CountsStep ==
  ASSUME DirectoryInv, NEW q \in Requests, Look(q) \/ lock(q) \/ Change(q), NEW r \in Requests
  PROVE  /\ Did(r, "add")' <=> Did(r, "add") \/ (r = q /\ handleAdd(q))
         /\ HasDeleted(r)' <=> HasDeleted(r) \/ (r = q /\ Shifts(q) /\ on[q] = "users")
         /\ HasDeleted(r) => removed'[r] = removed[r]
<1>0. /\ DirectoryTypes /\ RequestInv(q) /\ RequestInv(r) /\ RequestInv(q)'
      /\ pc[q] # "end" /\ reply[q] = "none"
  <2>1. DirectoryTypes /\ RequestInv(q) /\ RequestInv(r)
    BY Parts
  <2>2. pc[q] # "end"
    BY <2>1, LookEffect, ChangeFrame, ZenonT(30) DEF Loops
  <2> QED
    BY <2>1, <2>2, RequestStep DEF RequestInv
<1>1. Frame(q)
  BY <1>0, LookFrame, ChangeFrame
<1>2. CASE r # q
  BY <1>1, <1>2 DEF Frame, Did, HasDeleted
<1>3. CASE r = q
  <2>1. Did(q, "add")' <=> handleAdd(q)
    BY <1>0, <1>1, CountingSteps, AddEffect, Zenon DEF Did, Frame, RequestInv
  <2>2. CASE Shifts(q)
    <3>0. PICK l \in Lists : l = on[q]
      BY Holder
    <3>1. PICK m \in Lists : m # l
      BY Zenon DEF Lists
    <3>2. on' = on /\ pc[q] = "locked" /\ pc'[q] = "shifted" /\ req[q].kind = "delete"
      BY <2>2, <3>0, <3>1, ShiftEffect
    <3> QED
      BY <1>0, <1>1, <1>3, <2>1, <2>2, <3>2 DEF HasDeleted, Frame, Did
  <2>3. CASE ~Shifts(q) /\ handleDelete(q)
    BY <1>0, <1>1, <1>3, <2>1, <2>3, CountingSteps, Zenon DEF HasDeleted, Frame, Did, RequestInv
  <2>4. CASE ~Shifts(q) /\ ~handleDelete(q)
    <3>1. pc[q] # "shifted" /\ pc'[q] # "shifted"
      BY <2>4, CountingSteps
    <3>2. req[q].kind = "delete" => reply'[q] # "success"
      BY <1>0, <2>4, CountingSteps, ZenonT(30) DEF RequestInv
    <3> QED
      BY <1>0, <1>1, <1>3, <2>1, <2>4, <3>1, <3>2, Zenon DEF HasDeleted, Frame, Did
  <2> QED
    BY <2>2, <2>3, <2>4
<1> QED
  BY <1>2, <1>3, Zenon

\* The users to be expected change with the steps that count.
LEMMA ExpectedStep ==
  ASSUME DirectoryInv, NEW q \in Requests, Look(q) \/ lock(q) \/ Change(q), NEW e
  PROVE  /\ handleAdd(q) => (e \in ExpectedUsers' <=> e \in ExpectedUsers \/ e = q)
         /\ Shifts(q) /\ on[q] = "users" =>
              (e \in ExpectedUsers' <=> e \in ExpectedUsers /\ e # removed'[q])
         /\ ~handleAdd(q) /\ ~(Shifts(q) /\ on[q] = "users") =>
              (e \in ExpectedUsers' <=> e \in ExpectedUsers)
<1> DEFINE Start == {Defaults.Users[k] : k \in 1..Len(Defaults.Users)}
           Adds == handleAdd(q)
           Takes == Shifts(q) /\ on[q] = "users"
<1>1. \A r \in Requests : /\ Did(r, "add")' <=> Did(r, "add") \/ (r = q /\ Adds)
                          /\ HasDeleted(r)' <=> HasDeleted(r) \/ (r = q /\ Takes)
                          /\ HasDeleted(r) => removed'[r] = removed[r]
  BY CountsStep
<1>2. e \in ExpectedUsers <=>
        /\ e \in Start \/ (e \in Requests /\ Did(e, "add"))
        /\ ~\E r \in Requests : HasDeleted(r) /\ e = removed[r]
  BY Zenon DEF ExpectedUsers, Deleted, HasDeleted
<1>3. e \in ExpectedUsers' <=>
        /\ e \in Start \/ (e \in Requests /\ Did(e, "add")')
        /\ ~\E r \in Requests : HasDeleted(r)' /\ e = removed'[r]
  BY Zenon DEF ExpectedUsers, Deleted, HasDeleted
<1>4. Adds => /\ ~Takes
              /\ \A r \in Requests : removed[r] # q
  <2>1. SUFFICES ASSUME Adds PROVE ~Takes /\ \A r \in Requests : removed[r] # q
    OBVIOUS
  <2>2. pc[q] = "element" /\ RequestInv(q)
    BY <2>1, AddEffect, Parts, Zenon
  <2>3. ~Did(q, "add")
    BY <2>2 DEF RequestInv, Did
  <2> QED
    BY <2>2, <2>3, Parts DEF AddedInv, Shifts, deleteShift
<1>5. Takes => ~Adds
  BY <1>4
<1> HIDE DEF Start, Adds, Takes
<1>6. Adds => (e \in ExpectedUsers' <=> e \in ExpectedUsers \/ e = q)
  BY <1>1, <1>2, <1>3, <1>4
<1>7. Takes => (e \in ExpectedUsers' <=> e \in ExpectedUsers /\ e # removed'[q])
  BY <1>1, <1>2, <1>3, <1>5
<1>8. ~Adds /\ ~Takes => (e \in ExpectedUsers' <=> e \in ExpectedUsers)
  BY <1>1, <1>2, <1>3
<1> QED
  BY <1>6, <1>7, <1>8 DEF Adds, Takes

\* Once a SetUsers has replaced the users, it has for good.
LEMMA KeptStep ==
  ASSUME DirectoryInv, NEW q \in Requests, Look(q) \/ lock(q) \/ Change(q), UsersKept'
  PROVE  UsersKept /\ ~setList(q, "SetUsers", "users")
<1>0. DirectoryTypes /\ RequestInv(q)
  BY Parts
<1>1. Frame(q)
  BY <1>0, LookFrame, ChangeFrame
<1>2. ~setList(q, "SetUsers", "users")
  BY UsersReplaced, <1>1, Zenon DEF UsersKept, Frame
<1>3. ASSUME req[q].kind = "SetUsers", pc'[q] \in {"start", "lock", "locked"}
      PROVE  pc[q] \in {"start", "lock", "locked"}
  <2>1. CASE Look(q)
    BY <1>0, <1>3, <2>1, LookEffect DEF Loops
  <2>2. CASE lock(q)
    BY <1>3, <2>2 DEF lock, SetKinds
  <2>3. CASE Change(q)
    <3>1. \E x \in {"header", "element", "shifted", "end"} : pc' = [pc EXCEPT ![q] = x]
      BY <2>3, Zenon DEF Change, handleModify, appendUser, handleAdd, deleteShift, handleDelete,
         setList, storeHeader, setWord, Answer, Panic, Goto
    <3> QED
      BY <1>3, <3>1, Holder
  <2> QED
    BY <2>1, <2>2, <2>3
<1> QED
  BY <1>1, <1>2, <1>3 DEF UsersKept, Frame

\* So the users are the expected ones, and none is there twice, after every step.
LEMMA UsersStep ==
  ASSUME DirectoryInv, UsersInv, NEW q \in Requests, Look(q) \/ lock(q) \/ Change(q)
  PROVE  UsersInv'
<1>0. SUFFICES ASSUME UsersKept'
               PROVE  /\ \A i, j \in 1..Current("users")'.len :
                           Entry("users", i)' = Entry("users", j)' => i = j
                      /\ \A e : e \in ExpectedUsers' <=>
                                  \E k \in 1..Current("users")'.len : e = Entry("users", k)'
  BY DEF UsersInv
<1>1. PICK n \in Nat : n = Current("users").len
  BY Parts, Contents, Types DEF Header
<1>2. ~setList(q, "SetUsers", "users")
  BY <1>0, KeptStep
<1>3. /\ \A i, j \in 1..n : Entry("users", i) = Entry("users", j) => i = j
      /\ \A e : e \in ExpectedUsers <=> \E k \in 1..n : e = Entry("users", k)
  BY <1>0, <1>1, KeptStep DEF UsersInv
<1>4. CASE handleAdd(q)
  <2>1. /\ Current("users")'.len = n + 1 /\ Entry("users", n + 1)' = q
        /\ \A k \in 1..n : Entry("users", k)' = Entry("users", k)
    BY <1>1, <1>4, UsersGain
  <2>2. \A e : e \in ExpectedUsers' <=> e \in ExpectedUsers \/ e = q
    BY <1>4, ExpectedStep
  <2>3. \A k \in 1..n : Entry("users", k) # q
    <3>1. ~Did(q, "add")
      BY <1>4, AddEffect, Parts, Zenon DEF RequestInv, Did
    <3>2. /\ Current("users").arr \in 1..Len(arrays)
          /\ n <= Len(arrays[Current("users").arr])
          /\ arrays[Current("users").arr] \in Seq(Refs \cup {Nil})
      BY <1>1, Parts, Types, Contents
    <3> QED
      BY <1>1, <3>1, <3>2, Parts DEF AddedInv, Entry
  <2>4. \A k : k \in 1..(n + 1) <=> k \in 1..n \/ k = n + 1
    BY <1>1
  <2>5. \A i, j \in 1..(n + 1) : Entry("users", i)' = Entry("users", j)' => i = j
    BY <1>3, <2>1, <2>3, <2>4
  <2>6. \A e : e \in ExpectedUsers' <=> \E k \in 1..(n + 1) : e = Entry("users", k)'
    BY <1>3, <2>1, <2>2, <2>4
  <2> QED
    BY <2>1, <2>5, <2>6
<1>5. CASE Shifts(q) /\ on[q] = "users"
  <2> DEFINE at == found[q][1].at
             from(k) == IF k < at THEN k ELSE k + 1
  <2>1. /\ at \in 1..n /\ removed'[q] = Entry("users", at) /\ Current("users")'.len = n - 1
        /\ \A k \in 1..(n - 1) : Entry("users", k)' = Entry("users", from(k))
    BY <1>1, <1>5, ListLoses DEF Lists
  <2>2. \A e : e \in ExpectedUsers' <=> e \in ExpectedUsers /\ e # removed'[q]
    BY <1>5, ExpectedStep
  <2> HIDE DEF at
  <2>3. /\ \A k \in 1..(n - 1) : from(k) \in 1..n /\ from(k) # at
        /\ \A i, j \in 1..(n - 1) : from(i) = from(j) => i = j
        /\ \A k \in 1..n : k # at => \E m \in 1..(n - 1) : k = from(m)
    <3>1. \A k \in 1..n : k # at => \E m \in 1..(n - 1) : k = from(m)
      <4>1. SUFFICES ASSUME NEW k \in 1..n, k # at PROVE \E m \in 1..(n - 1) : k = from(m)
        OBVIOUS
      <4>2. CASE k < at
        BY <2>1, <4>1, <4>2
      <4>3. CASE k > at
        <5>1. k - 1 \in 1..(n - 1) /\ k = from(k - 1)
          BY <2>1, <4>1, <4>3
        <5> QED
          BY <5>1
      <4> QED
        BY <2>1, <4>1, <4>2, <4>3
    <3> QED
      BY <2>1, <3>1
  <2> HIDE DEF from
  <2>4. \A i, j \in 1..(n - 1) : Entry("users", i)' = Entry("users", j)' => i = j
    BY <1>3, <2>1, <2>3
  <2>5. \A e : e \in ExpectedUsers' <=> \E k \in 1..n : k # at /\ e = Entry("users", k)
    BY <1>3, <2>1, <2>2, Zenon
  <2>6. \A e : e \in ExpectedUsers' <=> \E k \in 1..(n - 1) : e = Entry("users", k)'
    BY <2>1, <2>3, <2>5
  <2> QED
    BY <2>1, <2>4, <2>6
<1>6. CASE ~handleAdd(q) /\ ~(Shifts(q) /\ on[q] = "users")
  BY <1>1, <1>2, <1>3, <1>6, UsersSame, ExpectedStep
<1> QED
  BY <1>4, <1>5, <1>6

\* The directory is started with different users.
DistinctStart ==
  \A i, j \in 1..Len(Defaults.Users) : Defaults.Users[i] = Defaults.Users[j] => i = j

\* UsersInv holds when the directory starts.
LEMMA InitUsersInv ==
  ASSUME Init, DistinctStart
  PROVE  UsersInv
<1>1. /\ Defaults.Users \in Seq(Entries) /\ Defaults.Groups \in Seq(Entries)
  BY DirectoryAssumption
<1>2. Current("users") = [arr |-> 1, len |-> Len(Defaults.Users)] /\ arrays[1] = Defaults.Users
  BY <1>1 DEF Init, Current
<1>3. /\ Current("users").len = Len(Defaults.Users)
      /\ \A k : Entry("users", k) = Defaults.Users[k]
  BY <1>2 DEF Entry
<1>4. Deleted = {}
  BY DEF Init, Deleted
<1>5. \A q \in Requests : ~Did(q, "add")
  BY Zenon DEF Init, Did
<1> QED
  BY <1>3, <1>4, <1>5 DEF UsersInv, ExpectedUsers, DistinctStart

\* What the invariant says when nobody has d.mu.
LEMMA IntactNow ==
  ASSUME DirectoryInv, UsersInv
  PROVE  EntriesIntact
<1>0. SUFFICES ASSUME mu = Nil, \A q \in Requests : req[q].kind = "SetUsers" => reply[q] = "none"
               PROVE  /\ Members("users") = UsersLeft
                      /\ \A i, j \in 1..list["users"].len : Slots("users")[i] = Slots("users")[j] => i = j
  BY Zenon DEF EntriesIntact
<1>1. \A q \in Requests : RequestInv(q) /\ pc[q] \in PCs \ Changing
  BY <1>0, Holder, DirectoryAssumption, Parts, Zenon DEF Refs
<1>2. UsersKept
  BY <1>0, <1>1 DEF UsersKept, RequestInv, PCs, Changing, FindKinds
<1>3. \A q \in Requests : HasDeleted(q) <=> Did(q, "delete") /\ on[q] = "users"
  BY <1>1, Zenon DEF HasDeleted, Did, Changing
<1>4. ExpectedUsers = UsersLeft
  <2>1. Deleted = {removed[q] : q \in {r \in Requests : HasDeleted(r)}}
    BY Zenon DEF Deleted, HasDeleted
  <2>2. {r \in Requests : HasDeleted(r)} = {r \in Requests : Did(r, "delete") /\ on[r] = "users"}
    BY <1>3
  <2> QED
    BY <2>1, <2>2, Zenon DEF ExpectedUsers, UsersLeft
<1>5. /\ list["users"].len \in Nat /\ list["users"] = Current("users")
      /\ \A k \in 1..list["users"].len : Slots("users")[k] = Entry("users", k)
  BY <1>0, SlotsAreEntries DEF Lists
<1>6. /\ \A i, j \in 1..list["users"].len : Slots("users")[i] = Slots("users")[j] => i = j
      /\ Members("users") = ExpectedUsers
  BY <1>2, <1>5 DEF UsersInv, Members
<1> QED
  BY <1>4, <1>6

(* No add or delete is lost or half done, however the goroutines of the    *)
(* requests interleave: handleAdd and handleDelete change the slice under  *)
(* d.mu, so whenever it is free the users are the ones the directory was   *)
(* started with and the answered adds, less what the answered deletes have *)
(* removed, each of them once.                                             *)
THEOREM NoUserLost ==
  ASSUME DistinctStart
  PROVE  Spec => []EntriesIntact
<1>1. Init => DirectoryInv /\ UsersInv
  BY InitDirectoryInv, InitUsersInv
<1>2. DirectoryInv /\ UsersInv /\ [Next]_vars => DirectoryInv' /\ UsersInv'
  <2>1. DirectoryInv /\ UsersInv /\ Next => UsersInv'
    BY UsersStep DEF Next
  <2>2. DirectoryInv /\ UsersInv /\ UNCHANGED vars => UsersInv'
    BY UsersStutter
  <2> QED
    BY <2>1, <2>2, NextDirectoryInv
<1>3. DirectoryInv /\ UsersInv => EntriesIntact
  BY IntactNow, Zenon
<1> QED
  BY <1>1, <1>2, <1>3, PTL DEF Spec

-----------------------------------------------------------------------------
(* Which step answers a request.                                           *)

\* A step in which a request is answered is one of its own.
LEMMA AnswersItself ==
  ASSUME DirectoryInv, NEW q \in Requests, Look(q) \/ lock(q) \/ Change(q),
         NEW p \in Requests, pc[p] # "end", pc'[p] = "end"
  PROVE  p = q
  BY LookFrame, ChangeFrame, Parts, Zenon DEF Frame

\* A search of users is answered at the end of its loop, or panics.
LEMMA SearchEnds ==
  ASSUME DirectoryInv, NEW q \in Requests, Look(q) \/ lock(q) \/ Change(q),
         req[q].kind = "searchUsers", pc'[q] = "end"
  PROVE  LoopDone(q, "find") \/ nilEntry(q)
<1>1. pc \in [Requests -> PCs] /\ RequestInv(q)
  BY Parts, Types, Zenon
<1>2. ~lock(q)
  BY <1>1 DEF lock
<1>3. ~Change(q)
  BY <1>1, Zenon
  DEF Change, RequestInv, handleModify, appendUser, handleAdd, deleteShift, handleDelete,
     setList, storeHeader, setWord, Answer, Goto, SetKinds
<1>4. ~begin(q)
  BY <1>1 DEF begin, Immediate, Goto, SetKinds
<1>5. ~get(q)
  BY Zenon DEF get, GetKinds
<1>6. ~find(q) /\ ~findMembers(q)
  BY <1>1, FindEffect, FindMembersEffect, Zenon
<1>7. ~handleBind(q)
  BY <1>1, Zenon DEF handleBind, RequestInv
<1>8. ~nextLoop(q)
  BY <1>1, ZenonT(30) DEF nextLoop
<1>9. handleSearch(q) => LoopDone(q, "find")
  BY ZenonT(30) DEF handleSearch, LastLoopDone
<1>10. refuse(q) => LoopDone(q, "find")
  BY <1>1, ZenonT(30) DEF refuse, LastLoopDone, LoopDone, RequestInv
<1>11. writeError(q) => LoopDone(q, "find")
  BY ZenonT(30) DEF writeError, Immediate, LastLoopDone
<1> QED
  BY <1>2, <1>3, <1>4, <1>5, <1>6, <1>7, <1>8, <1>9, <1>10, <1>11, ZenonT(30) DEF Look

\* Only handleModify answers a modify with success.
LEMMA ModifyComes ==
  ASSUME DirectoryInv, NEW q \in Requests, Look(q) \/ lock(q) \/ Change(q),
         req[q].kind = "modify", pc'[q] = "end", reply'[q] = "success"
  PROVE  handleModify(q)
<1>0. /\ DirectoryTypes /\ RequestInv(q) /\ pc \in [Requests -> PCs] /\ reply \in [Requests -> Codes]
  BY Parts, Types
<1>1. ~Look(q)
  BY <1>0, LookEffect
<1>2. ~lock(q)
  BY <1>0 DEF lock
<1>3. ~(appendUser(q) \/ handleAdd(q) \/ deleteShift(q) \/ handleDelete(q)
          \/ setList(q, "SetUsers", "users") \/ setList(q, "SetGroups", "groups") \/ storeHeader(q) \/ setWord(q))
  BY <1>0 DEF RequestInv, appendUser, handleAdd, deleteShift, handleDelete, setList, storeHeader, setWord,
     Answer, Goto, SetKinds
<1> QED
  BY <1>1, <1>2, <1>3 DEF Change

\* Any other handler leaves the attributes of every entry but its own alone.
LEMMA OthersLeaveAttributes ==
  ASSUME DirectoryInv, NEW q \in Requests, Look(q) \/ lock(q) \/ Change(q), req[q].kind # "modify"
  PROVE  \A e \in Refs : attrs'[e] # attrs[e] => e = q
<1>1. CASE Look(q)
  BY <1>1, LookFrame, Parts DEF setVars
<1>2. CASE lock(q)
  BY <1>2 DEF lock, setVars
<1>3. CASE handleAdd(q)
  BY <1>3, Parts, Types DEF handleAdd
<1>4. CASE Change(q) /\ ~handleAdd(q)
  <2>1. ~handleModify(q)
    BY DEF handleModify
  <2>2. UNCHANGED attrs
    BY <1>4, <2>1, ZenonT(30) DEF Change, appendUser, deleteShift, handleDelete, setList,
       storeHeader,
       setWord, setVars
  <2> QED
    BY <2>2, Zenon
<1> QED
  BY <1>1, <1>2, <1>3, <1>4

\* The entries of a list after a step that completes its header.
LEMMA MembersAfter ==
  ASSUME DirectoryInv, NEW l \in Lists, list'[l] = Current(l), arrays' = arrays
  PROVE  \A e : e \in Members(l)' <=> e \in Refs /\ \E k \in 1..Current(l).len : e = Entry(l, k)
<1>1. /\ Current(l) \in Header /\ Current(l).arr \in 1..Len(arrays)
      /\ Current(l).len <= Len(arrays[Current(l).arr])
      /\ arrays \in Seq(Seq(Refs \cup {Nil}))
      /\ \A k \in 1..Current(l).len : Entry(l, k) # Nil /\ Entry(l, k) = arrays[Current(l).arr][k]
  BY Parts, Types, Contents, Zenon DEF Entry
<1>2. Members(l)' = {SubSeq(arrays[Current(l).arr], 1, Current(l).len)[k] : k \in 1..Current(l).len}
  BY Zenon DEF Members, Slots
<1> DEFINE h == Current(l)
           E(k) == Entry(l, k)
<1> HIDE DEF h, E
<1>3. /\ h \in Header /\ h.arr \in 1..Len(arrays) /\ h.len <= Len(arrays[h.arr])
      /\ \A k \in 1..h.len : E(k) # Nil /\ E(k) = arrays[h.arr][k]
  BY <1>1, Zenon DEF h, E
<1>4. arrays[h.arr] \in Seq(Refs \cup {Nil}) /\ h.len \in Nat
  BY <1>1, <1>3 DEF Header
<1>5. \A k \in 1..h.len : SubSeq(arrays[h.arr], 1, h.len)[k] = E(k) /\ E(k) \in Refs
  BY <1>3, <1>4
<1> QED
  BY <1>2, <1>5, Zenon DEF h, E

=============================================================================
