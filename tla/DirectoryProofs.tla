-------------------------- MODULE DirectoryProofs ---------------------------
(***************************************************************************)
(* The test directory with any number of concurrent requests: the          *)
(* invariant of DirectoryInductive holds, and with it the types and what   *)
(* is known of the slices that Users and Groups hand out.                  *)
(***************************************************************************)
EXTENDS DirectoryInductive

\* An array keeps its length, and a stored slot stays stored.
LEMMA ArraysStep ==
  ASSUME DirectoryInv, NEW q \in Requests, Look(q) \/ lock(q) \/ Change(q)
  PROVE  /\ arrays' \in Seq(Seq(Refs \cup {Nil}))
         /\ Len(arrays') >= Len(arrays)
         /\ \A a \in 1..Len(arrays) :
              /\ Len(arrays'[a]) = Len(arrays[a])
              /\ \A k \in 1..Len(arrays[a]) : arrays[a][k] # Nil => arrays'[a][k] # Nil
<1>0. arrays \in Seq(Seq(Refs \cup {Nil})) /\ "users" \in Lists /\ "groups" \in Lists
  BY Parts, Types
<1>1. CASE Quiet(q)
  <2>1. arrays' = arrays
    BY <1>0, <1>1, QuietCurrent
  <2> QED
    BY <1>0, <2>1
<1>2. CASE Allocates(q)
  <2>1. \E x \in Seq(Refs \cup {Nil}) : arrays' = Append(arrays, x)
    <3>1. CASE appendUser(q) /\ list["users"].len = Len(arrays[list["users"].arr])
      BY <3>1, GrowEffect
    <3>2. ASSUME NEW kind \in {"SetUsers", "SetGroups"}, NEW l \in Lists, setList(q, kind, l)
          PROVE  \E x \in Seq(Refs \cup {Nil}) : arrays' = Append(arrays, x)
      <4>1. PICK m \in Lists : m # l
        BY DEF Lists
      <4>2. arrays' = Append(arrays, req[q].entries) /\ req[q].entries \in Seq(Entries)
        BY <3>2, <4>1, SetListEffect
      <4>3. req[q].entries \in Seq(Refs \cup {Nil})
        BY <4>2 DEF Refs
      <4> QED
        BY <4>2, <4>3
    <3> QED
      BY <1>0, <1>2, <3>1, <3>2 DEF Allocates
  <2> QED
    BY <1>0, <2>1
<1>3. CASE Shifts(q)
  <2>0. PICK l \in Lists : l = on[q]
    BY Holder
  <2>1. PICK m \in Lists \ {l} : TRUE
    BY DEF Lists
  <2> DEFINE h == list[l]
             at == found[q][1].at
  <2>2. /\ arrays' \in Seq(Seq(Refs \cup {Nil})) /\ Writes(h.arr, shift(arrays[h.arr], at, h.len))
        /\ Len(arrays'[h.arr]) = Len(arrays[h.arr]) /\ h \in Header /\ at \in 1..h.len
        /\ Current(l) = h /\ h.arr \in 1..Len(arrays)
    BY <1>3, <2>0, <2>1, ShiftEffect
  <2>3. h.len \in Nat /\ h.len <= Len(arrays[h.arr]) /\ \A k \in 1..h.len : arrays[h.arr][k] # Nil
    BY <2>2, Parts, Contents, Zenon DEF Entry, Header
  <2>4. arrays[h.arr] \in Seq(Refs \cup {Nil})
    BY <1>0, <2>2
  <2> HIDE DEF h, at
  <2>5. \A k \in 1..Len(arrays[h.arr]) : arrays[h.arr][k] # Nil => arrays'[h.arr][k] # Nil
    <3> DEFINE s == arrays[h.arr]
               n == h.len
    <3>1. arrays'[h.arr] = shift(s, at, n)
      BY <2>2 DEF Writes
    <3>2. /\ s \in Seq(Refs \cup {Nil}) /\ n \in Nat /\ at \in 1..n /\ n <= Len(s)
          /\ \A k \in 1..n : s[k] # Nil
      BY <2>2, <2>3, <2>4
    <3> HIDE DEF s, n
    <3>3. \A k \in 1..Len(s) : s[k] # Nil => shift(s, at, n)[k] # Nil
      BY <3>2 DEF shift
    <3> QED
      BY <3>1, <3>3 DEF s
  <2>6. Len(arrays') = Len(arrays) /\ \A b \in 1..Len(arrays) : b # h.arr => arrays'[b] = arrays[b]
    BY <2>2 DEF Writes
  <2>7. Len(arrays') >= Len(arrays)
    BY <1>0, <2>6
  <2> QED
    BY <2>2, <2>5, <2>6, <2>7, Zenon
<1>4. CASE handleAdd(q)
  <2> DEFINE a == next[q].arr
             n == next[q].len
  <2>1. /\ arrays' \in Seq(Seq(Refs \cup {Nil})) /\ Writes(a, [arrays[a] EXCEPT ![n] = q])
        /\ Len(arrays'[a]) = Len(arrays[a]) /\ a \in 1..Len(arrays) /\ n \in 1..Len(arrays[a])
        /\ q # Nil
    BY <1>4, AddEffect, Holder, Zenon
  <2> HIDE DEF a, n
  <2>2. \A k \in 1..Len(arrays[a]) : arrays[a][k] # Nil => arrays'[a][k] # Nil
    BY <1>0, <2>1 DEF Writes
  <2>3. Len(arrays') = Len(arrays) /\ \A b \in 1..Len(arrays) : b # a => arrays'[b] = arrays[b]
    BY <2>1 DEF Writes
  <2>4. Len(arrays') >= Len(arrays)
    BY <1>0, <2>3
  <2> QED
    BY <2>1, <2>2, <2>3, <2>4, Zenon
<1> QED
  BY <1>1, <1>2, <1>3, <1>4, StepKinds, ZenonT(30)

\* The contents of one list after a step: entries in an array with room for them.
Whole(l) ==
  /\ Current(l) \in Header
  /\ Current(l).arr \in 1..Len(arrays)
  /\ Current(l).len <= Len(arrays[Current(l).arr])
  /\ \A k \in 1..Current(l).len : Entry(l, k) # Nil

\* The arrays are only ever added to, so what is in one place stays whole.
LEMMA KeptWhole ==
  ASSUME DirectoryInv, NEW q \in Requests, Look(q) \/ lock(q) \/ Change(q), NEW l \in Lists,
         Current(l)' = Current(l)
  PROVE  Whole(l)'
<1>1. /\ Current(l) \in Header /\ Current(l).arr \in 1..Len(arrays)
      /\ Current(l).len <= Len(arrays[Current(l).arr])
      /\ \A k \in 1..Current(l).len : arrays[Current(l).arr][k] # Nil
      /\ Current(l).len \in Nat
      /\ arrays \in Seq(Seq(Refs \cup {Nil}))
  BY Parts, Types, Contents, Zenon DEF Entry, Header
<1> DEFINE c == Current(l)
<1>2. /\ Len(arrays') >= Len(arrays) /\ Len(arrays'[c.arr]) = Len(arrays[c.arr])
      /\ \A k \in 1..Len(arrays[c.arr]) : arrays[c.arr][k] # Nil => arrays'[c.arr][k] # Nil
      /\ arrays' \in Seq(Seq(Refs \cup {Nil}))
  BY <1>1, ArraysStep, SMTT(30)
<1>3. arrays[c.arr] \in Seq(Refs \cup {Nil})
  BY <1>1
<1> HIDE DEF c
<1>4. c.arr \in 1..Len(arrays')
  BY <1>1, <1>2 DEF c
<1>5. \A k \in 1..c.len : arrays'[c.arr][k] # Nil
  BY <1>1, <1>2, <1>3 DEF c
<1> QED
  BY <1>1, <1>2, <1>4, <1>5 DEF Whole, Entry, c

\* A new array is whole as far as it is used.
LEMMA NewWhole ==
  ASSUME arrays \in Seq(Seq(Refs \cup {Nil})), NEW x \in Seq(Refs \cup {Nil}), NEW n \in Nat,
         arrays' = Append(arrays, x), NEW l \in Lists,
         Current(l)' = [arr |-> Len(arrays) + 1, len |-> n],
         n <= Len(x), \A k \in 1..n : x[k] # Nil
  PROVE  Whole(l)' /\ Current(l)'.arr = Len(arrays) + 1
<1>1. Len(arrays') = Len(arrays) + 1 /\ arrays'[Len(arrays) + 1] = x /\ Len(arrays) \in Nat
  OBVIOUS
<1>2. Current(l)'.arr = Len(arrays) + 1 /\ Current(l)'.len = n /\ Current(l)' \in Header
  BY <1>1 DEF Header
<1> QED
  BY <1>1, <1>2 DEF Whole, Entry

\* Each list stays whole, and the two stay apart.
LEMMA WholeStep ==
  ASSUME DirectoryInv, NEW q \in Requests, Look(q) \/ lock(q) \/ Change(q)
  PROVE  /\ \A l \in Lists : Whole(l)'
         /\ Current("users")'.arr # Current("groups")'.arr
<1>0. /\ arrays \in Seq(Seq(Refs \cup {Nil})) /\ Len(arrays) \in Nat
      /\ Lists = {"users", "groups"}
      /\ Current("users").arr # Current("groups").arr
      /\ \A l \in Lists : Current(l).arr \in 1..Len(arrays)
  BY Parts, Types, Contents, Zenon DEF Lists
<1>1. CASE Quiet(q)
  <2>1. \A l \in Lists : Current(l)' = Current(l)
    BY <1>1, QuietCurrent
  <2> QED
    BY <1>0, <2>1, KeptWhole
<1>2. CASE appendUser(q) /\ list["users"].len = Len(arrays[list["users"].arr])
  <2> DEFINE x == grown(arrays[list["users"].arr])
             n == list["users"].len
  <2>1. /\ x \in Seq(Refs \cup {Nil}) /\ n \in Nat /\ n + 1 <= Len(x)
        /\ Current("users") = list["users"]
        /\ \A k \in 1..n : x[k] = Entry("users", k)
        /\ arrays' = Append(arrays, x)
        /\ Current("users")' = [arr |-> Len(arrays) + 1, len |-> n]
        /\ Current("groups")' = Current("groups")
    BY <1>2, GrowEffect
  <2>2. \A k \in 1..n : x[k] # Nil
    BY <1>0, <2>1, Parts, Contents
  <2>3. n <= Len(x)
    BY <2>1
  <2> HIDE DEF x, n
  <2>4. Whole("users")' /\ Current("users")'.arr = Len(arrays) + 1
    BY <1>0, <2>1, <2>2, <2>3, NewWhole, Zenon
  <2>5. Whole("groups")' /\ Current("groups")'.arr \in 1..Len(arrays)
    BY <1>0, <2>1, KeptWhole
  <2> QED
    BY <1>0, <2>4, <2>5
<1>3. ASSUME NEW kind \in {"SetUsers", "SetGroups"}, NEW l \in Lists, setList(q, kind, l)
      PROVE  \A m \in Lists : Whole(m)' /\ (m # l => Current(l)'.arr # Current(m)'.arr)
  <2>1. PICK m \in Lists : m # l
    BY DEF Lists
  <2> DEFINE x == req[q].entries
  <2>2. /\ x \in Seq(Entries) /\ arrays' = Append(arrays, x)
        /\ Current(l)' = [arr |-> Len(arrays) + 1, len |-> Len(x)]
        /\ Current(m)' = Current(m)
    BY <1>3, <2>1, SetListEffect
  <2> HIDE DEF x
  <2>3. x \in Seq(Refs \cup {Nil}) /\ Len(x) \in Nat /\ Len(x) <= Len(x)
    BY <2>2 DEF Refs
  <2>4. \A k \in 1..Len(x) : x[k] # Nil
    <3>1. \A k \in 1..Len(x) : x[k] \in Entries
      BY <2>2
    <3> QED
      BY <3>1, DirectoryAssumption DEF Refs
  <2>5. Whole(l)' /\ Current(l)'.arr = Len(arrays) + 1
    BY <1>0, <2>2, <2>3, <2>4, NewWhole, Zenon
  <2>6. Whole(m)' /\ Current(m)'.arr \in 1..Len(arrays)
    BY <1>0, <2>2, KeptWhole
  <2>7. \A k \in Lists : k = l \/ k = m
    BY <1>0, <2>1
  <2> QED
    BY <1>0, <2>5, <2>6, <2>7
<1>4. CASE Shifts(q)
  <2>0. PICK l \in Lists : l = on[q]
    BY Holder
  <2>1. PICK m \in Lists : m # l
    BY DEF Lists
  <2> DEFINE h == list[l]
             at == found[q][1].at
  <2>2. /\ Current(l) = h
        /\ h \in Header /\ h.arr \in 1..Len(arrays) /\ at \in 1..h.len
        /\ Len(arrays'[h.arr]) = Len(arrays[h.arr])
        /\ Len(arrays') = Len(arrays)
        /\ Current(l)' = [arr |-> h.arr, len |-> h.len - 1]
        /\ Current(m)' = Current(m)
    BY <1>4, <2>0, <2>1, ShiftEffect DEF Writes
  <2>3. /\ h.len \in Nat /\ h.len <= Len(arrays[h.arr])
        /\ \A k \in 1..h.len : arrays[h.arr][k] # Nil
    BY <2>2, Parts, Contents, Zenon DEF Entry, Header
  <2>4. arrays[h.arr] \in Seq(Refs \cup {Nil})
    BY <1>0, <2>2
  <2> HIDE DEF h, at
  <2>5. \A k \in 1..Len(arrays[h.arr]) : arrays[h.arr][k] # Nil => arrays'[h.arr][k] # Nil
    BY <2>2, ArraysStep
  <2>6. \A k \in 1..(h.len - 1) : arrays'[h.arr][k] # Nil
    BY <2>3, <2>4, <2>5
  <2>7. Current(l)' \in Header /\ Current(l)'.arr = h.arr /\ Current(l)'.len = h.len - 1
    BY <2>2, <2>3 DEF Header
  <2>8. h.len - 1 <= Len(arrays'[h.arr]) /\ h.arr \in 1..Len(arrays')
    BY <2>2, <2>3, <2>4
  <2>9. Whole(l)' /\ Current(l)'.arr = Current(l).arr
    BY <2>2, <2>6, <2>7, <2>8 DEF Whole, Entry
  <2>10. Whole(m)' /\ Current(m)'.arr = Current(m).arr
    BY <2>2, KeptWhole
  <2>11. \A k \in Lists : k = l \/ k = m
    BY <1>0, <2>1
  <2>12. \A k \in Lists : Whole(k)' /\ Current(k)'.arr = Current(k).arr
    BY <2>9, <2>10, <2>11, Zenon
  <2> QED
    BY <1>0, <2>12
<1>5. CASE handleAdd(q)
  <2> DEFINE a == next[q].arr
             n == next[q].len
  <2>1. /\ a \in 1..Len(arrays) /\ n \in 1..Len(arrays[a]) /\ q # Nil
        /\ Current("users") = [arr |-> a, len |-> n - 1]
        /\ Current("users")' = [arr |-> a, len |-> n]
        /\ Current("groups")' = Current("groups")
        /\ Len(arrays') = Len(arrays) /\ arrays'[a] = [arrays[a] EXCEPT ![n] = q]
        /\ Len(arrays'[a]) = Len(arrays[a])
    BY <1>5, AddEffect, Holder DEF Writes
  <2>2. \A k \in 1..(n - 1) : arrays[a][k] # Nil
    BY <1>0, <2>1, Parts, Contents DEF Entry
  <2> HIDE DEF a, n
  <2>3. arrays[a] \in Seq(Refs \cup {Nil}) /\ n \in Nat /\ n <= Len(arrays[a])
    BY <1>0, <2>1
  <2>4. \A k \in 1..n : arrays'[a][k] # Nil
    BY <2>1, <2>2, <2>3
  <2>5. Current("users")' \in Header /\ Current("users")'.arr = a /\ Current("users")'.len = n
    BY <2>1, <2>3 DEF Header
  <2>6. Whole("users")' /\ Current("users")'.arr = Current("users").arr
    BY <2>1, <2>3, <2>4, <2>5 DEF Whole, Entry
  <2>7. Whole("groups")' /\ Current("groups")'.arr = Current("groups").arr
    BY <1>0, <2>1, KeptWhole, SMTT(30)
  <2> QED
    BY <1>0, <2>6, <2>7
<1> QED
  BY <1>0, <1>1, <1>2, <1>3, <1>4, <1>5, StepKinds DEF Allocates

\* An append keeps room for its element until it stores it.
LEMMA AppendStep ==
  ASSUME DirectoryInv, NEW q \in Requests, Look(q) \/ lock(q) \/ Change(q), NEW p \in Requests
  PROVE  /\ pc'[p] \in {"header", "element"} /\ req'[p].kind = "add" =>
              next'[p].len \in 1..Len(arrays'[next'[p].arr])
         /\ pc'[p] = "element" => list'["users"] = next'[p]
<1>0. /\ DirectoryTypes /\ RequestInv(q) /\ RequestInv(q)' /\ req' = req
      /\ pc[p] \in {"header", "element"} /\ req[p].kind = "add" =>
           next[p].len \in 1..Len(arrays[next[p].arr])
      /\ pc[p] = "element" => list["users"] = next[p]
      /\ pc \in [Requests -> PCs] /\ next \in [Requests -> Header] /\ on \in [Requests -> Lists]
      /\ list \in [Lists -> Header] /\ "users" \in Lists
      /\ arrays \in Seq(Seq(Refs \cup {Nil}))
  BY Parts, Types, Room, RequestStep, LookFrame, ChangeFrame, Zenon DEF Frame
<1>1. CASE Look(q)
  <2>1. /\ arrays' = arrays /\ list' = list /\ next' = next
        /\ pc'[p] = pc[p] \/ pc'[p] \notin {"header", "element"}
    BY <1>0, <1>1, LookFrame, LookEffect, Zenon DEF Frame, Loops, listVars
  <2> QED
    BY <1>0, <2>1
<1>2. CASE p # q /\ ~Look(q)
  BY <1>2, MutexStep DEF Changing
<1>3. CASE p = q /\ ~Look(q) /\ pc'[q] \in {"header", "element"} /\ req[q].kind = "add"
  <2>0. pc'[q] # pc[q] /\ (appendUser(q) \/ storeHeader(q))
    <3> USE <1>0 DEF Goto, Answer
    <3>1. ~lock(q) /\ ~handleModify(q) /\ ~handleAdd(q) /\ ~handleDelete(q) /\ ~setWord(q)
      BY <1>3, ModifyEffect DEF lock, handleAdd, handleDelete, setWord
    <3>2. ~deleteShift(q)
      BY <1>3, Zenon DEF deleteShift
    <3>3. ~setList(q, "SetUsers", "users") /\ ~setList(q, "SetGroups", "groups")
      BY <1>3 DEF setList
    <3>4. appendUser(q) \/ storeHeader(q)
      BY <1>3, <3>1, <3>2, <3>3, Zenon DEF Change
    <3>5. appendUser(q) => pc[q] = "locked"
      BY Zenon DEF appendUser
    <3>6. storeHeader(q) => pc'[q] # pc[q]
      BY DEF storeHeader
    <3> QED
      BY <1>3, <3>4, <3>5, <3>6
  <2>1. CASE storeHeader(q)
    <3>1. /\ pc[q] = "header" /\ pc'[q] = "element" /\ arrays' = arrays /\ next' = next
          /\ list' = [list EXCEPT ![on[q]] = next[q]] /\ on[q] = "users"
      BY <1>0, <1>3, <2>1 DEF storeHeader, Goto, Answer, RequestInv, SetKinds
    <3> QED
      BY <1>0, <1>3, <3>1
  <2>2. CASE appendUser(q) /\ list["users"].len = Len(arrays[list["users"].arr])
    <3> DEFINE x == grown(arrays[list["users"].arr])
               n == list["users"].len
    <3>1. /\ next'[q] = [arr |-> Len(arrays) + 1, len |-> n + 1] /\ pc'[q] = "header"
          /\ arrays' = Append(arrays, x) /\ n \in Nat /\ n + 1 <= Len(x) /\ x \in Seq(Refs \cup {Nil})
      BY <2>2, GrowEffect
    <3> HIDE DEF x, n
    <3>2. arrays'[Len(arrays) + 1] = x
      BY <1>0, <3>1
    <3> QED
      BY <1>3, <3>1, <3>2
  <2>3. CASE appendUser(q) /\ list["users"].len < Len(arrays[list["users"].arr])
    <3> DEFINE h == list["users"]
    <3>1. h \in Header /\ h.len \in Nat /\ h.arr \in 1..Len(arrays) /\ ~(h.len = Len(arrays[h.arr]))
      BY <1>0, <2>3, Types DEF Header
    <3>2. /\ arrays' = arrays
          /\ next' = [next EXCEPT ![q] = [h EXCEPT !.len = @ + 1]]
          /\ list' = [list EXCEPT !["users"].len = @ + 1]
      BY <2>3, <3>1, Zenon DEF appendUser
    <3>3. next'[q] = [h EXCEPT !.len = @ + 1] /\ list'["users"] = [h EXCEPT !.len = @ + 1]
      BY <1>0, <3>2
    <3>4. next'[q].arr = h.arr /\ next'[q].len = h.len + 1
      BY <3>1, <3>3 DEF Header
    <3>5. Len(arrays[h.arr]) \in Nat
      BY <1>0, <3>1
    <3>6. next'[q].len \in 1..Len(arrays'[next'[q].arr])
      BY <2>3, <3>1, <3>2, <3>4, <3>5
    <3> QED
      BY <1>3, <3>3, <3>6
  <2> QED
    BY <2>0, <2>1, <2>2, <2>3, Zenon DEF appendUser
<1>4. CASE p = q /\ ~Look(q) /\ ~(pc'[q] \in {"header", "element"} /\ req[q].kind = "add")
  BY <1>0, <1>4 DEF RequestInv
<1> QED
  BY <1>1, <1>2, <1>3, <1>4

\* Every step keeps the lists.
LEMMA ListsStep ==
  ASSUME DirectoryInv, NEW q \in Requests, Look(q) \/ lock(q) \/ Change(q)
  PROVE  ListsInv'
  BY WholeStep, AppendStep DEF ListsInv, Whole

\* The headers of the lists name arrays that exist, also half stored.
LEMMA HeadersStep ==
  ASSUME DirectoryInv, NEW q \in Requests, Look(q) \/ lock(q) \/ Change(q)
  PROVE  list' \in [Lists -> Header] /\ \A l \in Lists : list'[l].arr \in 1..Len(arrays')
<1>0. /\ DirectoryTypes /\ RequestInv(q)
      /\ list \in [Lists -> Header] /\ next \in [Requests -> Header] /\ on[q] \in Lists
      /\ arrays \in Seq(Seq(Refs \cup {Nil})) /\ Len(arrays) \in Nat
      /\ \A l \in Lists : list[l].arr \in 1..Len(arrays)
      /\ Lists = {"users", "groups"}
      /\ mu = q <=> pc[q] \in Changing
      /\ q # Nil
  BY Holder, Parts, Types, Zenon DEF Lists
<1>a. /\ Len(arrays') \in Nat /\ Len(arrays') >= Len(arrays)
  BY ArraysStep
<1>1. CASE list' = list
  BY <1>0, <1>a, <1>1
<1>2. CASE handleDelete(q) \/ storeHeader(q)
  <2>1. /\ pc[q] \in {"shifted", "header"} /\ list' = [list EXCEPT ![on[q]] = next[q]]
    BY <1>2 DEF handleDelete, storeHeader, Answer, Goto
  <2>2. next[q].arr = Current(on[q]).arr
    BY <1>0, <2>1 DEF Current, Changing
  <2>3. next[q].arr \in 1..Len(arrays)
    BY <1>0, <2>2, Parts, Contents
  <2> QED
    BY <1>0, <1>a, <2>1, <2>3
<1>3. CASE appendUser(q) /\ list["users"].len = Len(arrays[list["users"].arr])
  <2>1. /\ list' \in [Lists -> Header] /\ list'["users"].arr \in {list["users"].arr, Len(arrays) + 1}
        /\ list'["groups"] = list["groups"]
    BY <1>3, GrowEffect
  <2>2. \E x : arrays' = Append(arrays, x) /\ x \in Seq(Refs \cup {Nil})
    BY <1>3, GrowEffect
  <2>3. Len(arrays') = Len(arrays) + 1
    BY <1>0, <2>2
  <2> QED
    BY <1>0, <2>1, <2>3
<1>4. CASE appendUser(q) /\ list["users"].len < Len(arrays[list["users"].arr])
  <2> DEFINE h == list["users"]
  <2>1. h \in Header /\ h.len \in Nat /\ h.arr \in Nat /\ ~(h.len = Len(arrays[h.arr]))
    BY <1>0, <1>4 DEF Header
  <2>2. list' = [list EXCEPT !["users"].len = @ + 1]
    BY <1>4, <2>1, Zenon DEF appendUser
  <2>3. list'["users"] = [h EXCEPT !.len = @ + 1] /\ list'["groups"] = list["groups"]
    BY <1>0, <2>2
  <2>4. [h EXCEPT !.len = @ + 1] \in Header /\ [h EXCEPT !.len = @ + 1].arr = h.arr
    BY <2>1 DEF Header
  <2>5. list' = [list EXCEPT !["users"] = [h EXCEPT !.len = @ + 1]]
    BY <1>0, <2>2
  <2> QED
    BY <1>0, <1>a, <2>3, <2>4, <2>5
<1>5. ASSUME NEW kind \in {"SetUsers", "SetGroups"}, NEW l \in Lists, setList(q, kind, l)
      PROVE  list' \in [Lists -> Header] /\ \A m \in Lists : list'[m].arr \in 1..Len(arrays')
  <2>1. PICK m \in Lists : m # l
    BY DEF Lists
  <2>2. /\ list' \in [Lists -> Header] /\ list'[l].arr \in {list[l].arr, Len(arrays) + 1}
        /\ list'[m] = list[m]
        /\ arrays' = Append(arrays, req[q].entries)
        /\ req[q].entries \in Seq(Entries)
    BY <1>5, <2>1, SetListEffect
  <2>3. Len(arrays') = Len(arrays) + 1
    BY <1>0, <2>2
  <2>4. \A k \in Lists : k = l \/ k = m
    BY <1>0, <2>1
  <2> QED
    BY <1>0, <2>2, <2>3, <2>4, SMTT(30)
<1>6. CASE Look(q)
  BY <1>0, <1>1, <1>6, LookFrame DEF listVars
<1>7. CASE lock(q) \/ handleModify(q) \/ handleAdd(q) \/ setWord(q)
  BY <1>1, <1>7, ModifyEffect DEF lock, handleAdd, setWord, listVars
<1>8. CASE deleteShift(q)
  BY <1>1, <1>8, Zenon DEF deleteShift
<1> QED
  BY <1>0, <1>2, <1>3, <1>4, <1>5, <1>6, <1>7, <1>8, ZenonT(30) DEF Change, appendUser

\* The settings keep their types.
LEMMA SettingsStep ==
  ASSUME DirectoryInv, NEW q \in Requests, Look(q) \/ lock(q) \/ Change(q)
  PROVE  DOMAIN attrs' = Refs /\ allowAnonymousBind' \in BOOLEAN /\ controls' \in BOOLEAN
<1>0. /\ DirectoryTypes /\ DOMAIN attrs = Refs /\ allowAnonymousBind \in BOOLEAN
      /\ controls \in BOOLEAN /\ req[q] \in Ops
  BY Parts, Types, Zenon DEF DirectoryTypes, TypeOK
<1>1. CASE UNCHANGED setVars
  BY <1>0, <1>1 DEF setVars
<1>2. CASE Look(q)
  BY <1>0, <1>1, <1>2, LookFrame DEF setVars
<1>3. CASE handleModify(q)
  BY <1>0, <1>3, ModifyEffect
<1>4. CASE handleAdd(q)
  BY <1>0, <1>4 DEF handleAdd
<1>5. CASE setWord(q)
  BY <1>0, <1>5, DirectoryAssumption DEF setWord
<1>6. CASE lock(q) \/ handleDelete(q) \/ storeHeader(q)
  BY <1>1, <1>6 DEF lock, handleDelete, storeHeader
<1>7. CASE appendUser(q) \/ deleteShift(q)
  BY <1>1, <1>7, Zenon DEF appendUser, deleteShift
<1>8. CASE setList(q, "SetUsers", "users") \/ setList(q, "SetGroups", "groups")
  BY <1>1, <1>8 DEF setList
<1> QED
  BY <1>2, <1>3, <1>4, <1>5, <1>6, <1>7, <1>8 DEF Change

\* Every step keeps the types.
LEMMA TypesStep ==
  ASSUME DirectoryInv, NEW q \in Requests, Look(q) \/ lock(q) \/ Change(q)
  PROVE  DirectoryTypes'
<1>0. DirectoryTypes /\ RequestInv(q) /\ req \in [Requests -> Ops]
  BY Parts, Types
<1>1. Frame(q) /\ crashed' \in BOOLEAN
  BY <1>0, LookFrame, ChangeFrame
<1>2. /\ arrays' \in Seq(Seq(Refs \cup {Nil}))
      /\ Len(arrays') >= Len(arrays)
      /\ Len(arrays) \in Nat
      /\ \A a \in 1..Len(arrays') : arrays'[a] \in Seq(Refs \cup {Nil})
  BY ArraysStep, Parts, Types
<1>3. mu' \in Requests \cup {Nil} /\ \A p \in Requests : pc'[p] \in Changing => mu' = p
  BY MutexStep
<1>4. TypeOK'
  BY <1>1, <1>2, <1>3, HeadersStep, SettingsStep DEF TypeOK, Frame, Changing
<1>5. ASSUME NEW p \in Requests, pc'[p] \in Loops
      PROVE  hdr'[p].arr \in 1..Len(arrays')
  <2>1. hdr'[p].arr \in 1..Len(arrays)
    <3>1. CASE Look(q)
      BY <1>0, <1>1, <1>5, <3>1, Types, LookEffect, Zenon DEF Frame
    <3>2. CASE lock(q) \/ Change(q)
      <4>1. UNCHANGED hdr /\ (p = q => pc'[p] \in Changing \cup {"end"})
        BY <3>2, ChangeFrame
      <4> QED
        BY <1>0, <1>1, <1>5, <4>1, Types, Zenon DEF Frame, Loops, Changing
    <3> QED
      BY <3>1, <3>2
  <2> QED
    BY <1>2, <2>1
<1> QED
  BY <1>0, <1>1, <1>2, <1>4, <1>5, HeadersStep, Zenon DEF DirectoryTypes, Frame

\* A slice a getter handed out while nobody was changing it stays whole.
LEMMA SliceStep ==
  ASSUME DirectoryInv, NEW q \in Requests, Look(q) \/ lock(q) \/ Change(q)
  PROVE  (HandedOut /\ SliceStaysWhole)'
<1> SUFFICES ASSUME NEW p \in Requests, req'[p].kind \in {"Users", "Groups"}, reply'[p] = "got"
             PROVE  /\ hdr'[p].arr \in 1..Len(arrays')
                    /\ \A k \in 1..hdr'[p].len :
                         k <= Len(arrays'[hdr'[p].arr]) /\ arrays'[hdr'[p].arr][k] # Nil
  BY DEF SliceStaysWhole, HandedOut
<1>0. DirectoryTypes /\ RequestInv(q) /\ arrays \in Seq(Seq(Refs \cup {Nil}))
  BY Parts, Types
<1>1. Frame(q)
  BY <1>0, LookFrame, ChangeFrame
<1>2. RequestInv(p) /\ RequestInv(p)'
  BY RequestStep, Parts
<1> DEFINE h == hdr'[p]
<1>3. h \in Header /\ h.len \in Nat /\ h.arr \in Nat
  BY <1>1 DEF Frame, Header
<1>4. /\ h.arr \in 1..Len(arrays)
      /\ \A i \in 1..h.len : i <= Len(arrays[h.arr]) /\ arrays[h.arr][i] # Nil
  <2>1. CASE reply[p] = "got"
    <3>1. p # q
      <4>1. pc[p] = "end"
        BY <1>2, <2>1 DEF RequestInv
      <4> QED
        BY <1>0, <4>1, LookEffect, ChangeFrame, Zenon DEF Loops
    <3>2. h = hdr[p] /\ req[p].kind \in {"Users", "Groups"}
      BY <1>1, <3>1, Zenon DEF Frame
    <3> QED
      BY <2>1, <3>2, Parts, Zenon DEF SliceStaysWhole, HandedOut
  <2>2. CASE reply[p] # "got"
    <3>1. p = q /\ pc'[q] = "end"
      BY <1>1, <1>2, <2>2, Zenon DEF Frame, RequestInv
    <3>2. Look(q)
      BY <1>1, <3>1, ChangeFrame, Zenon
    <3>3. mu = Nil /\ \E l \in Lists : h = list[l]
      BY <1>0, <1>1, <3>1, <3>2, LookEffect, ZenonT(30) DEF Frame, Lists
    <3>4. PICK l \in Lists : h = list[l] /\ Current(l) = h
      BY <3>3, CurrentIsList
    <3>5. /\ h.arr \in 1..Len(arrays) /\ h.len <= Len(arrays[h.arr])
          /\ \A i \in 1..h.len : arrays[h.arr][i] # Nil
      BY <3>4, Parts, Contents, Zenon DEF Entry
    <3>6. arrays[h.arr] \in Seq(Refs \cup {Nil})
      BY <1>0, <3>5
    <3> QED
      BY <1>3, <3>5, <3>6
  <2> QED
    BY <2>1, <2>2
<1>5. arrays[h.arr] \in Seq(Refs \cup {Nil})
  BY <1>0, <1>4
<1> HIDE DEF h
<1>6. /\ Len(arrays') >= Len(arrays) /\ Len(arrays') \in Nat
      /\ Len(arrays'[h.arr]) = Len(arrays[h.arr])
      /\ \A k \in 1..Len(arrays[h.arr]) : arrays[h.arr][k] # Nil => arrays'[h.arr][k] # Nil
  BY <1>4, ArraysStep
<1>7. h.arr \in 1..Len(arrays')
  BY <1>0, <1>4, <1>6
<1>8. \A k \in 1..h.len : k <= Len(arrays'[h.arr]) /\ arrays'[h.arr][k] # Nil
  BY <1>3, <1>4, <1>5, <1>6
<1> QED
  BY <1>7, <1>8 DEF h

\* An answer is final.
LEMMA AnsweredStays ==
  ASSUME DirectoryInv, NEW q \in Requests, Look(q) \/ lock(q) \/ Change(q),
         NEW p \in Requests, reply[p] # "none"
  PROVE  p # q /\ reply'[p] = reply[p] /\ pc'[p] = pc[p] /\ on'[p] = on[p] /\ removed'[p] = removed[p]
<1>0. DirectoryTypes /\ RequestInv(q) /\ pc[p] = "end"
  BY Parts, Zenon DEF RequestInv
<1>1. p # q
  BY <1>0, LookEffect, ChangeFrame, Zenon DEF Loops
<1> QED
  BY <1>0, <1>1, LookFrame, ChangeFrame, Zenon DEF Frame

\* What is stored in an array that a step leaves or makes was there before, was
\* given to a Set function, or is the entry of an add that is answered with it.
LEMMA AddedStep ==
  ASSUME DirectoryInv, NEW q \in Requests, Look(q) \/ lock(q) \/ Change(q)
  PROVE  AddedInv'
<1>0. /\ DirectoryTypes /\ RequestInv(q) /\ arrays \in Seq(Seq(Refs \cup {Nil})) /\ Len(arrays) \in Nat
      /\ req' = req
      /\ Nil \notin Requests /\ Entries \cap Requests = {}
      /\ "users" \in Lists /\ "groups" \in Lists
  BY Parts, Types, LookFrame, ChangeFrame, DirectoryAssumption, Zenon DEF Frame, Refs
<1> DEFINE Done(r) == r \in Requests => req[r].kind = "add" /\ reply'[r] = "success"
<1>1. \A a \in 1..Len(arrays) : \A k \in 1..Len(arrays[a]) : Done(arrays[a][k])
  <2>1. \A r \in Requests : Did(r, "add") => req[r].kind = "add" /\ reply'[r] = "success"
    BY AnsweredStays, Zenon DEF Did
  <2> QED
    BY <2>1, Parts, Zenon DEF AddedInv
<1>2. \A p \in Requests : Done(removed[p])
  <2>1. \A r \in Requests : Did(r, "add") => req[r].kind = "add" /\ reply'[r] = "success"
    BY AnsweredStays DEF Did
  <2> QED
    BY <2>1, Parts, Zenon DEF AddedInv
<1> HIDE DEF Done
<1>3. \A a \in 1..Len(arrays') : \A k \in 1..Len(arrays'[a]) : Done(arrays'[a][k])
  <2>1. CASE Quiet(q)
    BY <1>0, <1>1, <2>1, QuietCurrent
  <2>2. ASSUME NEW x \in Seq(Refs \cup {Nil}), arrays' = Append(arrays, x),
               \A k \in 1..Len(x) : Done(x[k])
        PROVE  \A a \in 1..Len(arrays') : \A k \in 1..Len(arrays'[a]) : Done(arrays'[a][k])
    <3>1. Len(arrays') = Len(arrays) + 1 /\ arrays'[Len(arrays) + 1] = x
          /\ \A a \in 1..Len(arrays) : arrays'[a] = arrays[a]
      BY <1>0, <2>2
    <3>2. \A a \in 1..Len(arrays') : a \in 1..Len(arrays) \/ a = Len(arrays) + 1
      BY <1>0, <3>1
    <3> QED
      BY <1>1, <2>2, <3>1, <3>2
  <2>3. CASE appendUser(q) /\ list["users"].len = Len(arrays[list["users"].arr])
    <3> DEFINE x == grown(arrays[list["users"].arr])
               n == list["users"].len
    <3>1. /\ x \in Seq(Refs \cup {Nil}) /\ arrays' = Append(arrays, x) /\ n \in Nat
          /\ \A k \in 1..n : x[k] = arrays[list["users"].arr][k]
          /\ \A k \in (n + 1)..Len(x) : x[k] = Nil
          /\ n = Len(arrays[list["users"].arr])
          /\ list["users"].arr \in 1..Len(arrays)
      BY <1>0, <2>3, GrowEffect, Types, Zenon DEF Entry
    <3>2. \A k \in 1..Len(x) : k \in 1..n \/ k \in (n + 1)..Len(x)
      BY <3>1
    <3> HIDE DEF x, n
    <3>3. \A k \in 1..n : Done(x[k])
      BY <1>1, <3>1
    <3>4. Done(Nil)
      BY <1>0 DEF Done
    <3>5. \A k \in 1..Len(x) : Done(x[k])
      BY <3>1, <3>2, <3>3, <3>4
    <3> QED
      BY <2>2, <3>1, <3>5
  <2>4. ASSUME NEW kind \in {"SetUsers", "SetGroups"}, NEW l \in Lists, setList(q, kind, l)
        PROVE  \A a \in 1..Len(arrays') : \A k \in 1..Len(arrays'[a]) : Done(arrays'[a][k])
    <3>0. PICK m \in Lists : m # l
      BY DEF Lists
    <3> DEFINE x == req[q].entries
    <3>1. x \in Seq(Entries) /\ arrays' = Append(arrays, x)
      BY <2>4, <3>0, SetListEffect
    <3> HIDE DEF x
    <3>2. x \in Seq(Refs \cup {Nil})
      BY <3>1 DEF Refs
    <3>3. \A k \in 1..Len(x) : x[k] \in Entries
      BY <3>1
    <3>4. \A k \in 1..Len(x) : Done(x[k])
      BY <1>0, <3>3 DEF Done
    <3> QED
      BY <2>2, <3>1, <3>2, <3>4, Zenon
  <2>5. ASSUME NEW b \in 1..Len(arrays), NEW f, Writes(b, f),
               \A k \in DOMAIN f : Done(f[k]), Len(arrays'[b]) = Len(arrays[b])
        PROVE  \A a \in 1..Len(arrays') : \A k \in 1..Len(arrays'[a]) : Done(arrays'[a][k])
    BY <1>1, <2>5, Zenon DEF Writes
  <2>6. CASE Shifts(q)
    <3>0. PICK l \in Lists : l = on[q]
      BY Holder
    <3>1. PICK m \in Lists \ {l} : TRUE
      BY DEF Lists
    <3> DEFINE h == list[l]
               at == found[q][1].at
    <3>2. /\ Writes(h.arr, shift(arrays[h.arr], at, h.len)) /\ Len(arrays'[h.arr]) = Len(arrays[h.arr])
          /\ h \in Header /\ h.arr \in 1..Len(arrays) /\ at \in 1..h.len /\ Current(l) = h
      BY <2>6, <3>0, <3>1, ShiftEffect, Zenon
    <3>3. h.len \in Nat /\ h.len <= Len(arrays[h.arr]) /\ arrays[h.arr] \in Seq(Refs \cup {Nil})
      <4>1. h.len \in Nat /\ h.len <= Len(arrays[h.arr])
        BY <3>2, Parts, Contents, Zenon DEF Header
      <4>2. arrays[h.arr] \in Seq(Refs \cup {Nil})
        BY <1>0, ListArray, Zenon
      <4> QED
        BY <4>1, <4>2, Zenon
    <3> HIDE DEF h, at
    <3>4. /\ DOMAIN shift(arrays[h.arr], at, h.len) = 1..Len(arrays[h.arr])
          /\ \A k \in 1..Len(arrays[h.arr]) : \E i \in 1..Len(arrays[h.arr]) :
               shift(arrays[h.arr], at, h.len)[k] = arrays[h.arr][i]
      BY <3>2, <3>3, ShiftCopies, Zenon
    <3>5. \A k \in DOMAIN shift(arrays[h.arr], at, h.len) : Done(shift(arrays[h.arr], at, h.len)[k])
      BY <1>1, <3>2, <3>4, Zenon
    <3> QED
      BY <2>5, <3>2, <3>5, Zenon
  <2>7. CASE handleAdd(q)
    <3> DEFINE a == next[q].arr
               n == next[q].len
    <3>1. /\ Writes(a, [arrays[a] EXCEPT ![n] = q]) /\ Len(arrays'[a]) = Len(arrays[a])
          /\ a \in 1..Len(arrays) /\ reply'[q] = "success" /\ req[q].kind = "add"
      BY <2>7, AddEffect, Zenon
    <3> HIDE DEF a, n
    <3>2. Done(q)
      BY <3>1 DEF Done
    <3>3. arrays[a] \in Seq(Refs \cup {Nil})
      BY <1>0, <3>1, ArrayType, Zenon
    <3>4. \A k \in DOMAIN [arrays[a] EXCEPT ![n] = q] : Done([arrays[a] EXCEPT ![n] = q][k])
      BY <1>1, <3>1, <3>2, <3>3
    <3> QED
      BY <2>5, <3>1, <3>4, Zenon
  <2> QED
    BY <1>0, <2>1, <2>3, <2>4, <2>6, <2>7, StepKinds DEF Allocates
<1>4. \A p \in Requests : Done(removed'[p])
  <2>1. CASE Shifts(q)
    <3>0. PICK l \in Lists : l = on[q]
      BY Holder
    <3>1. PICK m \in Lists \ {l} : TRUE
      BY DEF Lists
    <3> DEFINE h == list[l]
               at == found[q][1].at
    <3>2. /\ removed'[q] = Entry(l, at) /\ Current(l) = h /\ h \in Header
          /\ h.arr \in 1..Len(arrays) /\ at \in 1..h.len
      BY <2>1, <3>0, <3>1, ShiftEffect, Zenon
    <3>3. h.len \in Nat /\ h.len <= Len(arrays[h.arr]) /\ arrays[h.arr] \in Seq(Refs \cup {Nil})
      <4>1. h.len \in Nat /\ h.len <= Len(arrays[h.arr])
        BY <3>2, Parts, Contents, Zenon DEF Header
      <4> QED
        BY <1>0, <4>1, ListArray, Zenon
    <3>4. removed'[q] = arrays[h.arr][at] /\ at \in 1..Len(arrays[h.arr])
      BY <3>2, <3>3 DEF Entry
    <3>5. Done(removed'[q])
      BY <1>1, <3>2, <3>4
    <3>6. \A p \in Requests \ {q} : removed'[p] = removed[p]
      BY <2>1, ChangeFrame, Zenon DEF Frame, Shifts, Change
    <3> QED
      BY <1>2, <3>5, <3>6, Zenon
  <2>2. CASE ~Shifts(q)
    <3>1. removed' = removed
      <4>1. CASE Look(q)
        BY <1>0, <4>1, LookFrame
      <4>2. CASE lock(q) \/ handleModify(q) \/ handleAdd(q) \/ setWord(q) \/ handleDelete(q) \/ storeHeader(q)
        BY <4>2, ModifyEffect DEF lock, handleAdd, setWord, handleDelete, storeHeader
      <4>3. CASE appendUser(q)
        BY <4>3, Zenon DEF appendUser
      <4>4. CASE setList(q, "SetUsers", "users") \/ setList(q, "SetGroups", "groups")
        BY <4>4, Zenon DEF setList
      <4>5. CASE deleteShift(q)
        BY <2>2, <4>5, Zenon DEF deleteShift, Shifts, foundAt
      <4> QED
        BY <4>1, <4>2, <4>3, <4>4, <4>5 DEF Change
    <3> QED
      BY <1>2, <3>1
  <2> QED
    BY <2>1, <2>2
<1> QED
  BY <1>0, <1>3, <1>4, Zenon DEF AddedInv, Did, Done

\* A new directory satisfies the invariant.
LEMMA InitDirectoryInv == Init => DirectoryInv
<1> SUFFICES ASSUME Init PROVE DirectoryInv
  OBVIOUS
<1> DEFINE U == Defaults.Users
           G == Defaults.Groups
<1>0. /\ Nil \notin Refs /\ Entries \cap Requests = {}
      /\ U \in Seq(Entries) /\ G \in Seq(Entries)
      /\ Defaults.AllowAnonymousBind \in BOOLEAN
  BY DirectoryAssumption
<1>1. U \in Seq(Refs \cup {Nil}) /\ G \in Seq(Refs \cup {Nil}) /\ Len(U) \in Nat /\ Len(G) \in Nat
  BY <1>0 DEF Refs
<1>2. /\ list = [users |-> [arr |-> 1, len |-> Len(U)], groups |-> [arr |-> 2, len |-> Len(G)]]
      /\ arrays = <<U, G>>
      /\ mu = Nil
  BY Zenon DEF Init
<1> HIDE DEF U, G
<1>3. /\ arrays \in Seq(Seq(Refs \cup {Nil})) /\ Len(arrays) = 2
      /\ arrays[1] = U /\ arrays[2] = G
  BY <1>1, <1>2
<1>4. /\ list["users"] = [arr |-> 1, len |-> Len(U)] /\ list["groups"] = [arr |-> 2, len |-> Len(G)]
      /\ list["users"] \in Header /\ list["groups"] \in Header
      /\ list \in [Lists -> Header]
  <2>1. /\ list["users"] = [arr |-> 1, len |-> Len(U)] /\ list["groups"] = [arr |-> 2, len |-> Len(G)]
        /\ DOMAIN list = Lists /\ list = [l \in Lists |-> list[l]]
    BY <1>2 DEF Lists
  <2>2. list["users"] \in Header /\ list["groups"] \in Header
    BY <1>1, <2>1 DEF Header
  <2>3. \A l \in Lists : list[l] \in Header
    BY <2>2, Zenon DEF Lists
  <2> QED
    BY <2>1, <2>2, <2>3, Zenon
<1>5. NoHeader \in Header
  BY DEF NoHeader, Header
<1>6. DirectoryTypes
  <2>1. TypeOK
    <3>1. \A a \in 1..Len(arrays) : arrays[a] \in Seq(Refs \cup {Nil})
      BY <1>3
    <3>2. /\ DOMAIN attrs = Refs /\ allowAnonymousBind \in BOOLEAN /\ controls \in BOOLEAN
          /\ crashed \in BOOLEAN /\ mu \in Requests \cup {Nil}
      BY <1>0, Zenon DEF Init
    <3>3. /\ pc \in [Requests -> PCs] /\ on \in [Requests -> Lists] /\ reply \in [Requests -> Codes]
          /\ \A q \in Requests : pc[q] = "start"
      BY DEF Init, PCs, Lists, Codes
    <3>4. /\ hdr \in [Requests -> Header] /\ next \in [Requests -> Header]
          /\ removed \in [Requests -> Refs \cup {Nil}]
      BY <1>5 DEF Init
    <3> QED
      BY <1>4, <3>1, <3>2, <3>3, <3>4 DEF TypeOK
  <2>2. req \in [Requests -> Ops] /\ pos \in [Requests -> Nat \ {0}] /\ DOMAIN found = Requests
    BY DEF Init
  <2>3. \A l \in Lists : list[l].arr \in 1..Len(arrays)
    BY <1>3, <1>4 DEF Lists
  <2>4. \A q \in Requests : pc[q] \notin Loops
    BY Zenon DEF Init, Loops
  <2> QED
    BY <1>3, <2>1, <2>2, <2>3, <2>4 DEF DirectoryTypes
<1>7. \A q \in Requests : RequestInv(q)
  <2> TAKE q \in Requests
  <2>1. /\ mu # q /\ pc[q] = "start" /\ on[q] = "users" /\ found[q] = <<>> /\ reply[q] = "none"
    BY <1>0 DEF Init, Refs
  <2>2. found[q] \in FoundType
    BY <2>1 DEF FoundType
  <2> QED
    BY <2>1, <2>2 DEF RequestInv, Changing
<1>8. ListsInv
  <2>1. Current("users") = list["users"] /\ Current("groups") = list["groups"]
    BY <1>2 DEF Current
  <2>2. \A k \in 1..Len(U) : U[k] # Nil
    BY <1>0, <1>1 DEF Refs, U
  <2>3. \A k \in 1..Len(G) : G[k] # Nil
    BY <1>0, <1>1 DEF Refs, G
  <2>4. \A q \in Requests : pc[q] = "start"
    BY Zenon DEF Init
  <2> QED
    BY <1>1, <1>3, <1>4, <2>1, <2>2, <2>3, <2>4 DEF ListsInv, Entry, Lists
<1>9. AddedInv
  <2>1. \A k \in 1..Len(U) : U[k] \notin Requests
    BY <1>0, <1>1 DEF U
  <2>2. \A k \in 1..Len(G) : G[k] \notin Requests
    BY <1>0, <1>1 DEF G
  <2>3. \A q \in Requests : removed[q] \notin Requests
    BY <1>0, Zenon DEF Init, Refs
  <2> QED
    BY <1>3, <2>1, <2>2, <2>3 DEF AddedInv
<1>10. HandedOut /\ SliceStaysWhole
  BY DEF Init, HandedOut, SliceStaysWhole
<1> QED
  BY <1>6, <1>7, <1>8, <1>9, <1>10 DEF DirectoryInv

\* Every step keeps the invariant.
LEMMA NextDirectoryInv == DirectoryInv /\ [Next]_vars => DirectoryInv'
<1> SUFFICES ASSUME DirectoryInv, [Next]_vars PROVE DirectoryInv'
  OBVIOUS
<1>1. CASE Next
  <2>1. PICK q \in Requests : Look(q) \/ lock(q) \/ Change(q)
    BY <1>1 DEF Next
  <2>2. \A p \in Requests : RequestInv(p)'
    BY <2>1, RequestStep, Zenon
  <2>3. DirectoryTypes' /\ ListsInv' /\ AddedInv' /\ (HandedOut /\ SliceStaysWhole)'
    BY <2>1, TypesStep, ListsStep, AddedStep, SliceStep, Zenon
  <2> QED
    BY <2>2, <2>3, Zenon DEF DirectoryInv
<1>2. CASE UNCHANGED vars
  BY <1>2, StutterKeeps
<1> QED
  BY <1>1, <1>2

(***************************************************************************)
(* The invariant of the directory holds, whatever requests and functions   *)
(* run concurrently: each list always has definite contents, changed under *)
(* d.mu by one goroutine at a time.                                        *)
(***************************************************************************)
THEOREM DirectoryInvariant == Spec => []DirectoryInv
<1> QED
  BY InitDirectoryInv, NextDirectoryInv, PTL DEF Spec

(***************************************************************************)
(* The variables keep their types, and whoever is changing the lists, the  *)
(* attributes or the settings holds d.mu (handleModify, handleAdd,         *)
(* handleDelete and the Set functions).                                    *)
(***************************************************************************)
THEOREM DirectoryTypeCorrect == Spec => []TypeOK
<1>1. DirectoryInv => TypeOK
  BY Parts, Zenon DEF DirectoryTypes
<1> QED
  BY <1>1, DirectoryInvariant, PTL

(***************************************************************************)
(* Users and Groups: every slot of a slice that was handed out while       *)
(* nobody was changing the directory is an entry and stays one, however    *)
(* many deletes shift and adds fill the array it shares.                   *)
(***************************************************************************)
THEOREM HandedOutStaysWhole == Spec => []SliceStaysWhole
<1>1. DirectoryInv => SliceStaysWhole
  BY Parts
<1> QED
  BY <1>1, DirectoryInvariant, PTL
=============================================================================
