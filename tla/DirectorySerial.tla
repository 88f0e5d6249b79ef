--------------------------- MODULE DirectorySerial --------------------------
(***************************************************************************)
(* The test directory when each request waits for the answer of the one    *)
(* before, for any number of requests, any entries and any operations: no  *)
(* handler panics, a search is complete, a change hits the one entry it    *)
(* names, and no two users come to have the same DN.                       *)
(*                                                                         *)
(* The idea: nobody changes a list while a handler loops over it, so what  *)
(* find has collected at slot k is all that matches in the slots before k, *)
(* and it still is when the handler has d.mu.                              *)
(***************************************************************************)
EXTENDS DirectoryUsers

\* One request at a time is under way.
OneAtATime ==
  \A p, q \in Requests : pc[p] \notin {"start", "end"} /\ pc[q] \notin {"start", "end"} => p = q

\* What the handler of q looks for.
Hits(q) == {e \in Refs : match(filter(q), DN(e))}

\* The handlers whose loop has its findings from one list.
ScanKinds == {"searchUsers", "modify", "add", "delete"}
Scans(q) == req[q].kind \in ScanKinds /\ pc[q] \in {"find", "locked"}

\* Before slot p of the n slots of a, f is what there is of H, each slot once.
Scan(f, p, n, a, H) ==
  /\ f \in FoundType
  /\ \A i \in 1..Len(f) : f[i].at \in 1..n /\ f[i].at < p /\ f[i].e = a[f[i].at] /\ f[i].e \in H
  /\ \A k \in 1..n : k < p /\ a[k] \in H => \E i \in 1..Len(f) : f[i].at = k
  /\ \A i, j \in 1..Len(f) : f[i].at = f[j].at => i = j
Scanned(q) == Scan(found[q], pos[q], hdr[q].len, arrays[hdr[q].arr], Hits(q))

\* Nothing in list l is what q looks for.
NoHit(q, l) == \A k \in 1..Current(l).len : Entry(l, k) \notin Hits(q)

ScanInv(q) ==
  /\ pc[q] = "start" => found[q] = <<>>
  /\ pc[q] \in Loops \/ Scans(q) => hdr[q] = list[on[q]]
  /\ Scans(q) => Scanned(q)
  /\ pc[q] = "find" /\ req[q].kind = "searchUsers" => on[q] = "users"
  /\ Scans(q) /\ pc[q] = "locked" => pos[q] > hdr[q].len /\ ~Refused(q)
  /\ req[q].kind = "add" /\ pc[q] \in {"header", "element"} => NoHit(q, "users")
  /\ pc[q] = "shifted" => removed[q] \in Hits(q) /\ \A l \in Lists : l = on[q] => NoHit(q, l)

SerialInv ==
  /\ ~crashed
  /\ OneAtATime
  /\ \A q \in Requests : ScanInv(q)

\* The invariant, part by part.
LEMMA SerialParts ==
  ASSUME SerialInv
  PROVE  ~crashed /\ OneAtATime /\ \A q \in Requests : ScanInv(q)
  BY Zenon DEF SerialInv

\* No two users have the same DN, at any moment.
UniqueUsers ==
  \A i, j \in 1..Current("users").len : DN(Entry("users", i)) = DN(Entry("users", j)) => i = j

-----------------------------------------------------------------------------
(* One request at a time.                                                  *)

\* Only a request that is under way takes steps while one is.
LEMMA SerialActor ==
  ASSUME DirectoryInv, OneAtATime, Serial, NEW q \in Requests, Look(q) \/ lock(q) \/ Change(q),
         NEW p \in Requests, pc[p] \notin {"start", "end"}
  PROVE  p = q
<1>0. DirectoryTypes /\ RequestInv(q)
  BY Parts
<1>1. CASE pc[q] = "start"
  <2>1. begin(q) \/ get(q) \/ writeError(q)
    <3>1. Look(q)
      BY <1>1, ChangeFrame
    <3>2. ~(find(q) \/ findMembers(q) \/ handleBind(q) \/ nilEntry(q) \/ nextLoop(q)
              \/ handleSearch(q) \/ refuse(q))
      BY <1>1 DEF find, findMembers, handleBind, nilEntry, nextLoop, handleSearch, refuse, Looping,
         LastLoopDone, LoopDone
    <3> QED
      BY <3>1, <3>2 DEF Look
  <2>2. Turn(q)
    BY <1>1, <2>1 DEF begin, get, writeError, LastLoopDone, LoopDone
  <2> QED
    BY <2>2 DEF Turn
<1>2. CASE pc[q] # "start"
  <2>1. pc[q] # "end"
    BY <1>0, LookEffect, ChangeFrame DEF Loops
  <2> QED
    BY <1>2, <2>1 DEF OneAtATime
<1> QED
  BY <1>1, <1>2

\* A step leaves at most one request under way.
LEMMA OneStep ==
  ASSUME DirectoryInv, OneAtATime, Serial, NEW q \in Requests, Look(q) \/ lock(q) \/ Change(q)
  PROVE  OneAtATime'
<1>1. Frame(q)
  BY LookFrame, ChangeFrame, Parts
<1>2. \A p \in Requests \ {q} : pc'[p] \in {"start", "end"}
  BY <1>1, SerialActor DEF Frame
<1> QED
  BY <1>2 DEF OneAtATime

\* So nobody has d.mu while a handler loops, and the loop meets entries only.
LEMMA LoopsAlone ==
  ASSUME DirectoryInv, SerialInv, NEW q \in Requests, pc[q] \in Loops
  PROVE  /\ mu = Nil /\ hdr[q] = list[on[q]]
         /\ hdr[q].len \in Nat /\ hdr[q].arr \in 1..Len(arrays)
         /\ hdr[q].len <= Len(arrays[hdr[q].arr])
         /\ \A k \in 1..hdr[q].len : arrays[hdr[q].arr][k] = Entry(on[q], k) /\ Entry(on[q], k) \in Refs
<1>1. mu = Nil
  <2>1. SUFFICES ASSUME mu \in Requests PROVE FALSE
    BY Parts, Types
  <2>2. pc[mu] \in Changing
    BY <2>1, Parts DEF RequestInv
  <2>3. mu = q
    BY <2>1, <2>2, SerialParts DEF OneAtATime, Changing, Loops
  <2> QED
    BY <2>2, <2>3 DEF Changing, Loops
<1>2. PICK l \in Lists : l = on[q]
  BY Holder
<1>3. /\ list[l] = Current(l) /\ Current(l).len <= Len(arrays[Current(l).arr])
      /\ list[l].len \in Nat /\ list[l].arr \in 1..Len(arrays)
      /\ \A k \in 1..list[l].len : Entry(l, k) \in Refs /\ arrays[list[l].arr][k] = Entry(l, k)
  BY <1>1, SlotsAreEntries, Parts, Contents
<1>4. hdr[q] = list[on[q]]
  BY SerialParts DEF ScanInv
<1> QED
  BY <1>1, <1>2, <1>3, <1>4

\* An entry found is at its place when the handler has d.mu.
LEMMA HasFound ==
  ASSUME DirectoryInv, NEW q \in Requests, ScanInv(q), pc[q] = "locked",
         req[q].kind \in {"modify", "delete"}
  PROVE  /\ hdr[q] = list[on[q]] /\ pos[q] > hdr[q].len
         /\ Len(found[q]) = 1 /\ found[q] \in FoundType /\ Scanned(q)
         /\ found[q][1].at \in 1..hdr[q].len
         /\ found[q][1].e = arrays[hdr[q].arr][found[q][1].at]
         /\ found[q][1].e \in Hits(q)
         /\ \A k \in 1..hdr[q].len : arrays[hdr[q].arr][k] \in Hits(q) => k = found[q][1].at
<1>1. /\ Scans(q) /\ Scanned(q) /\ hdr[q] = list[on[q]] /\ pos[q] > hdr[q].len /\ ~Refused(q)
  BY DEF ScanInv, Scans, ScanKinds
<1>2. Len(found[q]) = 1 /\ found[q] \in FoundType
  BY <1>1 DEF Refused, Scanned, Scan
<1>3. 1 \in 1..Len(found[q]) /\ \A i \in 1..Len(found[q]) : i = 1
  BY <1>2
<1>4. hdr[q].len \in Nat /\ pos[q] \in Nat
  BY Parts, Types DEF Header
<1>5. \A k \in 1..hdr[q].len : k < pos[q]
  BY <1>1, <1>4
<1> QED
  BY <1>1, <1>2, <1>3, <1>5, Zenon DEF Scanned, Scan

-----------------------------------------------------------------------------
(* No step panics.                                                         *)

\* A step of a directory served one request at a time does not panic: the slot a
\* loop reads is never a cleared one, and a position found is still in the list.
LEMMA PanicStep ==
  ASSUME DirectoryInv, SerialInv, NEW q \in Requests, Look(q) \/ lock(q) \/ Change(q)
  PROVE  ~crashed'
<1>0. ~crashed /\ ScanInv(q)
  BY SerialParts
<1>1. ~nilEntry(q)
  <2>1. SUFFICES ASSUME nilEntry(q) PROVE FALSE
    OBVIOUS
  <2>2. pc[q] \in Loops /\ pos[q] <= hdr[q].len /\ slot(q) = Nil
    BY <2>1 DEF nilEntry, Looping, Loops
  <2>3. pos[q] \in Nat \ {0}
    BY Parts, Types
  <2>4. /\ hdr[q].len \in Nat /\ hdr[q].arr \in 1..Len(arrays)
        /\ hdr[q].len <= Len(arrays[hdr[q].arr])
        /\ \A k \in 1..hdr[q].len : arrays[hdr[q].arr][k] \in Refs
    BY <2>2, LoopsAlone
  <2>5. arrays[hdr[q].arr] \in Seq(Refs \cup {Nil})
    BY <2>4, Parts, Types
  <2>6. pos[q] \in 1..hdr[q].len /\ pos[q] <= Len(arrays[hdr[q].arr])
    BY <2>2, <2>3, <2>4, <2>5
  <2> QED
    BY <2>2, <2>4, <2>6, DirectoryAssumption DEF slot
<1>2. deleteShift(q) => Shifts(q)
  <2>1. SUFFICES ASSUME deleteShift(q) PROVE Shifts(q)
    OBVIOUS
  <2>2. req[q].kind = "delete" /\ pc[q] = "locked"
    BY <2>1 DEF deleteShift
  <2>3. found[q][1].at \in 1..list[on[q]].len
    BY <1>0, <2>2, HasFound
  <2>4. list[on[q]].len \in Nat
    BY Holder DEF Header
  <2> QED
    BY <2>1, <2>3, <2>4 DEF Shifts
<1>3. Shifts(q) => UNCHANGED crashed
  <2>1. SUFFICES ASSUME Shifts(q), crashed' # crashed PROVE FALSE
    OBVIOUS
  <2>2. found[q][1].at > list[on[q]].len /\ found[q][1].at <= list[on[q]].len
    BY <2>1, Zenon DEF Shifts, deleteShift, foundAt
  <2>3. req[q].kind = "delete" /\ pc[q] = "locked"
    BY <2>1 DEF Shifts, deleteShift
  <2>4. found[q][1].at \in 1..list[on[q]].len /\ list[on[q]].len \in Nat
    BY <1>0, <2>3, HasFound, Holder DEF Header
  <2> QED
    BY <2>2, <2>4
<1>4. \/ nilEntry(q) \/ deleteShift(q)
      \/ UNCHANGED crashed
  BY ZenonT(30) DEF Look, Change, begin, get, find, findMembers, handleBind, nextLoop, handleSearch,
     writeError, refuse, lock, handleModify, appendUser, handleAdd, handleDelete, setList, storeHeader,
     setWord, Up
<1> QED
  BY <1>0, <1>1, <1>2, <1>3, <1>4
-----------------------------------------------------------------------------
(* What find has found.                                                    *)

\* A handler keeps looking for the same while it stays with a list.
LEMMA HitsSame ==
  ASSUME req' = req, NEW q \in Requests, on'[q] = on[q]
  PROVE  Hits(q)' = Hits(q)
<1>1. filter(q)' = filter(q)
  BY Zenon DEF filter
<1>2. \A e : DN(e)' = DN(e)
  BY DEF DN
<1> QED
  BY <1>1, <1>2, Zenon DEF Hits, match

\* A loop that starts has found nothing, and has passed nothing.
LEMMA ScanStarts ==
  ASSUME NEW n, NEW a, NEW H
  PROVE  Scan(<<>>, 1, n, a, H)
<1>1. <<>> \in FoundType /\ Len(<<>>) = 0 /\ \A i \in 1..0 : FALSE
  BY DEF FoundType
<1>2. \A k \in 1..n : ~(k < 1)
  OBVIOUS
<1> QED
  BY <1>1, <1>2 DEF Scan

\* One round more.
LEMMA ScanGrows ==
  ASSUME NEW n \in Nat, NEW p \in 1..n, NEW a, NEW H, NEW f, Scan(f, p, n, a, H), a[p] \in Refs
  PROVE  /\ a[p] \notin H => Scan(f, p + 1, n, a, H)
         /\ a[p] \in H => Scan(Append(f, [at |-> p, e |-> a[p]]), p + 1, n, a, H)
<1>1. /\ f \in FoundType /\ p \in Nat /\ \A k \in 1..n : k < p + 1 <=> k < p \/ k = p
      /\ \A i \in 1..Len(f) : /\ f[i].at \in 1..n /\ f[i].at < p /\ f[i].at # p
                              /\ f[i].e = a[f[i].at] /\ f[i].e \in H
      /\ \A k \in 1..n : k < p /\ a[k] \in H => \E i \in 1..Len(f) : f[i].at = k
      /\ \A i, j \in 1..Len(f) : f[i].at = f[j].at => i = j
  BY DEF Scan
<1>2. ASSUME a[p] \notin H PROVE Scan(f, p + 1, n, a, H)
  BY <1>1, <1>2 DEF Scan
<1>3. ASSUME a[p] \in H PROVE Scan(Append(f, [at |-> p, e |-> a[p]]), p + 1, n, a, H)
  <2> DEFINE x == [at |-> p, e |-> a[p]]
             g == Append(f, x)
             m == Len(f)
  <2>1. x \in FoundEntry /\ x.at = p /\ x.e = a[p]
    BY <1>1 DEF FoundEntry
  <2> HIDE DEF x
  <2>2. /\ g \in FoundType /\ m \in Nat /\ Len(g) = m + 1 /\ g[m + 1] = x
        /\ \A i \in 1..m : g[i] = f[i]
    BY <1>1, <2>1 DEF FoundType
  <2>3. \A i : i \in 1..(m + 1) <=> i \in 1..m \/ i = m + 1
    BY <2>2
  <2> HIDE DEF g, m
  <2>4. \A i \in 1..Len(g) : g[i].at \in 1..n /\ g[i].at < p + 1 /\ g[i].e = a[g[i].at] /\ g[i].e \in H
    BY <1>1, <1>3, <2>1, <2>2, <2>3 DEF m
  <2>5. \A k \in 1..n : k < p + 1 /\ a[k] \in H => \E i \in 1..Len(g) : g[i].at = k
    <3>1. (\A i \in 1..m : i \in 1..Len(g)) /\ m + 1 \in 1..Len(g) /\ g[m + 1].at = p
      BY <2>1, <2>2, <2>3, Zenon
    <3>2. \A k \in 1..n : k < p /\ a[k] \in H => \E i \in 1..m : g[i].at = k
      BY <1>1, <2>2, Zenon DEF m
    <3> QED
      BY <1>1, <3>1, <3>2, Zenon
  <2>6. \A i, j \in 1..Len(g) : g[i].at = g[j].at => i = j
    <3>1. /\ \A i \in 1..m : g[i].at # p
          /\ \A i, j \in 1..m : g[i].at = g[j].at => i = j
      BY <1>1, <2>2, Zenon DEF m
    <3>2. g[m + 1].at = p
      BY <2>1, <2>2, Zenon
    <3>3. \A i \in 1..Len(g) : i \in 1..m \/ i = m + 1
      BY <2>2, <2>3, Zenon
    <3> QED
      BY <3>1, <3>2, <3>3, Zenon
  <2> QED
    BY <2>2, <2>4, <2>5, <2>6 DEF Scan, g, x
<1> QED
  BY <1>2, <1>3

\* A round of find, in a handler that collects from one list.
LEMMA FindStep ==
  ASSUME DirectoryInv, SerialInv, NEW q \in Requests, find(q), Scans(q)
  PROVE  Scanned(q)'
<1>0. /\ pc[q] = "find" /\ pos[q] <= hdr[q].len /\ Scanned(q) /\ req[q].kind \in ScanKinds
      /\ pos'[q] = pos[q] + 1 /\ hdr' = hdr /\ arrays' = arrays /\ req' = req /\ on' = on
      /\ pos[q] \in Nat \ {0} /\ DOMAIN found = Requests
  BY FindEffect, Parts, Types, SerialParts, Zenon DEF ScanInv, Scans, listVars
<1>1. /\ hdr[q].len \in Nat /\ hdr[q].arr \in 1..Len(arrays) /\ hdr[q].len <= Len(arrays[hdr[q].arr])
      /\ \A k \in 1..hdr[q].len : arrays[hdr[q].arr][k] \in Refs
  BY <1>0, LoopsAlone DEF Loops
<1>2. arrays[hdr[q].arr] \in Seq(Refs \cup {Nil})
  BY <1>1, Parts, Types
<1>3. pos[q] \in 1..hdr[q].len /\ pos[q] <= Len(arrays[hdr[q].arr])
  BY <1>0, <1>1, <1>2
<1>4. slot(q) = arrays[hdr[q].arr][pos[q]] /\ slot(q) \in Refs
  BY <1>1, <1>3 DEF slot
<1>5. ~Skipped(q, slot(q))
  BY <1>0 DEF Skipped, ScanKinds
<1>6. \/ slot(q) \in Hits(q) /\ found' = [found EXCEPT ![q] = Append(@, [at |-> pos[q], e |-> slot(q)])]
      \/ slot(q) \notin Hits(q) /\ found' = found
  BY <1>4, <1>5, Zenon DEF find, Hits
<1>7. \/ slot(q) \in Hits(q) /\ found'[q] = Append(found[q], [at |-> pos[q], e |-> slot(q)])
      \/ slot(q) \notin Hits(q) /\ found'[q] = found[q]
  BY <1>0, <1>6
<1>8. Hits(q)' = Hits(q)
  BY <1>0, HitsSame
<1>9. Scan(found'[q], pos[q] + 1, hdr[q].len, arrays[hdr[q].arr], Hits(q))
  BY <1>0, <1>1, <1>3, <1>4, <1>7, ScanGrows, Zenon DEF Scanned
<1> QED
  BY <1>0, <1>8, <1>9 DEF Scanned

-----------------------------------------------------------------------------
(* Every step keeps the invariant.                                         *)

\* A step of a handler before it locks keeps what the loop has established.
LEMMA LookScan ==
  ASSUME DirectoryInv, SerialInv, NEW q \in Requests, Look(q)
  PROVE  ScanInv(q)'
<1>0. /\ DirectoryTypes /\ RequestInv(q) /\ ScanInv(q)
      /\ req' = req /\ list' = list /\ arrays' = arrays
      /\ pc'[q] \in {"lock", "end"} \cup Loops
      /\ pc \in [Requests -> PCs] /\ on \in [Requests -> Lists] /\ hdr \in [Requests -> Header]
      /\ pos \in [Requests -> Nat \ {0}]
  BY LookFrame, LookEffect, Parts, Types, SerialParts, Zenon DEF Frame, listVars
<1>1. /\ pc'[q] \in Loops => hdr'[q] = list[on'[q]]
      /\ pc'[q] = "find" /\ req[q].kind \in ScanKinds => Scanned(q)'
      /\ pc'[q] = "find" /\ req[q].kind = "searchUsers" => on'[q] = "users"
  <2> USE <1>0 DEF Loops, Goto, Answer, loadHeader, loopVars
  <2>1. CASE begin(q)
    <3>1. pc'[q] \in Loops => pos'[q] = 1 /\ found'[q] = <<>>
      BY <2>1 DEF begin, ScanInv
    <3>2. Scan(<<>>, 1, hdr'[q].len, arrays'[hdr'[q].arr], Hits(q)')
      BY ScanStarts
    <3> QED
      BY <2>1, <3>1, <3>2, Zenon DEF begin, Scanned
  <2>2. CASE get(q)
    BY <2>2 DEF get
  <2>3. CASE find(q)
    <3>1. pc[q] = "find" /\ pc' = pc /\ hdr' = hdr /\ on' = on
      BY <2>3, FindEffect, Zenon
    <3>2. req[q].kind \in ScanKinds => Scanned(q)'
      BY <2>3, <3>1, FindStep, Zenon DEF Scans
    <3> QED
      BY <3>1, <3>2 DEF ScanInv
  <2>4. CASE findMembers(q)
    BY <2>4, FindMembersEffect, Zenon DEF ScanInv
  <2>5. CASE handleBind(q)
    <3>1. hdr' = hdr /\ on' = on /\ pc[q] = "bind" /\ (pc' = pc \/ pc' = [pc EXCEPT ![q] = "end"])
      BY <2>5, ZenonT(30) DEF handleBind
    <3> QED
      BY <3>1 DEF ScanInv
  <2>6. CASE nilEntry(q)
    BY <2>6, Zenon DEF nilEntry, Panic
  <2>7. CASE nextLoop(q)
    <3>1. pos'[q] = 1 /\ hdr'[q] = list[on'[q]] /\ found' = found
      BY <2>7 DEF nextLoop
    <3>2. req[q].kind \in ScanKinds => found[q] = <<>> /\ req[q].kind # "searchUsers"
      BY <2>7 DEF nextLoop, LoopDone, RequestInv, ScanKinds
    <3>3. Scan(<<>>, 1, hdr'[q].len, arrays'[hdr'[q].arr], Hits(q)')
      BY ScanStarts
    <3> QED
      BY <3>1, <3>2, <3>3, Zenon DEF Scanned, ScanKinds
  <2>8. CASE handleSearch(q)
    BY <2>8 DEF handleSearch
  <2>9. CASE refuse(q)
    BY <2>9, RefuseEffect, Zenon
  <2>10. CASE writeError(q)
    BY <2>10, WriteErrorEffect, Zenon
  <2> QED
    BY <2>1, <2>2, <2>3, <2>4, <2>5, <2>6, <2>7, <2>8, <2>9, <2>10, Zenon DEF Look
<1> QED
  BY <1>0, <1>1 DEF ScanInv, Scans, Loops

\* Taking d.mu keeps it: nothing changed between the loop and the lock.
LEMMA LockScan ==
  ASSUME DirectoryInv, SerialInv, NEW q \in Requests, lock(q)
  PROVE  ScanInv(q)'
<1>0. /\ RequestInv(q) /\ ScanInv(q) /\ pc \in [Requests -> PCs]
      /\ req' = req /\ list' = list /\ arrays' = arrays /\ on' = on /\ hdr' = hdr /\ pos' = pos
      /\ found' = found
  BY Parts, Types, SerialParts, Zenon DEF lock, listVars, loopVars
<1>1. pc'[q] = "locked"
  BY <1>0, Zenon DEF lock
<1>2. req[q].kind \in ScanKinds => LoopDone(q, "find") /\ ~Refused(q)
  BY <1>0, Zenon DEF lock, RequestInv, ScanKinds, SetKinds, LastLoopDone
<1>3. Hits(q)' = Hits(q)
  BY <1>0, HitsSame
<1>4. Scanned(q)' <=> Scanned(q)
  BY <1>0, <1>3 DEF Scanned
<1>5. Refused(q)' <=> Refused(q)
  BY <1>0, Zenon DEF Refused
<1> QED
  BY <1>0, <1>1, <1>2, <1>4, <1>5, Zenon DEF ScanInv, Scans, LoopDone, Loops

\* A step under d.mu keeps it: the positions found still hold in the list.
LEMMA ChangeScan ==
  ASSUME DirectoryInv, SerialInv, NEW q \in Requests, Change(q)
  PROVE  ScanInv(q)'
<1>0. /\ RequestInv(q) /\ ScanInv(q) /\ req' = req /\ found' = found /\ hdr' = hdr
      /\ pc[q] \in Changing /\ mu = q
      /\ list \in [Lists -> Header] /\ on \in [Requests -> Lists] /\ pc \in [Requests -> PCs]
  BY ChangeFrame, OneChanges, Parts, Types, SerialParts, Zenon DEF Frame
<1>1. pc'[q] \in {"header", "element", "shifted", "end"}
  <2>1. \E x \in {"header", "element", "shifted", "end"} : pc' = [pc EXCEPT ![q] = x]
    BY Zenon DEF Change, handleModify, appendUser, handleAdd, deleteShift, handleDelete,
       setList, storeHeader, setWord, Answer, Panic, Goto
  <2> QED
    BY <1>0, <2>1, Zenon
<1>2. ASSUME req[q].kind = "add", pc'[q] \in {"header", "element"}
      PROVE  NoHit(q, "users")'
  <2>1. on[q] = "users" /\ on'[q] = "users"
    BY <1>0, <1>2, RequestStep DEF RequestInv
  <2>2. Hits(q)' = Hits(q)
    BY <1>0, <2>1, HitsSame, Zenon
  <2>3. NoHit(q, "users")
    <3>1. CASE pc[q] = "locked"
      <4>1. Scanned(q) /\ hdr[q] = list["users"] /\ pos[q] > hdr[q].len /\ found[q] = <<>>
        BY <1>0, <1>2, <2>1, <3>1, Zenon DEF ScanInv, Scans, ScanKinds, Refused
      <4>2. Current("users") = list["users"] /\ hdr[q].len \in Nat /\ pos[q] \in Nat
        BY <1>0, <3>1, <4>1, Parts, Types DEF Current, Lists, Header
      <4>3. \A k \in 1..hdr[q].len : k < pos[q] /\ k \in 1..hdr[q].len
        BY <4>1, <4>2
      <4>4. \A i \in 1..Len(<<>>) : FALSE
        OBVIOUS
      <4>5. \A k \in 1..hdr[q].len : arrays[hdr[q].arr][k] \notin Hits(q)
        BY <4>1, <4>3, <4>4, Zenon DEF Scanned, Scan
      <4> QED
        BY <4>1, <4>2, <4>5, Zenon DEF NoHit, Entry
    <3>2. CASE pc[q] \in {"header", "element"}
      BY <1>0, <1>2, <3>2 DEF ScanInv
    <3> QED
      BY <1>0, <1>2, <3>1, <3>2, Zenon DEF Changing, RequestInv
  <2>4. ~handleAdd(q) /\ ~Shifts(q) /\ ~setList(q, "SetUsers", "users")
    BY <1>2, AddEffect, UsersReplaced, Zenon DEF Shifts, deleteShift
  <2> QED
    BY <2>2, <2>3, <2>4, UsersSame, Zenon DEF NoHit
<1>3. ASSUME pc'[q] = "shifted", NEW l \in Lists, l = on'[q]
      PROVE  removed'[q] \in Hits(q)' /\ NoHit(q, l)'
  <2>1. Shifts(q)
    BY <1>3, CountingSteps
  <2>2. req[q].kind = "delete" /\ pc[q] = "locked" /\ on' = on
    BY <2>1, Zenon DEF Shifts, deleteShift, loopVars
  <2> DEFINE at == found[q][1].at
             n == Current(l).len
  <2>3. /\ at \in 1..n /\ n \in Nat
        /\ removed'[q] = Entry(l, at) /\ Current(l)'.len = n - 1
        /\ \A k \in 1..(n - 1) : Entry(l, k)' = Entry(l, IF k < at THEN k ELSE k + 1)
    BY <1>3, <2>1, <2>2, ListLoses, Zenon
  <2>4. Current(l) = list[l] /\ hdr[q] = list[l]
    BY <1>0, <1>3, <2>2, HasFound, Zenon DEF Current
  <2>5. Entry(l, at) \in Hits(q) /\ \A k \in 1..n : Entry(l, k) \in Hits(q) => k = at
    BY <1>0, <2>2, <2>4, HasFound DEF Entry
  <2>6. Hits(q)' = Hits(q)
    BY <1>0, <2>2, HitsSame
  <2> HIDE DEF at, n
  <2>7. \A k \in 1..(n - 1) : (IF k < at THEN k ELSE k + 1) \in 1..n /\ (IF k < at THEN k ELSE k + 1) # at
    BY <2>3
  <2>8. \A k \in 1..(n - 1) : Entry(l, k)' \notin Hits(q)
    BY <2>3, <2>5, <2>7
  <2> QED
    BY <2>3, <2>5, <2>6, <2>8 DEF NoHit
<1>4. on'[q] \in Lists
  BY ChangeFrame DEF Frame
<1> QED
  BY <1>0, <1>1, <1>2, <1>3, <1>4, Zenon DEF ScanInv, Scans, Loops

\* Every step keeps SerialInv.
LEMMA SerialStep ==
  ASSUME DirectoryInv, SerialInv, Serial, NEW q \in Requests, Look(q) \/ lock(q) \/ Change(q)
  PROVE  SerialInv'
<1>1. ~crashed' /\ OneAtATime'
  BY PanicStep, OneStep, SerialParts
<1>2. ScanInv(q)'
  BY LookScan, LockScan, ChangeScan, Zenon
<1>3. ASSUME NEW p \in Requests \ {q} PROVE ScanInv(p)'
  <2>1. Frame(q)
    BY LookFrame, ChangeFrame, Parts, Zenon
  <2>2. pc'[p] \in {"start", "end"} /\ pc'[p] = pc[p] /\ found'[p] = found[p]
    BY <2>1, SerialActor, SerialParts DEF Frame
  <2>3. ScanInv(p)
    BY SerialParts
  <2> QED
    BY <2>2, <2>3, Zenon DEF ScanInv, Scans, Loops
<1> QED
  BY <1>1, <1>2, <1>3 DEF SerialInv

\* With one request at a time, SerialInv is an invariant of the directory.
LEMMA SerialInvariant ==
  ASSUME Serial
  PROVE  Spec => [](DirectoryInv /\ SerialInv)
<1>1. Init => DirectoryInv /\ SerialInv
  <2>1. Init => SerialInv
    BY DEF Init, SerialInv, OneAtATime, ScanInv, Scans, Loops
  <2> QED
    BY <2>1, InitDirectoryInv, Zenon
<1>2. DirectoryInv /\ SerialInv /\ [Next]_vars => DirectoryInv' /\ SerialInv'
  <2>1. DirectoryInv /\ SerialInv /\ Next => SerialInv'
    BY SerialStep DEF Next
  <2>2. SerialInv /\ UNCHANGED vars => SerialInv'
    <3>1. SUFFICES ASSUME SerialInv, UNCHANGED vars PROVE SerialInv'
      OBVIOUS
    <3>2. UNCHANGED <<list, arrays, on, hdr, pos, found, mu, pc, req, next, removed, crashed>>
      BY <3>1 DEF vars, listVars, loopVars
    <3>3. \A q \in Requests : Hits(q)' = Hits(q)
      BY <3>2, HitsSame
    <3>4. \A l \in Lists : \A k : Current(l)' = Current(l) /\ Entry(l, k)' = Entry(l, k)
      BY <3>2, Zenon DEF Current, Entry
    <3>5. ASSUME NEW q \in Requests PROVE ScanInv(q)'
      <4>1. ScanInv(q)
        BY <3>1, SerialParts
      <4>2. \A l \in Lists : NoHit(q, l)' <=> NoHit(q, l)
        BY <3>3, <3>4, Zenon DEF NoHit
      <4>3. /\ Scanned(q)' <=> Scanned(q)
            /\ Scans(q)' <=> Scans(q)
            /\ Refused(q)' <=> Refused(q)
        BY <3>2, <3>3 DEF Scanned, Scans, Refused
      <4> QED
        BY <3>2, <3>3, <4>1, <4>2, <4>3 DEF ScanInv, Lists
    <3> QED
      BY <3>1, <3>2, <3>5 DEF SerialInv, OneAtATime
  <2> QED
    BY <2>1, <2>2, NextDirectoryInv
<1> QED
  BY <1>1, <1>2, PTL DEF Spec
-----------------------------------------------------------------------------
(* The loops of find, findMembers and handleBind read slots of the slice   *)
(* they started with and handleDelete cuts it at the position it has       *)
(* found; when requests are handled one after the other, none of these     *)
(* reads a slot without an entry or cuts past the end, whatever was added, *)
(* deleted or set before.                                                  *)
THEOREM SerialNeverPanics ==
  ASSUME Serial
  PROVE  Spec => []NoPanic
<1>1. SerialInv => NoPanic
  BY SerialParts DEF NoPanic
<1> QED
  BY <1>1, SerialInvariant, PTL

-----------------------------------------------------------------------------
(* No two users with one DN.                                               *)

\* Different DNs in what the directory is given, and strings.Contains of a DN
\* that is added with itself.
DistinctDNs(s) == \A i, j \in 1..Len(s) : dnOf[s[i]] = dnOf[s[j]] => i = j
UniqueGiven ==
  /\ DistinctDNs(Defaults.Users)
  /\ \A op \in Ops : /\ op.kind = "SetUsers" => DistinctDNs(op.entries)
                     /\ op.kind = "add" => Contains(op.dn, op.dn)

\* An add looks for its DN, so nobody has it when nothing is found.
LEMMA NoHitNoDN ==
  ASSUME UniqueGiven, DirectoryInv, NEW q \in Requests, req[q].kind = "add",
         NEW e \in Refs, e \notin Hits(q)
  PROVE  DN(e) # DN(q)
<1>1. filter(q) = {req[q].dn}
  BY Zenon DEF filter
<1>2. req[q] \in Ops
  BY Parts, Types
<1>3. Contains(req[q].dn, req[q].dn) /\ DN(q) = req[q].dn
  BY <1>2 DEF UniqueGiven, DN
<1>4. ~Contains(DN(e), req[q].dn)
  BY <1>1, Zenon DEF Hits, match
<1> QED
  BY <1>3, <1>4

\* Every step keeps the users' DNs different: an add appends an entry only when
\* its loop found no user of that DN, and no one came between.
LEMMA UniqueStep ==
  ASSUME UniqueGiven, DirectoryInv, SerialInv, UniqueUsers,
         NEW q \in Requests, Look(q) \/ lock(q) \/ Change(q)
  PROVE  UniqueUsers'
<1>0. req' = req /\ req[q] \in Ops
  BY LookFrame, ChangeFrame, Parts, Types, Zenon DEF Frame
<1>1. PICK n \in Nat : n = Current("users").len
  BY Parts, Contents, Types, Zenon DEF Header
<1>2. \A i, j \in 1..n : DN(Entry("users", i)) = DN(Entry("users", j)) => i = j
  BY <1>1, Zenon DEF UniqueUsers
<1>3. SUFFICES \A i, j \in 1..Current("users")'.len :
                 DN(Entry("users", i)') = DN(Entry("users", j)') => i = j
  BY <1>0 DEF UniqueUsers, DN
<1>4. CASE handleAdd(q)
  <2>1. /\ Current("users")'.len = n + 1 /\ Entry("users", n + 1)' = q
        /\ \A k \in 1..n : Entry("users", k)' = Entry("users", k)
    BY <1>1, <1>4, UsersGain
  <2>2. req[q].kind = "add" /\ NoHit(q, "users")
    BY <1>4, AddEffect, SerialParts, Zenon DEF ScanInv
  <2>3. \A k \in 1..n : Entry("users", k) \in Refs
    <3>1. /\ Current("users").arr \in 1..Len(arrays)
          /\ n <= Len(arrays[Current("users").arr])
          /\ arrays[Current("users").arr] \in Seq(Refs \cup {Nil})
          /\ \A k \in 1..n : Entry("users", k) # Nil
      BY <1>1, Parts, Types, Contents
    <3> QED
      BY <1>1, <3>1 DEF Entry
  <2>4. \A k \in 1..n : DN(Entry("users", k)) # DN(q)
    BY <1>1, <2>2, <2>3, NoHitNoDN DEF NoHit
  <2>5. \A k : k \in 1..(n + 1) <=> k \in 1..n \/ k = n + 1
    BY <1>1
  <2> QED
    BY <1>2, <2>1, <2>4, <2>5
<1>5. CASE Shifts(q) /\ on[q] = "users"
  <2> DEFINE at == found[q][1].at
             from(k) == IF k < at THEN k ELSE k + 1
  <2>1. /\ at \in 1..n /\ Current("users")'.len = n - 1
        /\ \A k \in 1..(n - 1) : Entry("users", k)' = Entry("users", from(k))
    BY <1>1, <1>5, ListLoses DEF Lists
  <2> HIDE DEF at
  <2>2. /\ \A k \in 1..(n - 1) : from(k) \in 1..n
        /\ \A i, j \in 1..(n - 1) : from(i) = from(j) => i = j
    BY <2>1
  <2> HIDE DEF from
  <2> QED
    BY <1>2, <2>1, <2>2
<1>6. CASE setList(q, "SetUsers", "users")
  <2> DEFINE s == req[q].entries
  <2>1. /\ req[q].kind = "SetUsers" /\ s \in Seq(Entries) /\ Current("users")'.len = Len(s)
        /\ \A k \in 1..Len(s) : Entry("users", k)' = s[k]
    BY <1>6, UsersReplaced
  <2>2. DistinctDNs(s)
    BY <1>0, <2>1 DEF UniqueGiven
  <2> HIDE DEF s
  <2>3. \A k \in 1..Len(s) : s[k] \notin Requests
    <3>1. \A k \in 1..Len(s) : s[k] \in Entries
      BY <2>1
    <3> QED
      BY <3>1, DirectoryAssumption
  <2>4. \A k \in 1..Len(s) : DN(Entry("users", k)') = dnOf[s[k]]
    BY <2>1, <2>3 DEF DN
  <2> QED
    BY <2>1, <2>2, <2>4 DEF DistinctDNs
<1>7. CASE ~handleAdd(q) /\ ~(Shifts(q) /\ on[q] = "users") /\ ~setList(q, "SetUsers", "users")
  BY <1>1, <1>2, <1>7, UsersSame
<1> QED
  BY <1>4, <1>5, <1>6, <1>7, Zenon

(***************************************************************************)
(* handleAdd refuses a DN that an entry has already: when requests come    *)
(* one after the other, no two users ever have the same DN, if that is so  *)
(* of the users the directory is started with and of those SetUsers is     *)
(* given.                                                                  *)
(***************************************************************************)
THEOREM SerialUniqueDN ==
  ASSUME Serial, UniqueGiven
  PROVE  Spec => []UniqueDN
<1>1. Init => UniqueUsers
  <2>1. SUFFICES ASSUME Init PROVE UniqueUsers
    OBVIOUS
  <2>2. Defaults.Users \in Seq(Entries) /\ Defaults.Groups \in Seq(Entries)
    BY DirectoryAssumption
  <2>3. Current("users") = [arr |-> 1, len |-> Len(Defaults.Users)] /\ arrays[1] = Defaults.Users
    BY <2>1, <2>2 DEF Init, Current
  <2>4. \A k \in 1..Len(Defaults.Users) : Entry("users", k) = Defaults.Users[k]
    BY <2>3 DEF Entry
  <2>5. \A k \in 1..Len(Defaults.Users) : Defaults.Users[k] \in Entries
    BY <2>2
  <2>6. \A k \in 1..Len(Defaults.Users) : DN(Entry("users", k)) = dnOf[Defaults.Users[k]]
    BY <2>4, <2>5, DirectoryAssumption DEF DN
  <2> QED
    BY <2>3, <2>6 DEF UniqueUsers, UniqueGiven, DistinctDNs
<1>2. DirectoryInv /\ SerialInv /\ UniqueUsers /\ [Next]_vars => UniqueUsers'
  <2>1. DirectoryInv /\ SerialInv /\ UniqueUsers /\ Next => UniqueUsers'
    BY UniqueStep DEF Next
  <2>2. UniqueUsers /\ UNCHANGED vars => UniqueUsers'
    <3>1. SUFFICES ASSUME UniqueUsers, UNCHANGED vars PROVE UniqueUsers'
      OBVIOUS
    <3>2. UNCHANGED <<list, arrays, on, mu, pc, req, next>>
      BY <3>1 DEF vars, listVars, loopVars
    <3>3. Current("users")' = Current("users")
      BY <3>2 DEF Current
    <3>4. \A k : DN(Entry("users", k))' = DN(Entry("users", k))
      BY <3>2, <3>3 DEF Entry, DN
    <3> QED
      BY <3>1, <3>3, <3>4 DEF UniqueUsers
  <2> QED
    BY <2>1, <2>2
<1>3. DirectoryInv /\ UniqueUsers => UniqueDN
  BY SlotsAreEntries DEF UniqueDN, UniqueUsers, Lists
<1> QED
  BY <1>1, <1>2, <1>3, SerialInvariant, PTL DEF Spec

-----------------------------------------------------------------------------
(* What is found and what is changed.                                      *)

\* The users that match, as a search of users sees them.
LEMMA SearchAnswer ==
  ASSUME DirectoryInv, SerialInv, NEW q \in Requests, Look(q) \/ lock(q) \/ Change(q),
         req[q].kind = "searchUsers", pc'[q] = "end"
  PROVE  Found(q) = {e \in Members("users") : match(req[q].filter, DN(e))}
<1>0. /\ pc \in [Requests -> PCs] /\ RequestInv(q) /\ ScanInv(q) /\ pos[q] \in Nat
  BY Parts, Types, SerialParts
<1>1. LoopDone(q, "find")
  BY SearchEnds, PanicStep, Zenon DEF nilEntry, Panic
<1>2. pc[q] = "find" /\ pos[q] > hdr[q].len /\ on[q] = "users" /\ hdr[q] = list["users"] /\ Scanned(q)
  BY <1>0, <1>1, ZenonT(30) DEF LoopDone, ScanInv, Scans, ScanKinds
<1> DEFINE n == list["users"].len
           a == arrays[list["users"].arr]
           f == found[q]
<1>3. mu = Nil /\ n \in Nat /\ pos[q] > n
  BY <1>2, LoopsAlone, Zenon DEF Loops
<1>4. \A k \in 1..n : Slots("users")[k] = a[k] /\ a[k] \in Refs
  BY <1>3, SlotsAreEntries, Zenon DEF Lists
<1>5. filter(q) = req[q].filter
  BY Zenon DEF filter
<1>6. \A e \in Refs : e \in Hits(q) <=> match(req[q].filter, DN(e))
  BY <1>5, Zenon DEF Hits
<1> HIDE DEF n, a, f
<1>7. \A k \in 1..n : k < pos[q]
  BY <1>0, <1>3
<1>8. /\ \A i \in 1..Len(f) : f[i].at \in 1..n /\ f[i].e = a[f[i].at] /\ f[i].e \in Hits(q)
      /\ \A k \in 1..n : a[k] \in Hits(q) => \E i \in 1..Len(f) : f[i].at = k
  BY <1>2, <1>7, Zenon DEF Scanned, Scan, n, a, f
<1>9. \A e : (\E i \in 1..Len(f) : e = f[i].e) <=> \E k \in 1..n : e = a[k] /\ e \in Hits(q)
  <2> TAKE e
  <2>1. ASSUME NEW i \in 1..Len(f), e = f[i].e PROVE \E k \in 1..n : e = a[k] /\ e \in Hits(q)
    BY <1>8, <2>1, Zenon
  <2>2. ASSUME NEW k \in 1..n, e = a[k], e \in Hits(q) PROVE \E i \in 1..Len(f) : e = f[i].e
    <3>1. PICK i \in 1..Len(f) : f[i].at = k
      BY <1>8, <2>2, Zenon
    <3> QED
      BY <1>8, <2>2, <3>1, Zenon
  <2> QED
    BY <2>1, <2>2, Zenon
<1>10. \A e : e \in Members("users") <=> \E k \in 1..n : e = a[k]
  BY <1>4, Zenon DEF Members, n
<1>11. \A e : e \in Found(q) <=> \E i \in 1..Len(f) : e = f[i].e
  BY Zenon DEF Found, f
<1>12. \A e : e \in Found(q) <=> e \in Members("users") /\ e \in Hits(q)
  <2> TAKE e
  <2>1. /\ e \in Found(q) <=> \E k \in 1..n : e = a[k] /\ e \in Hits(q)
        /\ e \in Members("users") <=> \E k \in 1..n : e = a[k]
    BY <1>9, <1>10, <1>11, Zenon
  <2> QED
    BY <2>1, Zenon
<1>13. \A e : e \in Members("users") => e \in Refs
  BY <1>4, <1>10
<1> QED
  BY <1>6, <1>12, <1>13, Zenon

(* find goes through the users while nobody changes them: the answer to a  *)
(* search of users has exactly the users its filter matches.               *)
THEOREM SerialSearchComplete ==
  ASSUME Serial
  PROVE  Spec => SearchComplete
<1> DEFINE Complete ==
      \A q \in Requests :
        req[q].kind = "searchUsers" /\ pc[q] # "end" /\ pc'[q] = "end" /\ reply'[q] # "unwritten" =>
          Found(q) = {e \in Members("users") : match(req[q].filter, DN(e))}
<1>1. DirectoryInv /\ SerialInv /\ [Next]_vars => [Complete]_vars
  <2>1. DirectoryInv /\ SerialInv /\ Next => Complete
    BY SearchAnswer, AnswersItself, Zenon DEF Next
  <2> QED
    BY <2>1, Zenon
<1> QED
  BY <1>1, SerialInvariant, PTL DEF Spec, SearchComplete

\* A delete answered with success has removed the only entry its DN matched.
LEMMA DeleteAnswer ==
  ASSUME DirectoryInv, SerialInv, NEW q \in Requests, handleDelete(q), NEW l \in Lists, l = on'[q]
  PROVE  /\ match({req[q].dn}, DN(removed[q]))
         /\ \A e \in Members(l)' : ~match({req[q].dn}, DN(e))
<1>1. /\ RequestInv(q) /\ ScanInv(q) /\ pc[q] = "shifted" /\ on' = on /\ arrays' = arrays
      /\ list' = [list EXCEPT ![l] = next[q]] /\ list \in [Lists -> Header]
  BY Holder, Parts, SerialParts DEF handleDelete, Answer, Goto, loopVars
<1>2. req[q].kind = "delete" /\ removed[q] \in Hits(q) /\ NoHit(q, l)
  BY <1>1, Zenon DEF RequestInv, ScanInv
<1>3. mu = q /\ q # Nil
  BY <1>1, Holder DEF Changing
<1>4. Current(l) = next[q] /\ list'[l] = next[q]
  BY <1>1, <1>2, <1>3, ZenonT(30) DEF Current
<1>5. \A e \in Members(l)' : e \in Refs /\ e \notin Hits(q)
  <2>1. list'[l] = Current(l) /\ arrays' = arrays
    BY <1>1, <1>4, Zenon
  <2>2. \A e \in Members(l)' : e \in Refs /\ \E k \in 1..Current(l).len : e = Entry(l, k)
    BY <2>1, MembersAfter
  <2> QED
    BY <1>2, <2>2, Zenon DEF NoHit
<1>6. filter(q) = {req[q].dn}
  BY <1>2, Zenon DEF filter
<1> QED
  BY <1>2, <1>5, <1>6, Zenon DEF Hits

\* A modify answered with success has changed the only user its DN matches.
LEMMA ModifyAnswer ==
  ASSUME DirectoryInv, SerialInv, NEW q \in Requests, handleModify(q)
  PROVE  \E x \in Refs : /\ \A e \in Refs : attrs'[e] # attrs[e] => e = x
                         /\ {e \in Members("users")' : match({req[q].dn}, DN(e))} = {x}
<1>1. /\ ScanInv(q) /\ req[q].kind = "modify" /\ pc[q] = "locked" /\ arrays' = arrays /\ list' = list
  BY ModifyEffect, SerialParts, Zenon DEF listVars
<1> DEFINE x == found[q][1].e
           at == found[q][1].at
<1>2. /\ hdr[q] = list[on[q]] /\ at \in 1..hdr[q].len /\ x = arrays[hdr[q].arr][at] /\ x \in Hits(q)
      /\ \A k \in 1..hdr[q].len : arrays[hdr[q].arr][k] \in Hits(q) => k = at
  BY <1>1, HasFound
<1>3. on[q] = "users"
  <2>1. SUFFICES ASSUME on[q] = "groups" PROVE FALSE
    BY Holder DEF Lists
  <2>2. filter(q) = {}
    BY <1>1, <2>1, Zenon DEF filter
  <2> QED
    BY <1>2, <2>2, Zenon DEF Hits, match
<1>4. filter(q) = {req[q].dn}
  BY <1>1, <1>3, Zenon DEF filter
<1>5. Current("users") = list["users"]
  BY <1>1, Holder, Zenon DEF Current, Changing
<1>6. \A e : e \in Members("users")' <=>
               e \in Refs /\ \E k \in 1..list["users"].len : e = arrays[list["users"].arr][k]
  BY <1>1, <1>5, MembersAfter DEF Lists, Entry
<1>7. x \in Refs
  BY <1>2, Zenon DEF Hits
<1>8. \A e \in Refs : attrs'[e] # attrs[e] => e = x
  BY ModifyEffect, Parts, Types, Zenon
<1> HIDE DEF x, at
<1>9. \A e : e \in Members("users")' /\ e \in Hits(q) <=> e = x
  BY <1>2, <1>3, <1>6, <1>7
<1>10. {e \in Members("users")' : match({req[q].dn}, DN(e))} = {x}
  <2>1. \A e \in Refs : e \in Hits(q) <=> match({req[q].dn}, DN(e))
    BY <1>4, Zenon DEF Hits
  <2>2. \A e : e \in Members("users")' => e \in Refs
    BY <1>6
  <2> QED
    BY <1>9, <2>1, <2>2, Zenon
<1> QED
  BY <1>7, <1>8, <1>10, Zenon

\* What the answer to a change promises: a delete leaves no match in its list,
\* a modify changes the one user that matches, and nothing else changes an entry.
Matched(q) ==
  LET hits(l) == {e \in Members(l)' : match({req[q].dn}, DN(e))}
      changed == {e \in Refs : attrs'[e] # attrs[e]}
  IN  /\ req[q].kind = "delete" => match({req[q].dn}, DN(removed[q])) /\ hits(on[q]) = {}
      /\ req[q].kind = "modify" => \E e \in Refs : hits("users") = {e} /\ changed \subseteq {e}
      /\ req[q].kind # "modify" => changed \subseteq {q}

(***************************************************************************)
(* handleDelete and handleModify act on the position and the entry they    *)
(* found before they took d.mu.  When requests come one after the other    *)
(* that is the one entry of its list their DN matches: a delete leaves no  *)
(* match, a modify changes the one user that matches and never a group,    *)
(* and nothing else changes attributes of an entry that is there.          *)
(***************************************************************************)
THEOREM SerialChangeMatches ==
  ASSUME Serial
  PROVE  Spec => ChangeMatches
<1>1. DirectoryInv /\ SerialInv /\ Next =>
        \A q \in Requests : pc[q] # "end" /\ pc'[q] = "end" /\ reply'[q] = "success" => Matched(q)
  <2>1. SUFFICES ASSUME DirectoryInv, SerialInv, NEW q \in Requests, Look(q) \/ lock(q) \/ Change(q),
                        pc'[q] = "end", reply'[q] = "success"
                 PROVE  Matched(q)
    BY AnswersItself, Zenon DEF Next
  <2>2. ASSUME req[q].kind = "delete"
        PROVE  match({req[q].dn}, DN(removed[q])) /\ {e \in Members(on[q])' : match({req[q].dn}, DN(e))} = {}
    <3>1. handleDelete(q)
      BY <2>1, <2>2, CountingSteps, Zenon
    <3>2. PICK l \in Lists : l = on'[q]
      BY <2>1, ChangeFrame, LookFrame, Parts, Zenon DEF Frame
    <3>3. Members(on[q])' = Members(l)'
      BY <3>2, Zenon DEF Members, Slots
    <3> QED
      BY <2>1, <3>1, <3>2, <3>3, DeleteAnswer, Zenon
  <2>3. ASSUME req[q].kind = "modify"
        PROVE  \E x \in Refs : /\ {e \in Members("users")' : match({req[q].dn}, DN(e))} = {x}
                               /\ {e \in Refs : attrs'[e] # attrs[e]} \subseteq {x}
    <3>1. handleModify(q)
      BY <2>1, <2>3, ModifyComes
    <3>2. PICK x \in Refs : /\ \A e \in Refs : attrs'[e] # attrs[e] => e = x
                           /\ {e \in Members("users")' : match({req[q].dn}, DN(e))} = {x}
      BY <2>1, <3>1, ModifyAnswer, Zenon
    <3>3. {e \in Refs : attrs'[e] # attrs[e]} \subseteq {x}
      BY <3>2
    <3> QED
      BY <3>2, <3>3, Zenon
  <2>4. ASSUME req[q].kind # "modify"
        PROVE  {e \in Refs : attrs'[e] # attrs[e]} \subseteq {q}
    BY <2>1, <2>4, OthersLeaveAttributes
  <2> QED
    BY <2>2, <2>3, <2>4, Zenon DEF Matched
<1> DEFINE Step ==
      \A q \in Requests : pc[q] # "end" /\ pc'[q] = "end" /\ reply'[q] = "success" => Matched(q)
<1>2. DirectoryInv /\ SerialInv /\ [Next]_vars => [Step]_vars
  BY <1>1, Zenon
<1> QED
  BY <1>2, SerialInvariant, PTL DEF Spec, ChangeMatches, Matched
=============================================================================
