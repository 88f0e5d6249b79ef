# gldap in TLA+

A verification development of gldap, a Go package for building LDAP services,
kept beside its code. The TLA+ modules model the server, its connections, the
router, the codec and the test directory; TLC checks them on small instances;
the safety of the connections, the server, the router and the test directory, and
that a connection keeps to an abstract life, are proved with TLAPS for every size.

`PROJECT.json` maps every definition to the source lines it models and lists
the runs, the hazards of the code, the findings and the theorems.

## The system

| part | source | what it does |
|------|--------|--------------|
| server | `server.go` | `Run` listens and accepts, one goroutine per connection, counted in `connWg`; `Stop` closes the listener, cancels the shutdown context and waits for `connWg`; `Router` and `Ready` share an RWMutex with both |
| connection | `conn.go`, parts of `request.go`, `response.go` | the loop `serveRequests` reads packets, runs unbind and StartTLS itself and every other request in a goroutine counted in `requestsWg`; responses share one buffered writer and its lock; `close` waits for `requestsWg` |
| mux and routes | `mux.go`, `route.go` | routes are registered under `m.mu`; `serve` runs the first that matches, or the default route, and reads the list without the lock |
| codec | `packet.go`, `message.go`, `add.go`, `modify.go`, `request.go`, `response.go`, `response_options.go`, `entry.go` | a packet becomes a message and a request; a handler makes a response with options and setters; the response becomes a packet |
| controls | `control.go`, `control_options.go` | the LDAP controls, encoded and decoded in both directions |
| conversions | `request.go` (`ConvertString`, `readLength`), `sid.go` | octet strings and Windows SIDs |
| test directory | `testdirectory/directory.go` | a directory built on the server: bind, search, modify, add and delete handlers over two slices, and Set functions and getters for tests |
| fixtures | `testdirectory/{options,testing}.go` | the options of a test directory, the entries and TLS configurations made from them |
| options, codes, errors | `option.go`, `*_options.go`, `codes.go`, `error.go` | not modelled: assignments and tables |
| helpers, example, tools | `testing.go`, `testdirectory/testingt.go`, `examples/`, `tools/` | the request encoders of `testing.go` are the client of the codec model; the rest is not modelled: input, output and test plumbing |

## Modules

| module | extends | what it is |
|--------|---------|------------|
| `Conn` | | connections, their requests and clients |
| `ConnLife` | | what a connection promises: the abstract specification Conn implements |
| `ConnProofs` | `Conn` | the inductive invariant, its lemmas, the theorems |
| `ConnRefines` | `ConnProofs` | the proof that Conn implements ConnLife |
| `Server` | `Conn` | `Run`, `Stop`, `Router`, `Ready` composed with the connections |
| `ServerProofs` | `Server`, `ConnProofs` | the inductive invariant of the server, the theorems |
| `Mux`, `MCMux` | | registration and dispatch; its instance |
| `MuxProofs` | `Mux` | the inductive invariant of the router, the theorems |
| `Directory`, `MCDirectory` | | the test directory; its instance |
| `DirectoryInductive`, `DirectoryProofs` | `Directory`, the one before | the inductive invariant of the directory and what each step does; that it is kept |
| `DirectoryUsers` | `DirectoryProofs` | what becomes of the users when requests interleave |
| `DirectorySerial` | `DirectoryUsers` | what holds when requests come one after the other |
| `Ber` | | packets and `packet.assert` |
| `Convert` | `Ber` | string and SID conversions |
| `Controls` | `Ber` | controls |
| `Messages` | `Convert`, `Controls` | requests and their decoders |
| `Codec`, `MCCodec` | `Messages` | one exchange of a request and a response; its instance |
| `Fixtures` | | options, entries and TLS configurations of a test directory |
| `MCStateless` | `MCCodec` | exchanges, and between them calls of the other functions without state |

Conn leaves to Mux which handler a request gets and to Messages how a packet is
decoded: in Conn a packet is an operation, StartTLS, unbind or malformed, its
decoding may panic, and a handler may do whatever its API allows.

**Conn** has one program counter per connection (`pc`) and one record per
request (`req`): its status, its kind, the layer it came on (`via`) and the one
its writer belongs to (`w`). The actions are the steps of `serveRequests`
(`loopTop`, `readUnbind`, `readStartTLS`, `readMalformed`, `dispatch`,
`readFail`), of a response (`WriteLock`, `WriteFlush`), of StartTLS (`StartTLS`,
`initConn`, `handshakeError`), of a handler's end (`HandlerReturn`,
`HandlerPanic`) and of the deferred functions of `Run` (`connDone`,
`requestsWgWait`, `close`, `onCloseHandler`). The clients send, stall, resume
and close as they like. Packets sent are one sequence; `rpos` and `bpos` say how
far it is consumed and buffered, so that `initConn`, which drops the old
`bufio.Reader`, drops what it held. Alone, the module creates connections and
cancels the context at any time.

**ConnLife** is what handlers and the close callback may rely on, without
sockets, packets, locks and counters: a connection takes requests in order and
handles several at once, handles one alone when it must, takes none once it is
draining, is closed when none is left, and is reported last. A panic may end the
process. Conn maps to it with `Life`: the phase comes from `pc`, the socket and
whether an unbind or notice was taken, the requests taken and being handled from
`req`, and a StartTLS under way is alone.

**Server** extends Conn with `Run`, `Stop`, `Router` and the RWMutex: a
connection exists when `Run` accepted it, and ends by a step that decrements
`connWg`. A writer that waits keeps new readers out, as Go's RWMutex does.
A starter polls `Ready` under the read lock, as `Start` of the test directory
does, and dials once, as its `Conn` does.

**Mux** has goroutines that register and goroutines that serve. The list is
stored word by word, as Go stores a slice and an interface, so a serving
goroutine may meet a slot that is not complete yet (`Blank`).

**Directory** has the two slices as Go has them: headers stored word by word,
and arrays shared by every loop that has loaded a header. The handlers look
entries up without `d.mu` and take it to change something; the getters hand out
the header, so that its array stays shared.

**Ber**, **Controls**, **Messages** and **Convert** are pure operators: packets
as trees, and one operator per encoder and decoder. **Codec** is the machine of
one exchange: the client sends a request, `newRequest` decodes it, the handler
makes a response and calls its setters, `Write` encodes it, the client reads it.
**Fixtures** has the options as functions on a record, folded as `applyOpts` does,
and what `NewUsers`, `NewGroup`, `NewMemberOf`, `GetTLSConfig` and `Start` make of
them; a DN is the tuple of its parts.

## What is checked

Runs that hold:

| run | instance | properties |
|-----|----------|------------|
| `conn_safety` | 1 connection, 3 packets, both deadlines, every panic (685 k states) | the socket is closed only when all requests have ended; one writer at a time; replies on the layer the request came on; nothing after unbind; StartTLS holds the loop; the close callback at most once and last; every behaviour is one of ConnLife |
| `conn_closed` | 1 connection, 2 packets, no deadlines | a client that closes is released whatever was under way; with recovery on, a panic of the connection's own goroutine does not end the process; ConnLife with its fairness: a draining connection without requests is closed and reported |
| `server_safety` | 2 connections, 2 callers of `Stop`, 1 starter, TLS, every fault of the net package, no packets (1.1 M states) | after `Stop` no connection reads or serves in its loop; `Stop` misses at most one connection; `Stop` panics only on a single connection counted while its `Wait` was returning, which has read nothing; a dial after `Ready` is refused only by a failed listen or a `Stop` |
| `server_stop` | 1 connection, 1 packet, both deadlines, TLS | every connection ends once its deadlines have passed, stalled clients included; `Stop` returns, and then `Run` does |
| `mux_serve` | 3 registrations, 1 request; 8 kinds of registrations, 6 messages (180 k states) | the first matching route serves; no handler registered before is missed; a registration is never lost; a panic needs a registration under way |
| `dir_concurrent` | every pair of concurrent requests, Set calls and getters | no add or delete is lost or half done; a slice handed out stays whole; every request comes to its answer |
| `dir_serial` | every three requests, Set calls and getters, one after the other | DNs are unique, a delete or modify changes what it names and nothing else, no panic, a search is complete |
| `stateless` | every kind of request, response and control; texts of every length around the limits of the length field; SIDs with up to two sub-authorities; up to three options of a directory, in every order (67 k states) | what the client sent is what the handler gets, and the reverse, with the exceptions below; decoding and making a response panic in two known cases only; SIDs are read as written; a described packet still decodes; the last option that sets something wins; a group names its members by their DNs; client and server of a directory agree on TLS |

Every property of these runs was also tried against a changed model, one
plausible slip of the code each (`mutants` in `PROJECT.json`), which must
violate it.

Runs that end in a counterexample; each checks what a comment says, which the
code does not do:

| run | what it shows |
|-----|---------------|
| `conn_idle_client` | a silent client keeps its connection served after shutdown, when no read timeout is set: the context is looked at only before the blocking read (`conn.go` 82, 106) |
| `conn_panic` | a panic in the handler of a dispatched request ends the process in spite of panic recovery: its goroutine has no recover (`conn.go` 135) |
| `server_stop_early` | `Stop` returns while a connection it waited for is open: its goroutine calls `connWg.Done` before `close` (`server.go` 118). A connection accepted and not started yet is excepted |
| `dir_replace` | a modify that replaces an attribute is answered with success and changes nothing: it assigns to a local variable (`testdirectory/directory.go` 575) |

### Other disagreements

Met while modelling. The models do what the code does here, and the instances
have the inputs that show it; the properties except it by name, or say nothing
that depends on it, as noted.

| code | what it does | what is said | in the models |
|------|--------------|--------------|---------------|
| `conn.go` 132 | requests dispatched before StartTLS run during the negotiation | "needs to complete it's TLS negotiation before handling any other requests" (`conn.go` 128) | `StartTLS` does not wait for `Dispatched` |
| `server.go` 77 | `Ready` is true after a failed listen | "ready to accept connection" (`server.go` 158) | `runListen`; `ReadyMeansDialable` excepts it |
| `server.go` 114 | `connWg.Add` may meet the end of the `Wait` of `Stop`, which panics | "stop server gracefully" (`README.md` 53) | `stopPc` is `panicked`; `StopPanicsOnLateConnection` says when |
| `route.go` 188 | a route with scope `BaseObject` (0) matches every scope | test "scope-mismatch" (`route_test.go` 131) | the match of search routes |
| `testdirectory/directory.go` 605 | two concurrent adds of one DN succeed | "entry exists for DN" (line 607) | `UniqueDN` is checked with `Serial = TRUE` |
| `testdirectory/directory.go` 644 | a delete uses an index found before the lock | test at `directory_test.go` 723 | `ChangeMatches` likewise |
| `testdirectory/directory.go` 679 | a group is returned once per matching member | test "admin-member-found-no-dups" (`directory_test.go` 322) | `found` is a sequence |
| `testdirectory/directory.go` 103 | `Start` does not copy the token groups | "TokenGroups configures the tokenGroup entries" (`options.go` 87) | `Init` of Directory, `Start` of Fixtures |
| `testdirectory/directory.go` 745 | a failed dial is never tried again | `retryAttempt := 5` (line 740) | `Dial` happens once |
| `testdirectory/directory.go` 724 | a DN that is part of another exists already | "entry exists for DN" (line 607) | `Contains` |
| `packet.go` 217 | several values of a change arrive as one | "Vals are the values of the partial attribute" (`modify.go` 36) | `RequestArrives` asks for the values of a change only when there is one |
| `request.go` 303 | `ConvertString` panics on an empty text | "all other types will return an error" (`request.go` 288) | the values of a change that has none, which `RequestArrives` excepts |
| `packet.go` 241 | the value of an extended request is not read | "Value of the extended operation" (`message.go` 108) | `RequestArrives` leaves the value out |
| `packet.go` 106 | a bind with another version panics | "incorrect ldap version, expected 3 but got" (same line) | versions 2 and 3; one of the two panics of `PanicsKnown` |
| `packet.go` 138 | an unknown request is an error | "newMessage defaults to returning an *ExtendedOperationMessage" (`request.go` 74) | an unknown kind is sent; `RequestArrives` says nothing of it |
| `request.go` 103 | `NewModifyResponse` needs a response code | an option (`request.go` 97) | with and without; the other panic of `PanicsKnown` |
| `response.go` 126 | the response name is not sent | "SetResponseName will set the response name" (`response.go` 121) | `ResponseArrives` lets it be missing, not be another |
| `control.go` 222 | `MustChange` false arrives as true | "indicates if the password is required to be changed" (`control.go` 553) | both values; `Keeps` excepts false |
| `control_options.go` 56 | a code above the largest int passes the check | "must be between 0-8" (`control.go` 538) | codes up to 9 and the largest uint; `Keeps` excepts what wraps |

### Bounds

`MaxPackets` bounds what a client sends: three packets give an operation, a
StartTLS and a packet behind it, or two operations and an unbind. Connections
share nothing in Conn, so one is enough there; two are needed for `connWg` and
connection numbers. `server_safety` leaves packets out to afford two callers of
`Stop`; requests are the business of `conn_safety` and `server_stop`.

In the directory every two calls race with each other; three calls one after
the other give, for instance, a search after an add and a delete. Three options
let one be given twice with another in between. Integers of
the codec have `IntBits` and `SizeBits` bits (10 and 3 instead of 64 and 32), so
that conversions still wrap; `MaxAttributes` bounds the attributes added to one
entry, and two of the requests are answered in every way while the others only
arrive.

Deadlock is checked wherever the model has a step to take in every state; it is
off where requests, packets or calls simply run out.

### Fairness

Goroutines that can run do run (weak fairness); a mutex is handed over to one
who keeps asking (strong fairness on taking it, as Go's mutexes prevent
starvation); handlers return; deadlines that were set pass. No client is fair:
none has to send, read or close, and no write of a search has to fail. Liveness properties therefore hold against any
client, and name what ends a wait: a closed client or a deadline.

## What is proved

For all values of the constants, from the assumptions of the modules alone:
`ConnAssumption` only types the constants; `ServerAssumption` also counts a panic
of the process outside handlers (a misused WaitGroup) among `Panics`;
`MuxAssumption` also keeps the values for nil and for an incomplete slot apart
from callers and routes; `DirectoryAssumption` types the constants and keeps nil,
the given entries and the added ones apart. Where a theorem needs more it says so,
in a hypothesis of its own (third column).

| module | theorem | states |
|--------|---------|--------|
| `ConnProofs` | `ConnInvariant` | `ConnSpec => []ConnInv` |
| | `TypeCorrect` | `[]ConnTypeOK` |
| | `CloseDrains` | `[]CloseDrainsRequests` |
| | `WritersExclude` | `[]OneWriter` |
| | `RepliesOnLayer` | `[]ReplyOnArrivalLayer` |
| | `UnbindIsLast` | `[]LastRequest` |
| | `StartTLSExcludes` | `[]StartTLSHoldsLoop` |
| | `OnCloseLast` | `[]OnCloseOnce` |
| | `OnlyUnrecoveredPanicsCrash` | recovery on: the process ends only by a step of `Escapes` |
| | `DecodePanicsContained` | recovery on, only decoding panics: `[]PanicsContained` |
| `ConnRefines` | `ConnImplementsLife` | `ConnSpec => LivesAsPromised` |
| `ServerProofs` | `ServerInvariant` | `Spec => []ServerInv` |
| | `ServerImplementsConn` | `Spec => ConnSpec` |
| | `ServerTypeCorrect` | `[]TypeOK` |
| | `StopEndsReading` | `[]NoReadAfterStop` |
| | `StopMissesOne` | `[]OneLateConnection` |
| | `StopPanicsOnLate` | `[]StopPanicsOnLateConnection` |
| | `ReadyIsDialable` | `[]ReadyMeansDialable` |
| `MuxProofs` | `MuxInvariant` | `Spec => []MuxInv` |
| | `MuxTypeCorrect` | `[]TypeOK` |
| | `ServeFirstMatch` | `[]FirstMatch` |
| | `ServeMissesNone` | `[]NoHandlerMissed` |
| | `NoRegistrationLost` | `[]RegisteredStays` |
| | `QuietServeIsSafe` | `[]PanicNeedsRegistration` |
| `DirectoryProofs` | `DirectoryInvariant` | `Spec => []DirectoryInv` |
| | `DirectoryTypeCorrect` | `[]TypeOK` |
| | `HandedOutStaysWhole` | `[]SliceStaysWhole` |
| `DirectoryUsers` | `NoUserLost` | `DistinctStart`: `[]EntriesIntact` |
| `DirectorySerial` | `SerialNeverPanics` | `Serial`: `[]NoPanic` |
| | `SerialUniqueDN` | `Serial`, `UniqueGiven`: `[]UniqueDN` |
| | `SerialSearchComplete` | `Serial`: `SearchComplete` |
| | `SerialChangeMatches` | `Serial`: `ChangeMatches` |

### Connections

None of the properties is inductive. `ConnInv` adds to the types:

- `ReaderInv`: consumed ≤ buffered ≤ sent, the loop counts no more requests than
  packets, and everything unread was sent on the current layer. Without the
  last part a request read after StartTLS could have come in plaintext.
- `RequestInv`: requests not read yet are blank; only operations run beside the
  loop; an unbind, StartTLS or notice in progress is the loop's current request
  and the loop is at the place that waits for it; who writes holds the lock.
- `WgInv`: `requestsWg` is the number of operations in progress. This is what
  makes the wait of `close` mean that all have ended.
- `CloseInv`: the socket is closed exactly from the return of `close` on, the
  count is zero from then on, and the callback is the last step.

`ConnProofs` goes through the steps once per part (`TypeStep`, `ReaderStep`,
`RequestStep`, `WgStep`, `CloseInvStep`); steps shared by several actions have a
lemma each (`ReceiveEffect`, `SetStatusEffect`, `StatusKeeps`).

That a panic ends the process only when no recover is above it needs one more
invariant, `Recovered`: with recovery on no connection goes on unwinding. The code
promises more, and `conn_panic` shows that it does not hold; the theorem says
which panics are left.

`ConnRefines` shows that every step of Conn is a step of ConnLife or leaves it
alone. Most actions leave the mapped state alone (`SameRequests`); the rest take a
request (`NewRequest`), end one (`StatusChange`) or change the phase. That a
connection is closed with nothing being handled, the guard of `Close`, is where
`WgInv` is needed; that requests are taken in order comes from `RequestInv`.

### Server

`ServerImplementsConn` says that the connections the server starts behave as Conn
on its own, so the theorems about Conn hold of the server too. `ServerInv` adds to
`ConnInv` and the types:

- `AcceptInv`: connection numbers are used in order, and only the last one may be
  accepted and not started.
- `ConnWgInv`: `connWg` is the number of goroutines that have not called `Done`.
  Without it a `Wait` that returned says nothing about connections.
- `StopInv`: a `Stop` keeps the read lock to its end; once it has closed the
  listener there is none open, or only one that `Run` opened too late, and `Run`
  then finds the context cancelled before it accepts. This is why at most one
  connection is missed, the one `Run` had accepted and not counted.
- `StoppedInv`: what is left when the `Wait` of a `Stop` is over (`WaitOver`: it is
  returning, has returned or has panicked); a late connection finds the context
  cancelled at the head of its loop and reads nothing.
- `PanicInv`: a `Stop` that panicked found the counter in use and ended the process.
  With `ConnWgInv` somebody is counted then, and with `StoppedInv` nobody else.
- `ReadyInv`: `Ready` is true only after `Listen`; a listener is missing only when
  that failed, and closed only by a `Stop`.

### Router

`MuxInv` says what `m.mu` protects and what `serve`, which does not take it, may
rely on all the same:

- `LockInv`: who stores holds `m.mu`, and a call that is done is registered.
- `SlotsInv`: only the last slot can be incomplete, and only while somebody
  stores it. So the complete slots are the first ones (`StoredCount`).
- `RequestInv`: the slots complete when a request came in stay as they are; those
  passed over did not match; the request is quiet only as long as nobody took
  `m.mu`. A step of a registration keeps this because it never changes a complete
  slot (`RegisterEffect`), which is why reading without the lock returns the right
  route.

### Test directory

Handlers look at the slices without `d.mu` and change them under it, in several
steps: an append stores the header, then the entry; a delete shifts the array,
then stores the header. `Current(l)` is what list `l` holds in between: the old
list as far as an append has not stored the entry, the shortened one as soon as a
delete has shifted. With it `DirectoryInv` says:

- `RequestInv`: who is changing something has `d.mu` and a request of that kind,
  and a delete or modify has found exactly one entry.
- `ListsInv`: the two lists are in different arrays, the current slots are entries,
  and an append has a slot for its entry.
- `AddedInv`: an entry of an add is in an array, or removed, only once that add was
  answered. So no append can bring in an entry that is there already.
- `SliceStaysWhole` itself, with `HandedOut`: a slot in use never becomes nil again,
  because `copy` shifts entries and nothing clears the last slot (`ArraysStep`).

`DirectoryInductive` says what each action does (`LookFrame`, `ChangeFrame`,
`GrowEffect`, `ShiftEffect`, `AddEffect`), `DirectoryProofs` that every part is kept.

`NoUserLost` is about requests that interleave in any way. `UsersInv` says of the
current list what `EntriesIntact` says only while `d.mu` is free: its entries are
different, and they are those of the answered requests, a delete counting from its
shift on. `SetUsers` replaces the list, so it holds until one has. `DistinctStart`
(the users given at the start are different pointers) is needed: a user given
twice is there twice.

The other theorems are about requests that wait for each other (`Serial`), as the
code needs: `dir_concurrent` cannot check them, since an index found before
`d.mu` is taken may be stale after. `SerialInv` says that only one request is
under way, so a loop works on the list as it is (`LoopsAlone`), and that at slot k
`find` has collected exactly the matches of the slots before k, each once
(`Scanned`). At the end of the loop this is what a search answers; for a delete or
modify it is the one match; for an add it is that nothing matches, which with
`UniqueGiven` (the users given have different DNs, and a DN contains itself) keeps
DNs unique.

## Only model-checked

- Liveness, and refinement with fairness (`ClosedClientReleased`, `LivesToTheEnd`,
  `DeadlinesEndConnection`, `StopTerminates`, `StopEndsRun`,
  `EveryRequestAnswered`): the prover does not handle fairness.
- The codec and the functions without state (`RequestArrives`, `ResponseArrives`,
  `PanicsKnown`, `SIDInverse`, `DescribedDecodes`, `LastOptionWins`,
  `GroupNamesUsers`, `ConnFits`): what a decoder returns for every packet, or a
  fold for every list of options, would need induction over data.
- `ShutdownEndsServing`, `PanicsContained` without the restriction above,
  `StopClosesConnections` and `ReplaceTakesEffect` do not hold; their runs show why.

## Abstractions

- Conn: `c.mu` is not modelled, as only the connection's goroutine takes it. A
  failed write has no effect on control but for the disconnection notice, and
  the error of `close` is only logged. A handler negotiates TLS with success at
  most once per request. WaitGroup operations are atomic.
- Server: `Run` is called once and each caller of `Stop` calls once.
- Mux: the nil checks of `serve` are unreachable from the loop and left out;
  routes do not change once stored.
- Directory: a search whose entries cannot be written ends without an answer
  (`writeError`), as the buffered writer fails from then on; that the last write of
  a handler fails changes nothing in the directory and is left out. `SetGroups` is
  as `SetUsers`, the three Set functions of one word are one action, and so are the
  getters. `copy` in delete is one step; a read beyond an array is a panic; a
  modify changes attributes in one step, and a bind that overlaps it may read
  either password; DNs are plain texts without wildcards or parentheses;
  `SetUsers` does not share the caller's slice.
- Codec: the ber library is external; packets are as they are read back from the
  wire; a filter is the tuple of its parts, and decompiling fails on one the
  library does not know; a write fails at any time and the client then reads
  nothing; the client sends well-formed messages and decodes controls as `decodeControl` does.

- Fixtures: a certificate is what a TLS client checks of it; email and password,
  the same for every user, are left out, and so is the logger.

## Not modelled

- The options of the library (`option.go`, `*_options.go` of the server, messages
  and routes) copy one argument each; result codes and errors are tables.
- Logging and text output (`Log`, `String`, `PrettyPrint`) hold no state a property
  is about.
- Key generation, signing and PEM encoding of the test directory are
  cryptography and formatting without state. The logger adapter of
  `testdirectory/testingt.go` forwards calls.
- `examples/simple` is a user of the library. Its handlers share a map without a
  lock; what it does is not the library's.
- `Directory.Stop` calls `Stop` of the server or nothing, depending on how the
  directory was started.
- Packets no encoder of the repository or RFC 4511 makes, such as a bind with four
  children or a search without attributes. The decoders have the branches;
  a malformed packet is one kind of packet in Conn.
- The router and a connection are not composed: Conn lets any handler be called,
  and Mux lets an unbind route be registered at any time.
