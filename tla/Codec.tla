-------------------------------- MODULE Codec -------------------------------
(***************************************************************************)
(* One exchange: a client writes a request, the connection builds the      *)
(* Request from the packet, a handler makes responses of it, changes them  *)
(* with their setters and writes them, and the client reads what arrives.  *)
(***************************************************************************)
EXTENDS Messages

CONSTANTS
  Requests,       \* the messages of clients
  Versions,       \* the LDAP versions clients bind with
  Makers(_),      \* the calls that make a response to a message: a constructor and its options
  Codes,          \* result codes handlers set
  Texts,          \* diagnostic messages, matched DNs and names they set
  ControlLists,   \* controls they set
  Attributes,     \* attributes they add to an entry
  MaxAttributes   \* the attributes of an entry

ASSUME CodecAssumption ==
  /\ IsFiniteSet(Requests) /\ IsFiniteSet(ControlLists)
  /\ Codes \subseteq -2^15..(2^15 - 1)
  /\ MaxAttributes \in Nat

VARIABLES
  phase,     \* where the exchange is
  sent,      \* the message of the client
  packet,    \* the packet the connection reads
  message,   \* the message of the Request
  route,     \* its routeOp and extendedName
  response,  \* the response the handler works on
  asked,     \* what the handler asked to be in it; an option not used is {}
  seen       \* the response as the client reads it

vars == <<phase, sent, packet, message, route, response, asked, seen>>

Nothing == [kind |-> "nothing"]
ResultUnwillingToPerform == 53
int16(n) == LET r == n % 2^16 IN IF r < 2^15 THEN r ELSE r - 2^16

AskedNothing ==
  [made |-> "", code |-> {}, tag |-> {}, diag |-> {}, matchedDN |-> {}, name |-> {}, dn |-> {},
   controls |-> {}, attributes |-> <<>>]

Init ==
  /\ phase = "idle"
  /\ sent = Nothing /\ packet = Nothing /\ message = Nothing /\ route = Nothing
  /\ response = Nothing /\ asked = AskedNothing /\ seen = Nothing

Send(m, version) ==
  /\ phase = "idle"
  /\ sent' = m
  /\ packet' \in encodeRequest(m, version)
  /\ phase' = "sent"
  /\ UNCHANGED <<message, route, response, asked, seen>>

\* The handlers of an extended operation are found by its name, too.
routeOf(m) ==
  [kind |-> "route", op |-> m.kind, name |-> IF m.kind = "extended" THEN m.name ELSE ""]

\* readRequest calls it with its connection and the packet it has read, never
\* nil, and ends the connection with an error, or with the panic.
newRequest ==
  /\ phase = "sent"
  /\ message' = newMessage(packet)
  /\ route' = IF Returned(message') THEN routeOf(message') ELSE Nothing
  /\ phase' = IF Returned(message') THEN "handling" ELSE message'.kind
  /\ UNCHANGED <<sent, packet, response, asked, seen>>
-----------------------------------------------------------------------------
baseResponse(kind, tag, code, diag, matchedDN) ==
  [kind |-> kind, tag |-> tag, messageID |-> message.id, code |-> int16(code), diag |-> diag,
   matchedDN |-> matchedDN, name |-> "", controls |-> <<>>, dn |-> "", attributes |-> <<>>]

Or(given, default) == IF given = {} THEN default ELSE CHOOSE x \in given : TRUE

NewResponse(o) ==
  baseResponse("general", Or(o.tag, "ExtendedResponse"), Or(o.code, ResultUnwillingToPerform),
               Or(o.diag, "Unused"), Or(o.matchedDN, "Unused"))

\* The code is dereferenced before NewResponse looks whether there is one.
NewModifyResponse(o) ==
  IF o.code = {} THEN Panicked
  ELSE NewResponse([o EXCEPT !.tag = {"ModifyResponse"},
                             !.diag = {Or(o.diag, "Unused")}, !.matchedDN = {Or(o.matchedDN, "Unused")}])

NewExtendedResponse(o) == baseResponse("extended", "ExtendedResponse", Or(o.code, 0), "", "")
NewBindResponse(o) == baseResponse("bind", "BindResponse", Or(o.code, 0), "", "")
NewSearchDoneResponse(o) == baseResponse("done", "SearchResultDone", Or(o.code, 0), "", "")

\* The attributes come from a map, in any order.
NewSearchResponseEntry(o) ==
  {[baseResponse("entry", "SearchResultEntry", 0, "", "") EXCEPT !.dn = Or(o.dn, ""),
                                                              !.attributes = attributes] :
     attributes \in SetToSeqs(o.attributes)}

\* A handler calls a constructor; what it asks for are the options.
New(constructor, o) ==
  /\ phase = "handling"
  /\ response' \in CASE constructor = "NewResponse" -> {NewResponse(o)}
                     [] constructor = "NewModifyResponse" -> {NewModifyResponse(o)}
                     [] constructor = "NewExtendedResponse" -> {NewExtendedResponse(o)}
                     [] constructor = "NewBindResponse" -> {NewBindResponse(o)}
                     [] constructor = "NewSearchDoneResponse" -> {NewSearchDoneResponse(o)}
                     [] constructor = "NewSearchResponseEntry" -> NewSearchResponseEntry(o)
  /\ asked' = [AskedNothing EXCEPT !.made = constructor, !.code = o.code, !.tag = o.tag,
                 !.diag = o.diag, !.matchedDN = o.matchedDN, !.dn = o.dn,
                 !.attributes = SetToSeq(o.attributes)]
  /\ phase' = IF Returned(response') THEN "responding" ELSE "panic"
  /\ UNCHANGED <<sent, packet, message, route, seen>>

\* Setters: the field of the response, and what the handler asked for.
Change(r, a) ==
  /\ response' = r
  /\ asked' = a
  /\ UNCHANGED <<phase, sent, packet, message, route, seen>>

SetResultCode(code) ==
  /\ phase = "responding"
  /\ Change([response EXCEPT !.code = int16(code)], [asked EXCEPT !.code = {code}])
SetDiagnosticMessage(msg) ==
  /\ phase = "responding"
  /\ Change([response EXCEPT !.diag = msg], [asked EXCEPT !.diag = {msg}])
SetMatchedDN(dn) ==
  /\ phase = "responding"
  /\ Change([response EXCEPT !.matchedDN = dn], [asked EXCEPT !.matchedDN = {dn}])
SetResponseName(n) ==
  /\ phase = "responding" /\ response.kind = "extended"
  /\ Change([response EXCEPT !.name = n], [asked EXCEPT !.name = {n}])
SetControls(controls) ==
  /\ phase = "responding" /\ response.kind \in {"bind", "done"}
  /\ Change([response EXCEPT !.controls = controls], [asked EXCEPT !.controls = {controls}])
AddAttribute(a) ==
  /\ phase = "responding" /\ response.kind = "entry" /\ Len(response.attributes) < MaxAttributes
  /\ Change([response EXCEPT !.attributes = Append(@, a)],
            [asked EXCEPT !.attributes = Append(@, a)])
-----------------------------------------------------------------------------
Reply(r, children, controls) ==
  NewSequence(<<NewInteger(r.messageID), Application(r.tag, children)>>
    \o (IF controls = <<>> THEN <<>> ELSE <<encodeControls(controls)>>))

addOptionalResponseChildren(r) == <<NewString(r.matchedDN), NewString(r.diag)>>
LDAPResult(r) == <<NewEnumerated(r.code)>> \o addOptionalResponseChildren(r)

packetOfDone(r) == Reply(r, LDAPResult(r), r.controls)
packetOfBind(r) == Reply(r, LDAPResult(r), r.controls)
packetOfExtended(r) == Reply(r, LDAPResult(r), <<>>)
packetOfGeneral(r) == Reply(r, LDAPResult(r), <<>>)
packetOfEntry(r) ==
  Reply(r, <<NewString(r.dn),
             NewSequence([k \in 1..Len(r.attributes) |-> encodeAttribute(r.attributes[k])])>>, <<>>)

packetOf(r) ==
  CASE r.kind = "entry" -> packetOfEntry(r)
    [] r.kind = "done" -> packetOfDone(r)
    [] r.kind = "bind" -> packetOfBind(r)
    [] r.kind = "extended" -> packetOfExtended(r)
    [] r.kind = "general" -> packetOfGeneral(r)

\* What a client reads: the result or the entry, the controls, and the name
\* that comes after the result of an extended response.
Read(p) ==
  LET r == Child(p, 1)
      controls == IF Len(p.children) > 2 THEN decodeControls(Child(p, 2))
                  ELSE [kind |-> "controls", controls |-> <<>>]
      read == [kind |-> "read", id |-> Child(p, 0).value, tag |-> r.tag,
               controls |-> controls]
  IN  IF r.tag = "SearchResultEntry"
        THEN read @@ [dn |-> Child(r, 0).value,
                      attributes |-> [k \in 1..Len(Child(r, 1).children) |->
                                        decodeAttribute(Child(r, 1).children[k]).result]]
        ELSE read @@ [code |-> Child(r, 0).value, matchedDN |-> Child(r, 1).value,
                      diag |-> Child(r, 2).value,
                      name |-> IF Len(r.children) > 3 THEN Child(r, 3).value ELSE ""]

\* Without a response, or when the writer or its flush fails, Write returns an
\* error and the client reads nothing.  The lock of the writer is part of Conn.
Write ==
  /\ \/ phase = "responding" /\ phase' = "written" /\ seen' = Read(packetOf(response))
     \/ phase \in {"handling", "responding"} /\ phase' = "unwritten" /\ UNCHANGED seen
  /\ UNCHANGED <<sent, packet, message, route, response, asked>>

\* The handler goes on to the next response of this request.
NextResponse ==
  /\ phase \in {"written", "unwritten"}
  /\ phase' = "handling"
  /\ response' = Nothing /\ asked' = AskedNothing /\ seen' = Nothing
  /\ UNCHANGED <<sent, packet, message, route>>

\* The exchange is over and another begins.
NextRequest ==
  /\ phase \in {"handling", "written", "unwritten", "error", "panic"}
  /\ phase' = "idle"
  /\ sent' = Nothing /\ packet' = Nothing /\ message' = Nothing /\ route' = Nothing
  /\ response' = Nothing /\ asked' = AskedNothing /\ seen' = Nothing

Next ==
  \/ \E m \in Requests, version \in Versions : Send(m, version)
  \/ newRequest
  \/ \E m \in Makers(message) : New(m.constructor, m.options)
  \/ \E code \in Codes : SetResultCode(code)
  \/ \E text \in Texts : SetDiagnosticMessage(text) \/ SetMatchedDN(text) \/ SetResponseName(text)
  \/ \E controls \in ControlLists : SetControls(controls)
  \/ \E a \in Attributes : AddAttribute(a)
  \/ Write \/ NextResponse \/ NextRequest

Spec == Init /\ [][Next]_vars
-----------------------------------------------------------------------------
Supported == {"unbind", "bind", "search", "extended", "modify", "add", "delete"}

\* A request that is all the server can read: its kind and its filter are known.
Readable(m) == m.kind \in Supported /\ (m.kind = "search" => Len(m.filter) > 1)

\* The controls that can be told from what is on the wire.  Excepted are a
\* MustChange that is FALSE, which decodeControl reads as TRUE, and the numbers
\* of a password policy that were too large for an int and have become negative.
Keeps(c) ==
  /\ c.kind = "VChuMustChange" => c.mustChange
  /\ c.kind = "Behera" => c.expire >= Unset /\ c.grace >= Unset /\ c.error >= Unset

SameControls(got, given) ==
  /\ Len(got) = Len(given)
  /\ \A k \in 1..Len(given) : Keeps(given[k]) => got[k] = given[k]
ControlsArrive(decoded, given) ==
  decoded.kind = "controls" /\ SameControls(decoded.controls, given)

\* The handler converts the values of a change with ConvertString.
SameChange(got, given) ==
  /\ got.operation = given.operation /\ got.type = given.type
  /\ Len(given.vals) = 1 =>
       ConvertString(got.vals) = [kind |-> "strings", texts |-> given.vals]

(***************************************************************************)
(* A handler gets the message the client sent: newMessage refuses no       *)
(* request it can read, every parameter is taken from the child the client *)
(* wrote it to, controls, attributes and changes come complete and in      *)
(* order, a value of any length is converted to what it was, and the       *)
(* request is routed by its own kind and name.  Excepted are               *)
(*   - the values of a change that has none or several, which are one      *)
(*     string for the handler (packet.go, line 217);                       *)
(*   - the value of an extended request, which is not read (packet.go,     *)
(*     extendedOperationName);                                             *)
(*   - the controls that Keeps excepts;                                    *)
(*   - a request of an unsupported kind, of which nothing is said here.    *)
(***************************************************************************)
RequestArrives ==
  /\ Readable(sent) => phase # "error"
  /\ phase \in {"handling", "responding", "written", "unwritten"} /\ sent.kind \in Supported =>
       /\ \A f \in DOMAIN sent \ {"controls", "changes", "value"} : message[f] = sent[f]
       /\ "controls" \in DOMAIN sent => SameControls(message.controls, sent.controls)
       /\ sent.kind = "modify" =>
            /\ Len(message.changes) = Len(sent.changes)
            /\ \A k \in 1..Len(sent.changes) : SameChange(message.changes[k], sent.changes[k])
       /\ route.op = sent.kind
       /\ sent.kind = "extended" => route.name = sent.name

(***************************************************************************)
(* The client reads what the handler asked for in the options and the      *)
(* setters of a response, whichever it used last, under the ID of its own  *)
(* request; attributes may come in another order (New...Response, the      *)
(* setters and the packet methods of response.go, encodeControls).         *)
(* Excepted are the controls that Keeps excepts, and the name of an        *)
(* extended response: packet leaves it out (response.go, line 126), so it  *)
(* may be missing but not be another one.                                  *)
(***************************************************************************)
ResponseArrives ==
  phase = "written" =>
    /\ seen.id = sent.id
    /\ \A tag \in asked.tag : seen.tag = tag
    /\ \A controls \in asked.controls : ControlsArrive(seen.controls, controls)
    /\ response.kind # "entry" =>
         /\ \A code \in asked.code : seen.code = code
         /\ \A diag \in asked.diag : seen.diag = diag
         /\ \A dn \in asked.matchedDN : seen.matchedDN = dn
         /\ \A name \in asked.name : seen.name \in {"", name}
    /\ response.kind = "entry" =>
         /\ \A dn \in asked.dn : seen.dn = dn
         /\ Len(seen.attributes) = Len(asked.attributes)
         /\ ToSet(seen.attributes) = ToSet(asked.attributes)

(***************************************************************************)
(* Decoding a request and making a response panic in two cases only, both  *)
(* of which do happen: a bind of another version than 3 (the error is made *)
(* with a type assertion, packet.go, line 106), and a modify response      *)
(* without a code (which is dereferenced, request.go, line 103).           *)
(***************************************************************************)
PanicsKnown ==
  phase = "panic" =>
    \/ sent.kind = "bind" /\ Child(Child(packet, 1), 0).value # 3
    \/ asked.made = "NewModifyResponse" /\ asked.code = {}
=============================================================================
