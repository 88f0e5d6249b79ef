------------------------------ MODULE Messages ------------------------------
(***************************************************************************)
(* Requests on the wire: the packets clients write, and newMessage with    *)
(* the decoders it calls.  As in the code children are counted from 0.     *)
(* The values of a modify request are sequences of bytes, since handlers   *)
(* have to convert them; any other text is a plain value, and the text of  *)
(* a filter the sequence of its parts.                                     *)
(***************************************************************************)
EXTENDS Convert, Controls

Unbind(id) == [kind |-> "unbind", id |-> id]
Bind(id, userName, password, controls) ==
  [kind |-> "bind", id |-> id, userName |-> userName, password |-> password, controls |-> controls]
Extended(id, name, value) == [kind |-> "extended", id |-> id, name |-> name, value |-> value]
Modify(id, dn, changes, controls) ==
  [kind |-> "modify", id |-> id, dn |-> dn, changes |-> changes, controls |-> controls]
Add(id, dn, attributes, controls) ==
  [kind |-> "add", id |-> id, dn |-> dn, attributes |-> attributes, controls |-> controls]
Delete(id, dn, controls) == [kind |-> "delete", id |-> id, dn |-> dn, controls |-> controls]
-----------------------------------------------------------------------------
\* Encoders.
Application(tag, children) == Constructed("application", tag, children)

Envelope(id, request, controls) ==
  NewSequence(<<NewInteger(id), request>>
    \o (IF controls = <<>> THEN <<>> ELSE <<encodeControls(controls)>>))

Strings(texts) == [k \in 1..Len(texts) |-> NewString(texts[k])]
encodeAttribute(a) == NewSequence(<<NewString(a.type), NewSet(Strings(a.vals))>>)
encodeChange(c) == NewSequence(<<NewEnumerated(c.operation), encodeAttribute(c)>>)

\* Filters between their text and their packet: (attr=value), (attr=*), and one
\* of a choice that DecompileFilter does not know.
CompileFilter(filter) ==
  CASE Len(filter) = 3 ->
         Constructed("context", "equalityMatch", <<NewString(filter[1]), NewString(filter[3])>>)
    [] Len(filter) = 2 -> Primitive("context", "present", filter[1])
    [] Len(filter) = 1 -> Primitive("context", "unknown", filter[1])

encodeSearch(m) ==
  Application("SearchRequest",
    <<NewString(m.baseDN), NewEnumerated(m.scope), NewEnumerated(m.derefAliases),
      NewInteger(m.sizeLimit), NewInteger(m.timeLimit), NewBoolean(m.typesOnly),
      CompileFilter(m.filter), NewSequence(Strings(m.attributes))>>)
encodeBind(m, version) ==
  Application("BindRequest",
    <<NewInteger(version), NewString(m.userName), Primitive("context", 0, m.password)>>)
encodeExtended(m) ==
  Application("ExtendedRequest", <<Primitive("context", 0, m.name)>>
    \o (IF m.value = "" THEN <<>> ELSE <<Primitive("context", 1, m.value)>>))
encodeModify(m) ==
  Application("ModifyRequest",
    <<NewString(m.dn), NewSequence([k \in 1..Len(m.changes) |-> encodeChange(m.changes[k])])>>)
encodeAdd(m) ==
  Application("AddRequest",
    <<NewString(m.dn), NewSequence([k \in 1..Len(m.attributes) |-> encodeAttribute(m.attributes[k])])>>)

\* The tests write these two as constructed packets without children, the DN
\* straight into the data; clients write them as primitives.
encodeUnbind == Application("UnbindRequest", <<>>)
encodeDelete(m) == [Application("DelRequest", <<>>) EXCEPT !.value = m.dn]
EitherType(p) == {p, [p EXCEPT !.type = "primitive"]}

\* The packets a message may come in.
encodeRequest(m, version) ==
  CASE m.kind = "unbind" -> {Envelope(m.id, p, <<>>) : p \in EitherType(encodeUnbind)}
    [] m.kind = "bind" -> {Envelope(m.id, encodeBind(m, version), m.controls)}
    [] m.kind = "search" -> {Envelope(m.id, encodeSearch(m), m.controls)}
    [] m.kind = "extended" -> {Envelope(m.id, encodeExtended(m), <<>>)}
    [] m.kind = "modify" -> {Envelope(m.id, encodeModify(m), m.controls)}
    [] m.kind = "add" -> {Envelope(m.id, encodeAdd(m), m.controls)}
    [] m.kind = "delete" -> {Envelope(m.id, p, m.controls) : p \in EitherType(encodeDelete(m))}
    [] m.kind = "compare" -> {Envelope(m.id, Application("CompareRequest", <<NewString(m.dn)>>), <<>>)}
-----------------------------------------------------------------------------
\* Decoders.  Data is what the packet's bytes are without tag and length.
Data(p) ==
  IF p.children = <<>> THEN p.value
  ELSE FoldLeft(LAMBDA bytes, c : bytes \o Bytes(TagOctetString, c.value), <<>>, p.children)

IsOctetString(p, idx) == assertChild(p, idx, "universal", "primitive", {"octetString"})
IsSequence(p, idx) == assertChild(p, idx, "universal", "constructed", {"sequence"})

basicValidation(p) ==
  assert(p, "universal", "constructed", {"sequence"}) /\ Len(p.children) >= 2

requestMessageID(p) ==
  IF assert(Child(p, 0), "universal", "primitive", {"integer"})
    THEN [kind |-> "id", id |-> Child(p, 0).value] ELSE Failed

assertApplicationRequest(p) ==
  /\ Len(p.children) >= 2
  /\ Child(p, 1).class = "application"
  /\ Child(p, 1).type = "primitive" => Child(p, 1).tag \in {"DelRequest", "UnbindRequest"}

\* The error about another version than 3 is formatted with the value of the
\* request packet, which is constructed and has none.
requestPacket(p) ==
  IF ~basicValidation(p) \/ ~assertApplicationRequest(p) THEN Failed
  ELSE LET request == Child(p, 1)
       IN  IF request.tag # "BindRequest" THEN [kind |-> "packet", packet |-> request]
           ELSE IF ~assertChild(request, 0, "universal", "primitive", {"integer"}) THEN Failed
           ELSE IF Child(request, 0).value # 3 THEN Panicked
           ELSE [kind |-> "packet", packet |-> request]

\* The message with the controls that come after the request.
withControls(p, message) ==
  IF Len(p.children) <= 2 THEN message
  ELSE IF ~(Child(p, 2).class = "context" /\ Child(p, 2).type = "constructed") THEN Failed
  ELSE LET d == decodeControls(Child(p, 2))
       IN  IF Returned(d) THEN [message EXCEPT !.controls = d.controls] ELSE d

\* What a loop over children returns that decodes one after the other.
Decoded(result) == [kind |-> "decoded", result |-> result]
DecodeAll(decoded) ==
  IF AllReturned(decoded) THEN Decoded([k \in DOMAIN decoded |-> decoded[k].result])
  ELSE FirstBad(decoded)
decodeString(p) ==
  IF assert(p, "universal", "primitive", {"octetString"}) THEN Decoded(Data(p)) ELSE Failed
decodeStrings(p) == DecodeAll([k \in 1..Len(p.children) |-> decodeString(p.children[k])])

decodeAttribute(p) ==
  IF \/ ~assert(p, "universal", "constructed", {"sequence"})
     \/ ~IsOctetString(p, 0)
     \/ ~assertChild(p, 1, "universal", "constructed", {"set"})
    THEN Failed
    ELSE LET vals == decodeStrings(Child(p, 1))
         IN  IF Returned(vals) THEN Decoded([type |-> Data(Child(p, 0)), vals |-> vals.result])
             ELSE vals

\* Vals has one string for each child after the type.
decodeChange(p) ==
  IF \/ ~assert(p, "universal", "constructed", {"sequence"})
     \/ ~assertChild(p, 0, "universal", "primitive", {"enumerated"})
     \/ ~IsSequence(p, 1) \/ ~IsOctetString(Child(p, 1), 0) \/ Len(Child(p, 1).children) < 2
    THEN Failed
    ELSE LET modification == Child(p, 1)
         IN  Decoded([operation |-> Child(p, 0).value, type |-> Data(Child(modification, 0)),
                      vals |-> [k \in 1..(Len(modification.children) - 1) |->
                                  Data(Child(modification, k))]])
-----------------------------------------------------------------------------
addParameters(p, r, id) ==
  IF ~IsOctetString(r, 0) \/ ~IsSequence(r, 1) THEN Failed
  ELSE LET attributes == DecodeAll([k \in 1..Len(Child(r, 1).children) |->
                                 decodeAttribute(Child(r, 1).children[k])])
       IN  IF Returned(attributes) THEN withControls(p, Add(id, Data(Child(r, 0)), attributes.result, <<>>))
           ELSE attributes

modifyParameters(p, r, id) ==
  IF ~IsOctetString(r, 0) \/ ~IsSequence(r, 1) THEN Failed
  ELSE LET changes == DecodeAll([k \in 1..Len(Child(r, 1).children) |->
                                 decodeChange(Child(r, 1).children[k])])
       IN  IF Returned(changes) THEN withControls(p, Modify(id, Data(Child(r, 0)), changes.result, <<>>))
           ELSE changes

deleteParameters(p, r, id) == withControls(p, Delete(id, Data(r), <<>>))

extendedOperationName(r, id) ==
  IF assertChild(r, 0, "context", "primitive", {0}) THEN Extended(id, Data(Child(r, 0)), "") ELSE Failed

\* With more than three children the rest of the packet is not looked at.
simpleBindParameters(p, r, id) ==
  IF ~IsOctetString(r, 1) THEN Failed
  ELSE IF Len(r.children) > 3 THEN Bind(id, Data(Child(r, 1)), "", <<>>)
  ELSE IF ~assertChild(r, 2, "context", "primitive", {0}) THEN Failed
  ELSE withControls(p, Bind(id, Data(Child(r, 1)), Data(Child(r, 2)), <<>>))

DecompileFilter(p) ==
  CASE p.tag = "equalityMatch" -> Decoded(<<Child(p, 0).value, "=", Child(p, 1).value>>)
    [] p.tag = "present" -> Decoded(<<p.value, "=*">>)
    [] OTHER -> Failed

childSizeLimitAfterTime == 4
childSizeLimit == 3
childTimeLimit == 4

searchParmeters(p, r, id) ==
  IF \/ ~IsOctetString(r, 0)
     \/ \E idx \in {1, 2} : ~assertChild(r, idx, "universal", "primitive", {"enumerated"})
     \/ \E idx \in {childSizeLimit, childTimeLimit} :
          ~assertChild(r, idx, "universal", "primitive", {"integer"})
     \/ ~assertChild(r, 5, "universal", "primitive", {"boolean"})
     \/ Len(r.children) < 7
    THEN Failed
    ELSE LET filter == DecompileFilter(Child(r, 6))
             search == [kind |-> "search", id |-> id, baseDN |-> Data(Child(r, 0)),
                        scope |-> Child(r, 1).value, derefAliases |-> Child(r, 2).value,
                        sizeLimit |-> Child(r, childSizeLimit).value,
                        timeLimit |-> Child(r, childTimeLimit).value,
                        typesOnly |-> Child(r, 5).value, filter |-> filter.result,
                        attributes |-> <<>>, controls |-> <<>>]
             names == decodeStrings(Child(r, 7))
         IN  IF ~Returned(filter) THEN filter
             ELSE IF Len(r.children) < 8 THEN search
             ELSE IF ~IsSequence(r, 7) THEN Failed
             ELSE IF ~Returned(names) THEN names
             ELSE withControls(p, [search EXCEPT !.attributes = names.result])

newMessage(p) ==
  LET request == requestPacket(p)
      r == request.packet
      id == requestMessageID(p)
  IN  IF ~Returned(request) THEN request
      ELSE IF r.tag \notin {"BindRequest", "SearchRequest", "ExtendedRequest", "ModifyRequest",
                            "AddRequest", "DelRequest", "UnbindRequest"} THEN Failed
      ELSE IF ~Returned(id) THEN id
      ELSE CASE r.tag = "UnbindRequest" -> Unbind(id.id)
             [] r.tag = "BindRequest" -> simpleBindParameters(p, r, id.id)
             [] r.tag = "SearchRequest" -> searchParmeters(p, r, id.id)
             [] r.tag = "ExtendedRequest" -> extendedOperationName(r, id.id)
             [] r.tag = "ModifyRequest" -> modifyParameters(p, r, id.id)
             [] r.tag = "AddRequest" -> addParameters(p, r, id.id)
             [] r.tag = "DelRequest" -> deleteParameters(p, r, id.id)
=============================================================================
