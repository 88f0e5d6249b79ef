-------------------------------- MODULE Ber ---------------------------------
(***************************************************************************)
(* Packets as the ber library hands them to gldap: what is read back from  *)
(* the bytes another side has written.  A primitive packet comes with its  *)
(* value, a constructed one with its children.  Controls carry their value *)
(* as an encoded packet inside an octet string; inner is what the contents *)
(* of such a string decode to, and nothing for any other.                  *)
(***************************************************************************)
EXTENDS Integers, Sequences

Primitive(class, tag, value) ==
  [class |-> class, type |-> "primitive", tag |-> tag, value |-> value,
   inner |-> <<>>, children |-> <<>>]

Constructed(class, tag, children) ==
  [class |-> class, type |-> "constructed", tag |-> tag, value |-> <<>>,
   inner |-> <<>>, children |-> children]

NewString(text) == Primitive("universal", "octetString", text)
NewInteger(n) == Primitive("universal", "integer", n)
NewEnumerated(n) == Primitive("universal", "enumerated", n)
NewBoolean(b) == Primitive("universal", "boolean", b)
NewSequence(children) == Constructed("universal", "sequence", children)
NewSet(children) == Constructed("universal", "set", children)
Wrap(packet) == [NewString(<<>>) EXCEPT !.inner = <<packet>>]

\* The Go type of the value of a packet that was read.
IsUniversal(p, tags) == p.class = "universal" /\ p.type = "primitive" /\ p.tag \in tags
IsString(p) == IsUniversal(p, {"octetString"})
IsInt(p) == IsUniversal(p, {"integer", "enumerated"})
IsBool(p) == IsUniversal(p, {"boolean"})

\* assert with its options.  As in the code children are counted from 0.
assert(p, class, type, tags) ==
  p.class = class /\ p.type = type /\ p.tag \in tags

assertChild(p, idx, class, type, tags) ==
  /\ Len(p.children) >= idx + 1
  /\ assert(p.children[idx + 1], class, type, tags)

Child(p, idx) == p.children[idx + 1]

\* What a function of gldap returns when it does not return its result.
Failed == [kind |-> "error"]
Panicked == [kind |-> "panic"]
Returned(r) == r.kind \notin {"error", "panic"}

\* The result of a loop that returns at the first element it cannot decode.
FirstBad(results) ==
  results[CHOOSE k \in 1..Len(results) :
            ~Returned(results[k]) /\ \A j \in 1..(k - 1) : Returned(results[j])]
AllReturned(results) == \A k \in 1..Len(results) : Returned(results[k])
=============================================================================
