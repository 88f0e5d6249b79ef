------------------------------ MODULE Controls ------------------------------
(***************************************************************************)
(* The controls of requests and responses: their constructors, Encode,     *)
(* decodeControl and addControlDescriptions.  A control type stands for    *)
(* its OID.                                                                *)
(***************************************************************************)
EXTENDS Ber, SequencesExt, FiniteSets

CONSTANTS
  IntBits,   \* the width of int and uint
  SizeBits,  \* the width of a paging size, less than that of int64
  Int64      \* the numbers of an expire string

ASSUME ControlsAssumption ==
  IntBits \in Nat \ {0} /\ SizeBits \in Nat /\ Int64 \subseteq Int

Microsoft == {"MicrosoftNotification", "MicrosoftShowDeleted", "MicrosoftServerLinkTTL"}
Unset == -1

\* Conversions between integer types.
int(u) == IF u < 2^(IntBits - 1) THEN u ELSE u - 2^IntBits
int8(i) == LET r == i % 256 IN IF r < 128 THEN r ELSE r - 256
uint32(i) == i % 2^SizeBits

\* strconv.FormatInt and ParseInt.
FormatInt(n) == ToString(n)
ParseInt(text) == {n \in Int64 : FormatInt(n) = text}

ControlString(type, criticality, value) ==
  [kind |-> "String", type |-> type, criticality |-> criticality, value |-> value]
ControlManageDsaIT(criticality) == [kind |-> "ManageDsaIT", criticality |-> criticality]
ControlMicrosoft(kind) == [kind |-> kind]
ControlPaging(size, cookie) == [kind |-> "Paging", size |-> size, cookie |-> cookie]
ControlBehera(expire, grace, error) ==
  [kind |-> "Behera", expire |-> expire, grace |-> grace, error |-> error]
ControlMustChange(must) == [kind |-> "VChuMustChange", mustChange |-> must]
ControlWarning(expire) == [kind |-> "VChuWarning", expire |-> expire]

\* The options of the constructor are unsigned; an option not given is Unset.
option(given) == IF given = {} THEN Unset ELSE int(CHOOSE u \in given : TRUE)

BothNoCheck(a, b) == FALSE
Both(a, b) == a # Unset /\ b # Unset

NewControlBeheraPasswordPolicy(withGrace, withExpire, withErrorCode) ==
  LET grace == option(withGrace)
      expire == option(withExpire)
      code == option(withErrorCode)
  IN  IF Both(grace, expire) \/ Both(grace, code) \/ Both(expire, code) \/ code > 8
        THEN Failed
        ELSE ControlBehera(expire, grace, int8(code))
-----------------------------------------------------------------------------
\* A control packet: the type, and if they are there criticality and value.
Control(type, criticality, value) ==
  NewSequence(<<NewString(type)>>
    \o (IF criticality THEN <<NewBoolean(TRUE)>> ELSE <<>>) \o value)

ContextInteger(tag, n) == Primitive("context", tag, n)
Warning(tag, n) == Constructed("context", 0, <<ContextInteger(tag, n)>>)

graceTag == 1
expireTag == 0

EncodeString(c) ==
  Control(c.type, c.criticality, IF c.value = "" THEN <<>> ELSE <<NewString(c.value)>>)
EncodeManageDsaIT(c) == Control(c.kind, c.criticality, <<>>)
EncodeMicrosoft(c) == Control(c.kind, FALSE, <<>>)
EncodeMustChange(c) == Control(c.kind, FALSE, <<>>)
EncodeWarning(c) == Control(c.kind, FALSE, <<NewString(FormatInt(c.expire))>>)
EncodePaging(c) ==
  Control(c.kind, FALSE, <<Wrap(NewSequence(<<NewInteger(c.size), NewString(c.cookie)>>))>>)
EncodeBehera(c) ==
  Control(c.kind, FALSE,
    CASE c.grace >= 0 -> <<Wrap(NewSequence(<<Warning(graceTag, c.grace)>>))>>
      [] c.grace < 0 /\ c.expire >= 0 -> <<Wrap(NewSequence(<<Warning(expireTag, c.expire)>>))>>
      [] c.grace < 0 /\ c.expire < 0 /\ c.error >= 0 ->
           <<Wrap(NewSequence(<<ContextInteger(1, c.error)>>))>>
      [] OTHER -> <<>>)

Encode(c) ==
  CASE c.kind = "String" -> EncodeString(c)
    [] c.kind = "ManageDsaIT" -> EncodeManageDsaIT(c)
    [] c.kind \in Microsoft -> EncodeMicrosoft(c)
    [] c.kind = "VChuMustChange" -> EncodeMustChange(c)
    [] c.kind = "VChuWarning" -> EncodeWarning(c)
    [] c.kind = "Paging" -> EncodePaging(c)
    [] c.kind = "Behera" -> EncodeBehera(c)

encodeControls(controls) ==
  Constructed("context", 0, [k \in 1..Len(controls) |-> Encode(controls[k])])
-----------------------------------------------------------------------------
\* A value that was read as a string is decoded once: what its contents are
\* becomes its child.
opened(value) ==
  IF value.inner = <<>> THEN value
  ELSE [value EXCEPT !.inner = <<>>, !.children = value.inner]

\* The value of a paging control is a sequence of the size and the cookie.
decodePaging(value) ==
  IF value = <<>> THEN ControlPaging(0, "")
  ELSE IF opened(value[1]).children = <<>> THEN Failed
  ELSE LET seq == opened(value[1]).children[1]
       IN  IF Len(seq.children) < 2 \/ ~IsInt(seq.children[1]) THEN Panicked
           ELSE ControlPaging(uint32(seq.children[1].value), seq.children[2].value)

\* Warnings and errors in the order in which they come.
decodeBeheraChild(c, child) ==
  IF ~Returned(c) THEN c
  ELSE CASE child.tag = 0 ->
              IF child.children = <<>> THEN Panicked
              ELSE LET warning == child.children[1]
                   IN  CASE warning.tag = 0 -> [c EXCEPT !.expire = warning.value]
                         [] warning.tag = 1 -> [c EXCEPT !.grace = warning.value]
                         [] OTHER -> c
         [] child.tag = 1 -> IF child.value \in 0..8 THEN [c EXCEPT !.error = child.value] ELSE Failed
         [] OTHER -> c

decodeBehera(value) ==
  LET new == ControlBehera(Unset, Unset, Unset)
  IN  IF value = <<>> THEN new
      ELSE IF opened(value[1]).children = <<>> THEN Failed
      ELSE FoldLeft(decodeBeheraChild, new, opened(value[1]).children[1].children)

decodeWarning(value) ==
  IF value = <<>> THEN ControlWarning(-1)
  ELSE LET expire == ParseInt(value[1].value)
       IN  IF expire = {} THEN Failed ELSE ControlWarning(CHOOSE n \in expire : TRUE)

\* With two children the second is the criticality or the value.
IsCriticalityAlways(p) == TRUE
IsCriticality(p) == IsBool(p)

decodeControl(p) ==
  LET n == Len(p.children)
      criticality == IF n >= 2 /\ IsCriticality(p.children[2]) THEN p.children[2].value ELSE FALSE
      value == CASE n = 1 -> <<>>
                 [] n = 2 -> IF IsCriticality(p.children[2]) THEN <<>> ELSE <<p.children[2]>>
                 [] n = 3 -> <<p.children[3]>>
      type == p.children[1].value
  IN  IF n \notin 1..3 THEN Failed
      ELSE IF \/ ~IsString(p.children[1])
              \/ n = 3 /\ ~IsBool(p.children[2])
              \/ n = 2 /\ IsCriticality(p.children[2]) /\ ~IsBool(p.children[2]) THEN Panicked
      ELSE CASE type = "ManageDsaIT" -> ControlManageDsaIT(criticality)
             [] type = "Paging" -> decodePaging(value)
             [] type = "Behera" -> decodeBehera(value)
             [] type = "VChuMustChange" -> ControlMustChange(TRUE)
             [] type = "VChuWarning" -> decodeWarning(value)
             [] type \in Microsoft -> ControlMicrosoft(type)
             [] OTHER -> IF value = <<>> THEN ControlString(type, criticality, "")
                         ELSE IF ~IsString(value[1]) THEN Panicked
                         ELSE ControlString(type, criticality, value[1].value)

\* Describing a control opens its value in the packet itself, with the errors
\* decodeControl has for it; the size and the cookie only have to be there.
Described(p) == [kind |-> "described", packet |-> p]
describedValueTruncated(type, value) == Described([value EXCEPT !.inner = <<>>])
describedValue(type, value) ==
  LET v == opened(value)
      behera == decodeBehera(<<value>>)
  IN  CASE type \notin {"Paging", "Behera"} -> Described(value)
        [] type \in {"Paging", "Behera"} /\ v.children = <<>> ->
             IF value.type = "primitive" THEN Failed ELSE Panicked
        [] type = "Paging" /\ v.children # <<>> ->
             IF Len(v.children[1].children) < 2 THEN Panicked ELSE Described(v)
        [] type = "Behera" /\ v.children # <<>> -> IF Returned(behera) THEN Described(v) ELSE behera

describedControl(p) ==
  LET n == Len(p.children)
      d == describedValue(p.children[1].value, p.children[n])
  IN  IF n \notin 1..3 THEN Failed
      ELSE IF ~IsString(p.children[1]) THEN Panicked
      ELSE IF n = 1 \/ (n = 2 /\ IsBool(p.children[2])) THEN Described(p)
      ELSE IF Returned(d) THEN Described([p EXCEPT !.children[n] = d.packet]) ELSE d

addControlDescriptions(p) ==
  LET described == [k \in 1..Len(p.children) |-> describedControl(p.children[k])]
  IN  IF AllReturned(described)
        THEN Described([p EXCEPT !.children = [k \in DOMAIN described |-> described[k].packet]])
        ELSE FirstBad(described)

\* The loop over the control packet every decoder of a request ends with.
decodeControls(p) ==
  LET decoded == [k \in 1..Len(p.children) |-> decodeControl(p.children[k])]
  IN  IF AllReturned(decoded) THEN [kind |-> "controls", controls |-> decoded]
      ELSE FirstBad(decoded)
=============================================================================
