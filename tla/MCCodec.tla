------------------------------ MODULE MCCodec -------------------------------
(***************************************************************************)
(* Exchanges with a few messages of every kind and every kind of control.  *)
(***************************************************************************)
EXTENDS Codec

MaxSize == 2^SizeBits - 1

\* Options of NewControlBeheraPasswordPolicy: each alone, pairs, too large, and
\* large enough to wrap around.
MaxUint == 2^IntBits - 1
BeheraOptions ==
  {<<g, e, c>> : g \in {{}, {0}, {3}, {MaxUint - 1}}, e \in {{}, {0}, {2}},
                 c \in {{}, {0}, {8}, {9}, {MaxUint - 1}, {MaxUint - 250}}}
Behera(options) ==
  {c \in {NewControlBeheraPasswordPolicy(o[1], o[2], o[3]) : o \in options} : Returned(c)}

MCControls ==
  {ControlString("generic", b, v) : b \in BOOLEAN, v \in {"", "value"}}
    \cup {ControlManageDsaIT(b) : b \in BOOLEAN}
    \cup {ControlMicrosoft(k) : k \in Microsoft}
    \cup {ControlPaging(n, cookie) : n \in {0, 1, MaxSize}, cookie \in {"", "cookie"}}
    \cup Behera(BeheraOptions)
    \cup {ControlMustChange(b) : b \in BOOLEAN}
    \cup {ControlWarning(n) : n \in Int64}
Lists == {<<>>} \cup {<<c>> : c \in MCControls}
           \cup {<<c, ControlManageDsaIT(TRUE)>> : c \in MCControls}

Search(base, scope, deref, size, time, types, filter, attributes, controls) ==
  [kind |-> "search", id |-> 1, baseDN |-> base, scope |-> scope, derefAliases |-> deref,
   sizeLimit |-> size, timeLimit |-> time, typesOnly |-> types, filter |-> filter,
   attributes |-> attributes, controls |-> controls]
Attr(type, vals) == [type |-> type, vals |-> vals]
Chg(op, type, vals) == [operation |-> op, type |-> type, vals |-> vals]

\* Texts of every length around the limits of the length field.
Text(n) == [k \in 1..n |-> (k + 3) % 256]
Lengths == 0..260 \cup {511, 512, 65535, 65536}

Equal == <<"cn", "=", "alice">>
Present == <<"cn", "=*">>
Unknown == <<"cn">>

\* The requests that are answered, in every way; the others only arrive.
Answered == {Search("dc", 2, 0, 0, 0, FALSE, Equal, <<>>, <<>>), Bind(2, "alice", "fido", <<>>)}
MCRequests ==
  {Unbind(id) : id \in 1..2}
    \cup {Bind(2, user, pw, l) : user \in {"", "alice"}, pw \in {"", "fido"}, l \in Lists}
    \cup {Search("dc", s, d, 5, 6, t, f, a, l) :
            s \in 0..2, d \in {0, 3}, t \in BOOLEAN, f \in {Equal, Present, Unknown}, a \in {<<>>, <<"cn", "mail">>},
            l \in {<<>>, <<ControlPaging(1, "")>>}}
    \cup {Search("", 2, 0, 0, 1, FALSE, Present, <<>>, l) : l \in Lists}
    \cup {Extended(1, name, value) : name \in {"StartTLS", "PasswordModify"}, value \in {"", "value"}}
    \cup {Modify(1, "a", <<Chg(op, "mail", v)>> \o more, l) :
            op \in 0..2, v \in {<<>>, <<<<>>>>, <<<<65, 66>>>>, <<<<65>>, <<66>>>>}, more \in {<<>>, <<Chg(1, "cn", <<<<67>>>>)>>},
            l \in {<<>>, <<ControlManageDsaIT(TRUE)>>}}
    \cup {Modify(1, "a", <<>>, l) : l \in Lists}
    \cup {Modify(1, "a", <<Chg(2, "mail", <<Text(n)>>)>>, <<>>) : n \in Lengths}
    \cup {Add(1, "a", a, l) :
            a \in {<<>>, <<Attr("mail", <<>>)>>, <<Attr("mail", <<"m", "n">>), Attr("cn", <<"c">>)>>},
            l \in Lists}
    \cup {Delete(1, dn, l) : dn \in {"", "a"}, l \in Lists}
    \cup Answered
    \cup {[kind |-> "compare", id |-> 1, dn |-> "a"]}

Options(code, tag, diag, matchedDN, dn, attributes) ==
  [code |-> code, tag |-> tag, diag |-> diag, matchedDN |-> matchedDN, dn |-> dn, attributes |-> attributes]
Only(code) == Options(code, {}, {}, {}, {}, {})
AllMakers ==
  {[constructor |-> c, options |-> Only(code)] :
     c \in {"NewExtendedResponse", "NewBindResponse", "NewSearchDoneResponse", "NewResponse"},
     code \in {{}, {0}, {49}}}
    \cup {[constructor |-> "NewResponse", options |-> Options({0}, {tag}, {"text"}, dn, {}, {})] :
            tag \in {"AddResponse", "DelResponse"}, dn \in {{}, {"text"}}}
    \cup {[constructor |-> "NewModifyResponse", options |-> Options(code, {}, diag, {}, {}, {})] :
            code \in {{}, {0}, {16}}, diag \in {{}, {"text"}}}
    \cup {[constructor |-> "NewSearchResponseEntry", options |-> Options({}, {}, {}, {}, dn, a)] :
            dn \in {{""}, {"a"}}, a \in {{}, {Attr("cn", <<"c">>), Attr("mail", <<"m", "n">>)}}}

MCMakers(m) == IF m \in Answered THEN AllMakers ELSE {}

MCAttributes == {Attr("mail", <<>>), Attr("sn", <<"s", "t">>)}
MCInt64 == {-1, 0, 5}
=============================================================================
