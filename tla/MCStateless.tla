---------------------------- MODULE MCStateless -----------------------------
(***************************************************************************)
(* The code that keeps no state: exchanges of every kind of message and    *)
(* control, and between them calls of the functions tests and handlers     *)
(* use directly, one at a time.                                            *)
(***************************************************************************)
EXTENDS MCCodec

CONSTANTS
  Authorities, \* identifier authorities, 16 bits
  Subs,        \* sub-authorities
  MaxOptions   \* the options of a directory

F == INSTANCE Fixtures

\* A call takes the place of an exchange: sent is the call, message its result.
Call(c, r) ==
  /\ phase' = "called"
  /\ sent' = c
  /\ message' = r
  /\ UNCHANGED <<packet, route, response, asked, seen>>
called(kind) == phase = "called" /\ sent.kind = kind

\* A sub-authority is written in four bytes, little endian.
LittleEndian(n) == <<n % 256, (n \div 256) % 256, (n \div 65536) % 256, n \div 16777216>>
SIDWith(revision, authority, subs) ==
  [SIDBytes(revision, authority) EXCEPT ![2] = Len(subs)]
    \o FlattenSeq([k \in 1..Len(subs) |-> LittleEndian(subs[k])])
callSID ==
  \E r \in 0..2, a \in Authorities, subs \in UNION {[1..k -> Subs] : k \in 0..2} :
    Call([kind |-> "sid", numbers |-> <<r, a>> \o subs], SIDBytesToString(SIDWith(r, a, subs)))

\* A packet of controls is described, and then decoded.
callDescribe ==
  \E l \in Lists :
    LET d == addControlDescriptions(encodeControls(l))
    IN  Call([kind |-> "describe", controls |-> l], IF Returned(d) THEN decodeControls(d.packet) ELSE d)

Given(f, v) == [kind |-> "WithDefaults", value |-> [F!ZeroDefaults EXCEPT ![f] = v]]
Opt(kind, v) == [kind |-> kind, value |-> v]
Options1 ==
  {[kind |-> k] : k \in {"nil", "WithMTLS", "WithNoTLS", "withFirst"}}
    \cup {Opt("WithDefaults", F!ZeroDefaults), Given("UPNDomain", "upn"), Given("UserAttr", "uid"),
          Given("UserDN", "staff"), Given("GroupDN", "staff"), Given("GroupAttr", "ou"),
          Given("Users", {<<"alice">>}), Given("Users", {<<>>}), Given("TokenGroups", {"S-1-1"}),
          Given("Groups", {<<"admin">>}), Given("AllowAnonymousBind", TRUE)}
    \cup {Opt("WithPort", n) : n \in {0, 389}}
    \cup {Opt("WithHost", [name |-> h, padded |-> b]) : h \in {"ldap.test", "127.0.0.1"}, b \in BOOLEAN}
    \cup {Opt("WithMembersOf", s) : s \in {<<>>, <<"admin">>}}
    \cup {Opt("WithTokenGroups", <<"S-1-1">>)}
    \cup {Opt("WithDisablePanicRecovery", b) : b \in BOOLEAN}

callFixture ==
  \E opt \in UNION {[1..k -> Options1] : k \in 0..MaxOptions} :
    Call([kind |-> "fixture", opt |-> opt],
         [kind |-> "fixture", options |-> F!getOpts(opt),
          users |-> F!NewUsers(<<"alice", "bob">>, opt),
          group |-> F!NewGroup("admin", <<"alice", "bob">>, opt),
          memberOf |-> F!NewMemberOf(<<"admin">>, opt),
          directory |-> F!Start(opt), connected |-> F!Conn(F!Start(opt))])

Return ==
  /\ phase = "called"
  /\ phase' = "idle"
  /\ sent' = Nothing /\ message' = Nothing
  /\ UNCHANGED <<packet, route, response, asked, seen>>

MCNext == Next \/ (phase = "idle" /\ (callSID \/ callDescribe \/ callFixture)) \/ Return
MCSpec == Init /\ [][MCNext]_vars
-----------------------------------------------------------------------------
(* SIDBytesToString: the text has the revision, the authority SIDBytes was *)
(* given and every sub-authority, in their order.                          *)
SIDInverse ==
  called("sid") => message = [kind |-> "sid", numbers |-> sent.numbers]

(* addControlDescriptions changes the packet it describes: a packet of     *)
(* controls Encode made is described without an error, and is still        *)
(* decoded to the same controls afterwards, those excepted that Keeps      *)
(* excepts.                                                                *)
DescribedDecodes == called("describe") => ControlsArrive(message, sent.controls)

\* The value of the last of the options in ks, by their position.
LastOf(ks, default) == IF ks = {} THEN default ELSE sent.opt[CHOOSE k \in ks : \A j \in ks : j <= k].value
Of(kind) == {k \in 1..Len(sent.opt) : sent.opt[k].kind = kind}
Sets(f) == {k \in Of("WithDefaults") : sent.opt[k].value[f] # F!ZeroDefaults[f]}

(* applyOpts and WithDefaults: a setting has the value the last option     *)
(* that sets it gave it, or its default, whatever else is given in         *)
(* between; a nil option and an unset field of Defaults set nothing.       *)
LastOptionWins ==
  called("fixture") =>
    LET o == message.options
    IN  /\ \A f \in DOMAIN F!ZeroDefaults :
             o.defaults[f] = LastOf(Sets(f), F!defaults.defaults)[f]
        /\ o.port = LastOf(Of("WithPort"), 0)
        /\ o.membersOf = LastOf(Of("WithMembersOf"), <<>>)
        /\ o.tokenGroupSIDs = LastOf(Of("WithTokenGroups"), <<>>)
        /\ o.disablePanicRecovery = LastOf(Of("WithDisablePanicRecovery"), FALSE)
        /\ o.host = LastOf(Of("WithHost"), [name |-> F!defaults.host]).name
        /\ <<o.mTLS, o.noTLS, o.first>> =
             <<Of("WithMTLS") # {}, Of("WithNoTLS") # {}, Of("withFirst") # {}>>

(* NewUsers, NewGroup and NewMemberOf build DNs each on their own: given   *)
(* the same options, the members of a group are the DNs of the users of    *)
(* these names, and the memberOf of a group is its DN.                     *)
GroupNamesUsers ==
  called("fixture") =>
    /\ message.group.member = [k \in 1..Len(message.users) |-> message.users[k].dn]
    /\ message.memberOf = <<message.group.dn>>

(* "Conn returns an *ldap.Conn that's connected (using whatever tls.Config *)
(* is appropriate for the directory)": with any options the client of Conn *)
(* and the server of Start agree on TLS, on the name in the certificate    *)
(* and on client certificates.                                             *)
ConnFits == called("fixture") => message.connected
=============================================================================
