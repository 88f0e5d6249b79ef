------------------------------ MODULE Fixtures ------------------------------
(***************************************************************************)
(* What a test makes a directory with: the options of the testdirectory    *)
(* package, the entries NewUsers, NewGroup and NewMemberOf build from      *)
(* them, and the directory Start returns with the TLS configurations of    *)
(* both sides.  A DN is the tuple of its parts, a field of Defaults that   *)
(* is nil or empty has the value ZeroDefaults gives it.                    *)
(***************************************************************************)
EXTENDS Naturals, Sequences, SequencesExt

ZeroDefaults ==
  [UserAttr |-> "", GroupAttr |-> "", Users |-> {}, Groups |-> {}, TokenGroups |-> {},
   UserDN |-> "", GroupDN |-> "", AllowAnonymousBind |-> FALSE, UPNDomain |-> ""]

defaults ==
  [port |-> 0, host |-> "localhost", noTLS |-> FALSE, mTLS |-> FALSE,
   disablePanicRecovery |-> FALSE, membersOf |-> <<>>, tokenGroupSIDs |-> <<>>, first |-> FALSE,
   defaults |-> [ZeroDefaults EXCEPT !.UserAttr = "cn", !.GroupAttr = "cn",
                                     !.UserDN = "people", !.GroupDN = "groups"]]

\* Only the fields that are set override the defaults.
WithDefaultsAll(o, given) == [o EXCEPT !.defaults = given]
WithDefaults(o, given) ==
  [o EXCEPT !.defaults = [f \in DOMAIN ZeroDefaults |->
     IF given[f] = ZeroDefaults[f] THEN @[f] ELSE given[f]]]

\* A host is given with or without spaces around it.
TrimSpace(text) == text.name

\* What each option does to the options; nil does nothing.
apply(o, opt) ==
  CASE opt.kind = "nil" -> o
    [] opt.kind = "WithDefaults" -> WithDefaults(o, opt.value)
    [] opt.kind = "WithMTLS" -> [o EXCEPT !.mTLS = TRUE]
    [] opt.kind = "WithNoTLS" -> [o EXCEPT !.noTLS = TRUE]
    [] opt.kind = "WithPort" -> [o EXCEPT !.port = opt.value]
    [] opt.kind = "WithHost" -> [o EXCEPT !.host = TrimSpace(opt.value)]
    [] opt.kind = "withFirst" -> [o EXCEPT !.first = TRUE]
    [] opt.kind = "WithMembersOf" -> [o EXCEPT !.membersOf = opt.value]
    [] opt.kind = "WithTokenGroups" -> [o EXCEPT !.tokenGroupSIDs = opt.value]
    [] opt.kind = "WithDisablePanicRecovery" -> [o EXCEPT !.disablePanicRecovery = opt.value]

applyOpts(o, opt) == FoldLeft(apply, o, opt)
getOpts(opt) == applyOpts(defaults, opt)
-----------------------------------------------------------------------------
userDN(o, n) ==
  IF o.defaults.UPNDomain # "" THEN <<"userPrincipalName", n, o.defaults.UPNDomain, o.defaults.UserDN>>
  ELSE <<o.defaults.UserAttr, n, o.defaults.UserDN>>
memberDNNoUPN(o, n) == <<o.defaults.UserAttr, n, o.defaults.UserDN>>
memberDN(o, n) ==
  IF o.defaults.UPNDomain # "" THEN <<"userPrincipalName", n, o.defaults.UPNDomain, o.defaults.UserDN>>
  ELSE <<o.defaults.UserAttr, n, o.defaults.UserDN>>
groupDN(o, n) == <<o.defaults.GroupAttr, n, o.defaults.GroupDN>>

NewMemberOf(groupNames, opt) ==
  [k \in 1..Len(groupNames) |-> groupDN(getOpts(opt), groupNames[k])]

\* The attributes name, email and password are the same for every set of options.
NewUsers(userNames, opt) ==
  LET o == getOpts(opt)
  IN  [k \in 1..Len(userNames) |->
         [dn |-> userDN(o, userNames[k]), name |-> userNames[k],
          memberOf |-> o.membersOf, tokenGroups |-> o.tokenGroupSIDs]]

NewGroup(groupName, memberNames, opt) ==
  LET o == getOpts(opt)
  IN  [dn |-> groupDN(o, groupName),
       member |-> [k \in 1..Len(memberNames) |-> memberDN(o, memberNames[k])]]
-----------------------------------------------------------------------------
\* The certificate is made for the host, by name and, if it is one, by address.
IsIP(host) == host = "127.0.0.1"
GetTLSConfig(opt) ==
  LET o == getOpts(opt)
  IN  [server |-> [DNSNames |-> {o.host}, IPAddresses |-> {h \in {o.host} : IsIP(h)},
                   clientAuth |-> o.mTLS],
       client |-> [certificate |-> o.mTLS]]

FreePort == 1024

\* The directory, the bases of its search routes (the last route has none) and
\* how its server is run.  TokenGroups is not copied.
tlsConfigsDefault(opt) == GetTLSConfig(<<>>)
tlsConfigs(opt) == GetTLSConfig(opt)
Start(opt) ==
  LET o == getOpts(opt)
  IN  [users |-> o.defaults.Users, groups |-> o.defaults.Groups, tokenGroups |-> {},
       port |-> IF o.port = 0 THEN FreePort ELSE o.port, host |-> o.host,
       userDN |-> o.defaults.UserDN, groupDN |-> o.defaults.GroupDN,
       allowAnonymousBind |-> o.defaults.AllowAnonymousBind,
       disablePanicRecovery |-> o.disablePanicRecovery,
       searchRoutes |-> <<o.defaults.UserDN, o.defaults.GroupDN, "">>,
       useTLS |-> ~o.noTLS, listenTLS |-> ~o.noTLS,
       client |-> tlsConfigs(opt).client, server |-> tlsConfigs(opt).server]

\* Conn dials the directory's own host; a TLS client checks the certificate
\* against it, by address if it is one.
Verified(server, host) == IF IsIP(host) THEN host \in server.IPAddresses ELSE host \in server.DNSNames
Conn(d) ==
  /\ d.useTLS = d.listenTLS
  /\ d.useTLS => Verified(d.server, d.host) /\ (d.server.clientAuth => d.client.certificate)
=============================================================================
