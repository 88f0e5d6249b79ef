---------------------------- MODULE MCDirectory -----------------------------
(***************************************************************************)
(* A directory with two users and one group.  The DN "a" of a user is part *)
(* of "ba", the DN of a member of the group that is not an entry; "people" *)
(* is part of every DN below the base of the users.                        *)
(***************************************************************************)
EXTENDS Directory, TLC

CONSTANTS alice, bob, admin

MCEntries == {alice, bob, admin}
MCdnOf == (alice :> "a") @@ (bob :> "b") @@ (admin :> "admin")
MCmemberOf == (alice :> <<>>) @@ (bob :> <<>>) @@ (admin :> <<"member=a", "member=ba">>)
MCContains(t, s) ==
  \/ t = s
  \/ s = "people" /\ t \in {"a", "b", "ba", "c"}
  \/ s = "a" /\ t \in {"ba", "member=a", "member=ba"}
  \/ s = "b" /\ t \in {"ba", "member=ba"}
  \/ s = "ba" /\ t = "member=ba"

MCDefaults == [Users |-> <<alice, bob>>, Groups |-> <<admin>>, TokenGroups |-> {"S-1-1"},
               AllowAnonymousBind |-> FALSE]

Pw == [n \in {"password"} |-> <<"pw">>]
Add(dn) == [kind |-> "add", dn |-> dn, attrs |-> Pw]
Delete(dn) == [kind |-> "delete", dn |-> dn]
Modify(dn, op, type) ==
  [kind |-> "modify", dn |-> dn, changes |-> <<[op |-> op, type |-> type, vals |-> <<"new">>]>>]
Bind(dn, pw) == [kind |-> "bind", dn |-> dn, password |-> pw]
SearchUsers(f) == [kind |-> "searchUsers", filter |-> f]
SearchGroups(f) == [kind |-> "searchGroups", filter |-> f]
SearchGeneric(base, f) == [kind |-> "searchGeneric", dn |-> base, filter |-> f, sid |-> FALSE]
SearchSID == [kind |-> "searchGeneric", dn |-> "sid", filter |-> {"tokens"}, sid |-> TRUE]

Writes == {Add("a"), Add("c"), Delete("a"), Delete("b"), Delete("admin"), Delete("people")}
Reads == {Bind("a", "pw"), Bind("a", ""), SearchUsers({"people"}), SearchUsers({"a", "c"}),
          SearchGroups({"a"}), SearchGroups({"admin"}), SearchGeneric("a", {}), SearchSID,
          SearchGeneric("c", {}), SearchGeneric("other", {"admin"})}
Modifies == {Modify("a", "add", "mail"), Modify("b", "delete", "password"),
             Modify("b", "replace", "password"), Modify("admin", "add", "mail"),
             Modify("people", "add", "password"), Modify("a", "add", "password")}
Sets == {[kind |-> "SetUsers", entries |-> <<bob>>], [kind |-> "SetUsers", entries |-> <<>>],
         [kind |-> "SetGroups", entries |-> <<>>],
         [kind |-> "SetTokenGroups", sids |-> {"S-1-1"}],
         [kind |-> "SetAllowAnonymousBind", enabled |-> TRUE],
         [kind |-> "SetControls", enabled |-> TRUE]}

Gets == {[kind |-> k] : k \in GetKinds}

AllOps == Writes \cup Reads \cup Modifies \cup Sets \cup Gets
=============================================================================
