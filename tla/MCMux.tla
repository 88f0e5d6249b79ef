------------------------------- MODULE MCMux --------------------------------
(***************************************************************************)
(* A Mux with routes and requests of every kind that a match method tells  *)
(* apart.  Names that differ only in case are equal for strings.EqualFold. *)
(***************************************************************************)
EXTENDS Mux, TLC

\* dn and DN are the same name in two cases, other is another name.
MCEqualFold(a, b) == a = b \/ {a, b} = {"dn", "DN"}

NoOpts == [fn |-> TRUE, kind |-> "route", op |-> "bind", ext |-> Unset,
           basedn |-> Unset, filter |-> Unset, scope |-> {}]
SearchCall(dn, f, s) ==
  [NoOpts EXCEPT !.op = "search", !.basedn = dn, !.filter = f, !.scope = s]

MCCalls ==
  { NoOpts,
    [NoOpts EXCEPT !.fn = FALSE],
    [NoOpts EXCEPT !.kind = "default"],
    [NoOpts EXCEPT !.kind = "unbind"],
    [NoOpts EXCEPT !.op = "extendedOperation", !.ext = "startTLS"],
    SearchCall(Unset, Unset, {}),
    SearchCall("DN", Unset, {WholeSubtree}),
    SearchCall(Unset, "dn", {BaseObject}) }

Search(dn, f, s) ==
  [type |-> "search", name |-> Unset, basedn |-> dn, filter |-> f, scope |-> s]

\* The callers are alike.
Symmetry == Permutations(Callers)

MCMessages ==
  { [type |-> "bind"], [type |-> "unbind"],
    [type |-> "extendedOperation", name |-> "startTLS"],
    [type |-> "extendedOperation", name |-> "whoAmI"],
    Search("dn", "other", WholeSubtree),
    Search("dn", "DN", SingleLevel) }
=============================================================================
