--------------------------- MODULE MCCorrelation ---------------------------
(* A small instance of Correlation for TLC: two scenarios of two domains. *)
EXTENDS Correlation

CONSTANTS alice, bob, payroll, ghost  \* ghost is described by no file

MCIds == {alice, payroll, ghost}

Entity(type, kind, name, id) ==
  [type |-> type, kind |-> kind, name |-> {""} \cup name, id |-> {""} \cup id]
MCEntityOf ==
  (alice :> Entity("principal", "user", {"al"}, {"prn"}))
  @@ (bob :> Entity("principal", "service", {"bo"}, {"prn", "al"}))
  @@ (payroll :> Entity("resource", "app", {"pay"}, {"res"}))
MCNameOrder == (alice :> 1) @@ (bob :> 2) @@ (payroll :> 3)

Event(ts, action, actor, targets, outcome) ==
  [ts |-> ts, action |-> action, actor |-> actor, targets |-> targets, outcome |-> outcome]
MCEventOf ==
  [reset |-> Event(2, "credential.reset.mfa", bob, {alice}, "succeeded"),
   resetAll |-> Event(2, "credential.reset_all", alice, {alice, ghost}, "succeeded"),
   login |-> Event(4, "auth.login", alice, {payroll}, "failed"),
   pay |-> Event(5, "app.payment.create", alice, {payroll, ghost}, "succeeded")]

Rel(type, from, to, first, last) ==
  [type |-> type, from |-> from, to |-> to, first |-> first, last |-> last]
MCRelOf ==
  [owns |-> Rel("owns", alice, payroll, UNSET, UNSET),
   loop |-> Rel("owns", alice, alice, UNSET, 1),
   acts |-> Rel("acts_as", bob, alice, 1, 2),
   uses |-> Rel("uses", payroll, bob, 4, UNSET),
   sees |-> Rel("uses", ghost, payroll, UNSET, UNSET)]

File(entities, events, rels) == [entities |-> entities, events |-> events, rels |-> rels]
MCCatalog ==
  { [identity |-> File(<<alice, bob>>, <<"reset", "resetAll", "login">>, <<"acts", "loop">>),
     app |-> File(<<payroll, alice>>, <<"pay">>, <<"owns", "uses", "sees">>)],
    [identity |-> File(<<bob, payroll, alice>>, <<"login", "resetAll", "reset">>,
                       <<"loop", "uses", "owns", "acts", "sees">>),
     app |-> File(<<>>, <<>>, <<>>)] }

MCBegins ==
  ("credential.*" :> {"credential.*", "credential.reset_*", "credential.reset.mfa",
                      "credential.reset_all"})
  @@ ("credential.reset_*" :> {"credential.reset_*", "credential.reset_all"})
\* LIKE 'credential.reset_%': the underscore stands for any character.
MCLike == [MCBegins EXCEPT !["credential.reset_*"] = @ \cup {"credential.reset.mfa"}]

MCLimits == {-1, 0, 1, 9, UNSET}
MCWords == {"", "al", "a_"}
\* ILIKE '%a_%': the underscore stands for any character.
MCILike == ("" :> {""}) @@ ("al" :> {"al"}) @@ ("a_" :> {"a_", "al"})
MCTypes == {{}, {"principal"}}
MCKinds == {{}, {"user"}}
\* Two ranges in order, one that is too long, a reversed one, half a range.
GoodRanges == {<<1, 2>>, <<2, 5>>}
MCRanges == GoodRanges \cup {<<1, 6>>, <<4, 2>>, <<UNSET, 2>>}

EventRequest(ranges, actions, actors, targets, limits) ==
  [range : ranges, actions : actions, actors : actors, targets : targets, limit : limits]
MCEventRequests ==
  EventRequest(GoodRanges,
               {{}, {"credential.*"}, {"credential.reset_*", "app.payment.create"}},
               {{}, {alice}, {alice, bob}}, {{}, {payroll}}, {1, 9})
  \cup EventRequest(MCRanges, {{}}, {{}}, {{}}, {0, 2, UNSET})

NeighborRequest(starts, types, ranges, depths, limits) ==
  [start : starts, types : types, range : ranges, depth : depths, limit : limits]
MCNeighborRequests ==
  NeighborRequest({alice, payroll}, {{}, {"owns", "uses"}}, {NoRange, <<2, 3>>}, {1, 2}, {1, 2, 9})
  \cup NeighborRequest({alice, ghost, UNSET}, {{}}, {NoRange, <<UNSET, 2>>, <<4, 2>>}, {0, 3}, {0, 9})
=============================================================================
