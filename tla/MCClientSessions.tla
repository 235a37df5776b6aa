--------------------------- MODULE MCClientSessions ---------------------------
(***************************************************************************)
(* Contexts, options and environments for the runs of ClientSessions.      *)
(***************************************************************************)
EXTENDS ClientSessions, TLC

CONSTANTS c1, c2, k1, k2

\* Clients differ in nothing but their name.
Clients == Permutations(Client)

Plan == <<"plan">>
Entity1(key) == [kind |-> "", key |-> key, attributes |-> Plan :> String("pro")]
Alice == [kind |-> "user", key |-> "alice", attributes |-> Plan :> String("pro"),
          user |-> {}, organization |-> {}]
Bob == [Alice EXCEPT !.key = "bob", !.attributes = Plan :> Map(<<"seats">> :> IntVal(2))]
Multi == [kind |-> "multi", key |-> "", attributes |-> Empty,
          user |-> {Entity1("alice")}, organization |-> {Entity1("acme")}]

MCContext == {Bob, Multi}

WithContext(ctx) == [opt |-> "WithContext", context |-> ctx]
WithCache(b) == [opt |-> "WithCache", enabled |-> b]
WithMode(mode) == [opt |-> "WithTransportMode", mode |-> mode]
WithAdapter == [opt |-> "WithCacheAdapter", adapter |-> "shared"]
WithDeferInit == [opt |-> "WithDeferInit"]
WithLocalEvaluation == [opt |-> "WithLocalEvaluation"]
WithEndpoints == [opt |-> "WithEndpoints", rest |-> <<"http", "proxy">>, ws |-> <<"ws", "proxy">>]

Unset == [rest |-> NoURL, ws |-> NoURL, env |-> ""]
Staging == [Unset EXCEPT !.env = "staging"]
OnlyREST == [Unset EXCEPT !.rest = <<"https", "edge", "v1">>]
Short == [Unset EXCEPT !.rest = <<"short">>]

StartAs(key, environment, options) == [key |-> key, environment |-> environment, options |-> options]
MCStart == {
  StartAs(k1, Unset, <<WithCache(FALSE), WithAdapter, WithMode("websocket")>>),
  StartAs(k1, OnlyREST, <<WithAdapter, WithCache(TRUE), WithContext(Multi), WithContext(Alice)>>),
  StartAs(k2, Staging, <<WithAdapter, WithDeferInit, WithMode("long-polling")>>),
  StartAs(k2, Unset, <<WithAdapter, WithCache(FALSE), WithEndpoints, WithContext(Multi)>>),
  StartAs(k2, Unset, <<WithCache(TRUE), WithLocalEvaluation>>),
  StartAs(k2, Short, <<>>),
  StartAs("", Unset, <<>>)}
=============================================================================
