------------------------------- MODULE MCProxy -------------------------------
(* Two configurations that differ in everything but the port, so that a       *)
(* Reload from one to the other is the commit without a new listener, and     *)
(* three requests: one for each local key, and one for /healthz.              *)
EXTENDS Proxy, TLC

CONSTANTS s1, s2, local, other, first, alpha, gamma, east, p1

MCLocalKey == s1 :> local @@ s2 :> other
MCLevelOf == s1 :> "info" @@ s2 :> "error"
MCPortOf == s1 :> p1 @@ s2 :> p1

Way(name) == [model |-> name, upstream |-> east, mode |-> "replace", key |-> first,
              skipTLS |-> FALSE]
MCRoutes == s1 :> (alpha :> Way(alpha)) @@ s2 :> (alpha :> Way(gamma))

Asking == [path |-> "other", get |-> FALSE, bearer |-> local, apiKey |-> "absent",
           upgrade |-> FALSE, json |-> TRUE, wire |-> "ok", encoding |-> "identity",
           gzip |-> "ok", doc |-> alpha, integrity |-> FALSE]
MCInbound == {Asking, [Asking EXCEPT !.bearer = other],
              [Asking EXCEPT !.path = "health", !.get = TRUE]}
=============================================================================
