------------------------------ MODULE MCHandler ------------------------------
(***************************************************************************)
(* Three snapshots.  s1 and s3 share a local key and differ in their        *)
(* routes; s2 has another local key, with a blank inside.  The model alpha  *)
(* moves from one upstream, key and name to another; beta is an alias on an *)
(* upstream without a key whose certificate is not checked.  What the       *)
(* handler learns from a body is what JsonModel's scanner finds in Bodies.  *)
(***************************************************************************)
EXTENDS RequestBody, TLC, SequencesExt

CONSTANTS s1, s2, s3, local, spaced, first, second, alpha, beta, gamma, model,
          east, west

MCSnapshot == {s1, s2, s3}
MCKey == {local, spaced, first, second}
MCModel == {alpha, beta, gamma, model}
MCLocalKey == s1 :> local @@ s2 :> spaced @@ s3 :> local
MCLevelOf == s1 :> "info" @@ s2 :> "error" @@ s3 :> "debug"

Plain == [model |-> alpha, upstream |-> east, mode |-> "replace", key |-> first,
          skipTLS |-> FALSE]
Aliased == [model |-> gamma, upstream |-> west, mode |-> "none", key |-> None,
            skipTLS |-> TRUE]
Moved == [model |-> gamma, upstream |-> west, mode |-> "replace", key |-> second,
          skipTLS |-> FALSE]

MCRoutes == s1 :> (alpha :> Plain @@ beta :> Aliased)
         @@ s2 :> (alpha :> Moved)
         @@ s3 :> (alpha :> Moved @@ gamma :> Moved)

\* Bodies that differ from these in one token, and from the first in two: every token in
\* every place of an object with one model field, with two, with one in a nested object,
\* behind containers that nest to the limit.
OneField == <<"lbrace", model, "colon", alpha, "rbrace">>
Nests == {
  <<"lbrace", model, "colon", beta, "comma", model, "colon", alpha, "rbrace">>,
  <<"lbrace", beta, "colon", "lbracket", "lbrace", model, "colon", alpha, "rbrace",
    "rbracket", "comma", model, "colon", gamma, "rbrace">>,
  <<"lbrace", model, "colon", gamma, "comma", beta, "colon", "lbracket", "lbracket",
    "lbracket", "rbracket", "rbracket", "rbracket", "rbrace">>,
  <<"lbrace", alpha, "colon", "lbrace", beta, "colon", "lbrace", "rbrace", "rbrace",
    "comma", "blank", model, "colon", beta, "rbrace">> }

Edits(b) ==
       {InsertAt(b, i, t) : i \in 1 .. Len(b) + 1, t \in Token}
  \cup {RemoveAt(b, i) : i \in DOMAIN b}
  \cup {ReplaceAt(b, i, t) : i \in DOMAIN b, t \in Token}

MCBodies == UNION {Edits(b) : b \in Edits(OneField) \cup Nests}

\* A request every snapshot with the key "local" forwards...
Ordinary ==
  [path |-> "other", get |-> FALSE, bearer |-> local, apiKey |-> "absent",
   upgrade |-> FALSE, json |-> TRUE, wire |-> "ok", encoding |-> "identity",
   gzip |-> "ok", doc |-> alpha, integrity |-> FALSE]

Values ==
  [path |-> {"health", "models", "other"}, get |-> BOOLEAN,
   bearer |-> {local, spaced, "absent", "many", "malformed"},
   apiKey |-> {local, spaced, "absent", "many"}, upgrade |-> BOOLEAN,
   json |-> BOOLEAN, wire |-> {"ok", "declaredLarge", "large", "broken"},
   encoding |-> {"identity", "gzip", "other"}, gzip |-> {"ok", "corrupt", "large"},
   doc |-> {Doc(b) : b \in Bodies}, integrity |-> BOOLEAN]

\* ... and every request that differs from it in at most two fields: all the tests of
\* ServeHTTP, and every pair of them in conflict.
PairsInbound ==
  LET values == Values
      Deviations(q) ==
        UNION {{[q EXCEPT ![f] = v] : v \in values[f]} : f \in DOMAIN values}
  IN UNION {Deviations(q) : q \in Deviations(Ordinary)}

=============================================================================
