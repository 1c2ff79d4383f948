----------------------------- MODULE MCUserFiles -----------------------------
(***************************************************************************)
(* Two instances of the program; a user whose document is accepted, or      *)
(* rejected because two models have one public name, or is no YAML; every   *)
(* choice of names for three models of two upstreams; and every             *)
(* configuration that differs from an ordinary one in one or two values.    *)
(***************************************************************************)
EXTENDS UserFiles, TLC

CONSTANTS p1, p2,                                   \* instances
          doc1, doc2, good, clashing, malformed,    \* documents
          one, two, three, long, huge, empty, padded, twoLines, nul, key1, key2, east,
          west, unsafe                              \* texts

MCText == {one, two, three, long, huge, empty, padded, twoLines, nul, key1, key2, east,
           west, unsafe}
MCLength == [s \in MCText |-> CASE s = empty -> 0 [] s = long -> 257 [] s = huge -> 4097
                                [] OTHER -> 8]

Model(id, alias) == [id |-> id, alias |-> alias]
Https == [parses |-> TRUE, scheme |-> "https", host |-> TRUE, user |-> FALSE,
          query |-> FALSE, fragment |-> FALSE]
Upstream(models) ==
  [url |-> Https, skipVerify |-> TRUE, mode |-> "replace", key |-> key2, models |-> models]
Ordinary(m1, m2, m3) ==
  [version |-> 1, port |-> 65535, apiKey |-> key1, level |-> "warn",
   upstreams |-> [name \in MCText |-> CASE name = east -> Upstream(<<m1>>)
                                        [] name = west -> Upstream(<<m2, m3>>)
                                        [] OTHER -> None]]

Accepted == Ordinary(Model(one, empty), Model(two, empty), Model(one, three))
Rejected == Ordinary(Model(one, empty), Model(two, empty), Model(two, one))

MCTemplate == p1 :> doc1 @@ p2 :> doc2
MCMeaning ==
  doc1 :> FirstConfig(key1) @@ doc2 :> FirstConfig(key2)
    @@ good :> Accepted @@ clashing :> Rejected @@ malformed :> None

\* Every choice of names for the three models.
Named ==
  LET Models == {Model(id, alias) : id \in {one, two}, alias \in {empty, one, three, padded}}
  IN {Ordinary(m1, m2, m3) : m1 \in Models, m2 \in Models, m3 \in Models}

\* c with one of its values replaced.
Edits(c) ==
  {[c EXCEPT !.version = 2]} \cup {[c EXCEPT !.port = n] : n \in {0, 1, 65536}}
    \cup {[c EXCEPT !.apiKey = s] : s \in {empty, long, huge, padded, twoLines}}
    \cup {[c EXCEPT !.level = "other"]}
    \cup {[c EXCEPT !.upstreams[unsafe] = c.upstreams[west]]}
    \cup {[c EXCEPT !.upstreams[n] = None] : n \in {east, west}}
EditsOfUpstream(u) ==
  {[u EXCEPT !.url.scheme = s] : s \in {"", "http", "other"}}
    \cup {[u EXCEPT !.url.parses = FALSE], [u EXCEPT !.url.host = FALSE],
          [u EXCEPT !.url.user = TRUE], [u EXCEPT !.url.query = TRUE],
          [u EXCEPT !.url.fragment = TRUE]}
    \cup {[u EXCEPT !.skipVerify = FALSE], [u EXCEPT !.models = <<>>]}
    \cup {[u EXCEPT !.mode = m] : m \in {"none", "other"}}
    \cup {[u EXCEPT !.key = k] : k \in {None, empty, huge}}
    \cup {[u EXCEPT !.models[1].id = s] : s \in {empty, long, nul, two}}
AllEdits(c) ==
  Edits(c)
    \cup {[c EXCEPT !.upstreams[east] = u] : u \in EditsOfUpstream(c.upstreams[east])}

\* Those that still have the upstream to edit, and a model in it.
Editable(S) ==
  {c \in S : c.upstreams[east] # None /\ c.upstreams[east].models # <<>>}

MCCandidate ==
  Named \cup AllEdits(Accepted) \cup UNION {AllEdits(c) : c \in Editable(AllEdits(Accepted))}
=============================================================================
