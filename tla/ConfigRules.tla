----------------------------- MODULE ConfigRules -----------------------------
(***************************************************************************)
(* What a configuration has to satisfy (Validate, internal/config/          *)
(* config.go) and the routing table made of one that does (New,             *)
(* internal/router/router.go).                                              *)
(*                                                                         *)
(* Both run over cfg.Upstreams, a Go map, in an order of the moment, and    *)
(* each finds repeated public names in its own way.  An order here is any   *)
(* enumeration of the model entries; Go's, which takes the entries of an    *)
(* upstream together, are among them.                                       *)
(***************************************************************************)
EXTENDS Integers, Sequences, FiniteSets, Functions

CONSTANTS
  Text,      \* strings: keys, names of upstreams, IDs and aliases of models
  Empty,     \* the empty one
  Length,    \* the length of each
  Padded,    \* those with white space at an end
  Broken,    \* those with a line break inside
  Nul,       \* those with a NUL byte
  SafeName,  \* those upstreamNamePattern matches
  Candidate, \* the configurations to look at
  MaxPort,   \* 65535
  None       \* Go's nil

Url == [parses : BOOLEAN, scheme : {"", "http", "https", "other"}, host : BOOLEAN,
        user : BOOLEAN, query : BOOLEAN, fragment : BOOLEAN]
ModelConfig == [id : Text, alias : Text]
UpstreamConfig ==
  [url : Url, skipVerify : BOOLEAN, mode : {"replace", "none", "other"},
   key : Text \cup {None}, models : Seq(ModelConfig)]
Config ==
  [version : Int, port : Int, apiKey : Text,
   level : {"debug", "info", "warn", "error", "other"},
   upstreams : [Text -> UpstreamConfig \cup {None}]]

ASSUME TextAssumption ==
  /\ IsFiniteSet(Text) /\ Empty \in Text /\ Length \in [Text -> Nat]
  /\ None \notin Text \cup UpstreamConfig \cup Config
ASSUME CandidateAssumption == \A c \in Candidate : c \in Config

-----------------------------------------------------------------------------
\* validateSecret and validateModelName
ValidSecret(s) == s # Empty /\ Length[s] <= 4096 /\ s \notin Padded \cup Broken
ValidModelName(s) == s # Empty /\ Length[s] <= 256 /\ s \notin Padded \cup Broken \cup Nul

\* validateBaseURL
ValidBaseURL(url) ==
  /\ url.parses /\ url.host /\ url.scheme \in {"http", "https"}
  /\ ~url.user /\ ~url.query /\ ~url.fragment

\* validateAuth
ValidAuth(upstream) ==
  \/ upstream.mode = "replace" /\ upstream.key # None /\ ValidSecret(upstream.key)
  \/ upstream.mode = "none" /\ upstream.key = None

ValidUpstream(upstream) ==
  /\ ValidBaseURL(upstream.url)
  /\ upstream.skipVerify => upstream.url.scheme = "https"
  /\ ValidAuth(upstream)
  /\ upstream.models # <<>>
  /\ \A i \in DOMAIN upstream.models :
        /\ ValidModelName(upstream.models[i].id)
        /\ upstream.models[i].alias # Empty => ValidModelName(upstream.models[i].alias)

\* The names of the upstreams c has.
Names(c) == {name \in Text : c.upstreams[name] # None}

\* The model entries: the name of an upstream and an index.
Entries(c) ==
  UNION {{<<name, i>> : i \in DOMAIN c.upstreams[name].models} : name \in Names(c)}

Orders(c) == Bijection(1 .. Cardinality(Entries(c)), Entries(c))

\* PublicName
PublicName(model) == IF model.alias # Empty THEN model.alias ELSE model.id

Public(c, e) == PublicName(c.upstreams[e[1]].models[e[2]])

\* Variant: publicModels is made anew for each upstream.
PublicModelsOfUpstream(c, o, i) ==
  {Public(c, o[j]) : j \in {k \in 1 .. i - 1 : o[k][1] = o[i][1]}}

\* publicModels when the loop comes to the entry at i.
PublicModels(c, o, i) == {Public(c, o[j]) : j \in 1 .. i - 1}

\* Validate, on its way through the entries in order o.
Validate(c, o) ==
  /\ c.version = 1 /\ c.port \in 1 .. MaxPort
  /\ ValidSecret(c.apiKey)
  /\ c.level \in {"debug", "info", "warn", "error"}
  /\ \A name \in Names(c) :
        name \in SafeName /\ ValidUpstream(c.upstreams[name])
  /\ \A i \in DOMAIN o : Public(c, o[i]) \notin PublicModels(c, o, i)

-----------------------------------------------------------------------------
\* The Route of an entry.
RouteOf(c, e) ==
  LET upstream == c.upstreams[e[1]]
  IN [upstream |-> e[1], model |-> upstream.models[e[2]].id, url |-> upstream.url,
      mode |-> upstream.mode, key |-> upstream.key, skipTLS |-> upstream.skipVerify]

\* routes after the first n entries.
Routes(c, o, n) ==
  [name \in {Public(c, o[j]) : j \in 1 .. n} |->
      RouteOf(c, o[CHOOSE j \in 1 .. n : Public(c, o[j]) = name])]

\* New returns a table...
Builds(c, o) ==
  /\ \A name \in Names(c) : c.upstreams[name].url.parses
  /\ \A i \in DOMAIN o : Public(c, o[i]) \notin DOMAIN Routes(c, o, i - 1)

\* ... this one.
Table(c, o) == Routes(c, o, Cardinality(Entries(c)))

-----------------------------------------------------------------------------
\* Loading c in order o and then making its table in order p: what Validate accepts it
\* accepts in every order, New makes a table of it, and in that table every model of
\* every upstream is found under its public name, with a key if and only if it
\* replaces the client's.
Routable(c, o, p) ==
  Validate(c, o) =>
    /\ Validate(c, p) /\ Builds(c, p)
    /\ DOMAIN Table(c, p) = {Public(c, e) : e \in Entries(c)}
    /\ \A e \in Entries(c) :
          LET route == Table(c, p)[Public(c, e)]
          IN route = RouteOf(c, e) /\ (route.mode = "replace" <=> route.key # None)

\* The configurations for which it matters in which order Go iterates, or which New does
\* not make a table of although Validate accepts them.
Unroutable ==
  {c \in Candidate : \E o \in Orders(c), p \in Orders(c) : ~Routable(c, o, p)}

=============================================================================
