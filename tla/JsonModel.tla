------------------------------ MODULE JsonModel ------------------------------
(***************************************************************************)
(* internal/proxy/json_model.go: where the top-level field "model" of a     *)
(* request body is, found without decoding the body.                        *)
(*                                                                         *)
(* A body is a sequence of tokens: punctuation, a run of white space, a     *)
(* string named by what json.Unmarshal decodes it to, "broken" for one that *)
(* does not end or decode, "number", "literal" (true, false, null), and     *)
(* "junk" for any other bytes.  An index past the end reads "end"; the      *)
(* index 0 stands for errInvalidJSON.                                       *)
(***************************************************************************)
EXTENDS Integers, Sequences, FiniteSetsExt

CONSTANTS
  String,     \* what strings decode to
  ModelField, \* the one that decodes to "model", however it is escaped
  MaxDepth    \* 1000 in the code

Punctuation == {"lbrace", "rbrace", "lbracket", "rbracket", "colon", "comma", "blank"}
Token == String \cup Punctuation \cup {"broken", "number", "literal", "junk"}

ASSUME JsonAssumption == ModelField \in String /\ MaxDepth \in Nat \ {0}

ASSUME StringsApart ==
  String \cap (Punctuation \cup {"broken", "number", "literal", "junk", "end"}) = {}

At(b, i) == IF i \in DOMAIN b THEN b[i] ELSE "end"

\* skipWhitespace
Blank(b, i) == Min({k \in i .. Len(b) : b[k] # "blank"} \cup {Len(b) + 1})

\* skipWhitespace and consume: the index behind the token, or 0.
Consume(b, i, token) == LET k == Blank(b, i) IN IF At(b, k) = token THEN k + 1 ELSE 0

\* parseString and the colon behind it: the index of the value, or 0.
SkipKey(b, i) ==
  LET k == Blank(b, i) IN IF At(b, k) \in String THEN Consume(b, k + 1, "colon") ELSE 0

\* skipNumber takes what is before the next delimiter, and it has to be one number.
SkipNumber(b, k) ==
  LET delimiters == {j \in k .. Len(b) : b[j] \in {"blank", "comma", "rbrace", "rbracket"}}
  IN IF b[k] = "number" /\ Min(delimiters \cup {Len(b) + 1}) = k + 1 THEN k + 1 ELSE 0

\* Variant: a container does not count.
NestedUncounted(depth) == depth

\* The depth skipObject and skipArray are called with.
Nested(depth) == depth + 1

\* The brackets a container is between.
Closing == [t \in {"lbrace", "lbracket"} |-> IF t = "lbrace" THEN "rbrace" ELSE "rbracket"]

\* What recursive calls are made of: skipValue ("value") or the loop of skipObject ("rbrace")
\* or of skipArray ("rbracket"), where in the body, and at which depth.
Call(b) == {"value", "rbrace", "rbracket"} \X (1 .. Len(b) + 1) \X (0 .. MaxDepth + 1)

\* skipValue, with the beginning of skipObject and skipArray: an empty one.  The calls it
\* makes are in skip.
SkipValueBy(skip, b, i, depth) ==
  LET k == Blank(b, i)
      empty == Consume(b, k + 1, Closing[At(b, k)])
  IN CASE depth > MaxDepth -> 0
       [] depth <= MaxDepth /\ At(b, k) \in String \cup {"literal"} -> k + 1
       [] depth <= MaxDepth /\ At(b, k) = "number" -> SkipNumber(b, k)
       [] depth <= MaxDepth /\ At(b, k) \in DOMAIN Closing ->
            IF empty # 0 THEN empty ELSE skip[<<Closing[At(b, k)], k + 1, Nested(depth)>>]
       [] OTHER -> 0

\* The loop of skipObject, whose elements have a key, and of skipArray.
SkipElementsBy(skip, b, i, depth, close) ==
  LET value == IF close = "rbrace" THEN SkipKey(b, i) ELSE i
      after == IF value = 0 THEN 0 ELSE skip[<<"value", value, depth>>]
  IN IF after = 0 THEN 0
     ELSE IF Consume(b, after, close) # 0 THEN Consume(b, after, close)
     ELSE IF Consume(b, after, "comma") = 0 THEN 0
     ELSE skip[<<close, Consume(b, after, "comma"), depth>>]

SkipBy(skip, b, x) ==
  IF x[1] = "value" THEN SkipValueBy(skip, b, x[2], x[3])
  ELSE SkipElementsBy(skip, b, x[2], x[3], x[1])

Skip(b) == LET skip[x \in Call(b)] == SkipBy(skip, b, x) IN skip

\* skipValue: the index behind the value at i, or 0.
SkipValue(b, i, depth) == Skip(b)[<<"value", i, depth>>]

-----------------------------------------------------------------------------
\* A modelLocation as the index of the value, or the error in its place.
Location(at) == [error |-> "", at |-> at]
Failure(error) == [error |-> error, at |-> 0]

\* Behind the closing brace of the body there is only white space.
Finish(b, i, found) ==
  IF Blank(b, i) # Len(b) + 1 THEN Failure("invalid_json")
  ELSE IF found = 0 THEN Failure("missing_model") ELSE Location(found)

\* A model field whose value is at k, after one that was found (or 0).
Refused(b, k, found) ==
  IF found # 0 THEN "duplicate_model"
  ELSE IF At(b, k) \notin String \cup {"broken"} THEN "invalid_model" ELSE ""

\* The loop of locateTopLevelModel from i on, with the value found before (or 0); what
\* the next rounds return is in rounds.
LocateBy(rounds, b, i, found) ==
  LET value == SkipKey(b, i)
      k == Blank(b, value)
      isModel == At(b, Blank(b, i)) = ModelField
      after == IF ~isModel THEN SkipValue(b, value, 1)
               ELSE IF At(b, k) \in String THEN k + 1 ELSE 0
      next == IF isModel THEN k ELSE found
  IN IF value = 0 THEN Failure("invalid_json")
     ELSE IF isModel /\ Refused(b, k, found) # "" THEN Failure(Refused(b, k, found))
     ELSE IF after = 0 THEN Failure("invalid_json")
     ELSE IF Consume(b, after, "comma") # 0 THEN rounds[<<Consume(b, after, "comma"), next>>]
     ELSE IF Consume(b, after, "rbrace") # 0 THEN Finish(b, Consume(b, after, "rbrace"), next)
     ELSE Failure("invalid_json")

LocateFrom(b) ==
  LET rounds[x \in (1 .. Len(b) + 1) \X (0 .. Len(b))] == LocateBy(rounds, b, x[1], x[2])
  IN rounds

\* locateTopLevelModel
Locate(b) ==
  LET open == Consume(b, 1, "lbrace")
  IN IF open = 0 THEN Failure("invalid_json")
     ELSE IF Consume(b, open, "rbrace") # 0 THEN Failure("missing_model")
     ELSE LocateFrom(b)[<<open, 0>>]

\* What ServeHTTP goes on with: the name, or the code of the error.
Doc(b) == LET found == Locate(b)
          IN IF found.error = "" THEN b[found.at] ELSE found.error

-----------------------------------------------------------------------------
(* The grammar of RFC 8259, for comparison: not how the code goes about it. *)

\* The tokens from i up to, and without, j are white space.
Gap(b, i, j) == \A k \in i .. j - 1 : b[k] = "blank"

\* A value, or one or more elements of an object ("rbrace") or an array ("rbracket"); from
\* where, up to and without where; in how many containers.
Phrase(b) ==
  {"value", "rbrace", "rbracket"} \X (1 .. Len(b) + 1) \X (1 .. Len(b) + 1) \X (0 .. MaxDepth + 1)

\* With white space around it, one token or two brackets with elements or none between
\* them.  What the phrases within it are is in derives.
ValueBy(derives, b, i, j, depth) ==
  \E k \in i .. j - 1 :
    /\ depth <= MaxDepth
    /\ Gap(b, i, k)
    /\ \/ b[k] \in String \cup {"number", "literal"} /\ Gap(b, k + 1, j)
       \/ /\ b[k] \in DOMAIN Closing
          /\ \E l \in k + 1 .. j - 1 :
               /\ b[l] = Closing[b[k]] /\ Gap(b, l + 1, j)
               /\ Gap(b, k + 1, l) \/ derives[<<b[l], k + 1, l, depth + 1>>]

\* With white space around it, a string and a colon.
IsKey(b, i, c) ==
  /\ b[c] = "colon"
  /\ \E s \in i .. c - 1 : Gap(b, i, s) /\ b[s] \in String /\ Gap(b, s + 1, c)

\* Elements have commas between them; those of an object have a key.
ElementsBy(derives, b, i, j, depth, close) ==
  \E k \in i .. j :
    /\ \/ close = "rbracket" /\ derives[<<"value", i, k, depth>>]
       \/ close = "rbrace" /\ \E c \in i .. k - 1 :
                              IsKey(b, i, c) /\ derives[<<"value", c + 1, k, depth>>]
    /\ k = j \/ (k < j /\ b[k] = "comma" /\ derives[<<close, k + 1, j, depth>>])

DerivesBy(derives, b, x) ==
  IF x[1] = "value" THEN ValueBy(derives, b, x[2], x[3], x[4])
  ELSE ElementsBy(derives, b, x[2], x[3], x[4], x[1])

Derives(b) == LET derives[x \in Phrase(b)] == DerivesBy(derives, b, x) IN derives

\* An object none of whose values is in more than MaxDepth containers.
IsBody(b) ==
  /\ \E k \in DOMAIN b : Gap(b, 1, k) /\ b[k] = "lbrace"
  /\ Derives(b)[<<"value", 1, Len(b) + 1, 0>>]

\* How many containers the token at i is in.
Enclosing(b, i) ==
  Cardinality({k \in 1 .. i - 1 : b[k] \in {"lbrace", "lbracket"}})
  - Cardinality({k \in 1 .. i - 1 : b[k] \in {"rbrace", "rbracket"}})

\* CONTEXT.md:11 "the unique top-level" model field of a body: the index of its value, or
\* what is wrong with it.  A field is where its colon is.
Described(b) ==
  LET fields == {c \in DOMAIN b : /\ b[c] = "colon" /\ Enclosing(b, c) = 1
                                  /\ \E s \in 1 .. c - 1 : /\ b[s] = ModelField
                                                           /\ Gap(b, s + 1, c)}
      value == Blank(b, Min(fields) + 1)
  IN IF fields = {} THEN Failure("missing_model")
     ELSE IF b[value] \notin String THEN Failure("invalid_model")
     ELSE IF fields # {Min(fields)} THEN Failure("duplicate_model")
     ELSE Location(value)

\* The scanner accepts an object with one top-level model string and nothing else, finds
\* the value, and names what is wrong with another object.
Agrees(b) ==
  IF IsBody(b) THEN Locate(b) = Described(b) ELSE Locate(b).error # ""
=============================================================================
