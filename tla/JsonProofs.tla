----------------------------- MODULE JsonProofs -----------------------------
(***************************************************************************)
(* Proofs about JsonModel, for bodies of any length, any strings and any    *)
(* limit of nesting: the scanner of json_model.go takes what the grammar of *)
(* JSON derives and nothing else, and finds the one top-level model field.  *)
(*                                                                         *)
(* The scanner, its loop and the grammar are recursive functions.  Each is  *)
(* shown to exist because its arguments become smaller (Fixpoint), and what *)
(* is said of it is proved by strong induction on that measure (Induct):    *)
(* soundness on where a call starts, completeness on how long a phrase is.  *)
(***************************************************************************)
EXTENDS RequestBody, FiniteSetTheorems, WellFoundedInduction, TLAPS

-----------------------------------------------------------------------------
(* Numbers and induction. *)

\* The order of the numbers, as a relation.
Below == {p \in Nat \X Nat : p[1] < p[2]}

\* The order of the numbers is well-founded.
LEMMA BelowWF == IsWellFoundedOn(Below, Nat)
<1>1. OpToRel(<, Nat) = Below
  BY DEF OpToRel, Below
<1> QED BY <1>1, NatLessThanWellFounded, Zenon

\* Every nonempty set of numbers has a least one.
LEMMA Least ==
  ASSUME NEW T \in SUBSET Nat, T # {}
  PROVE  \E n \in T : \A m \in T : n <= m
<1>1. PICK n \in T : \A m \in T : <<m, n>> \notin Below
  <2> HIDE DEF Below
  <2> QED BY BelowWF, WFMin, Zenon
<1>2. ASSUME NEW m \in T PROVE n <= m
  <2>1. m \in Nat /\ n \in Nat
    BY <1>2
  <2>2. <<m, n>> \in Nat \X Nat /\ <<m, n>>[1] = m /\ <<m, n>>[2] = n
    BY <2>1
  <2>3. ~(m < n)
    BY <1>1, <1>2, <2>2, Zenon DEF Below
  <2> QED
    BY <2>1, <2>3
<1> QED BY <1>2

\* Strong induction over a set of numbers.
LEMMA Induct ==
  ASSUME NEW T, \A n \in Nat : (\A m \in Nat : m < n => m \in T) => n \in T
  PROVE \A n \in Nat : n \in T
<1> SUFFICES ASSUME Nat \ T # {} PROVE FALSE
  OBVIOUS
<1>1. PICK n \in Nat \ T : \A m \in Nat \ T : n <= m
  BY Least
<1> QED BY <1>1

\* Min
LEMMA MinFact ==
  ASSUME NEW T \in SUBSET Nat, T # {}
  PROVE  Min(T) \in T /\ \A m \in T : Min(T) <= m
  BY Least DEF Min

-----------------------------------------------------------------------------
(* Tokens, white space and keys. *)

\* At, for an index that is not beyond the end of the body.
LEMMA AtFact ==
  ASSUME NEW b \in Seq(Token), NEW k \in 1 .. Len(b) + 1
  PROVE  At(b, k) = IF k <= Len(b) THEN b[k] ELSE "end"
  BY DEF At

\* skipWhitespace stops at the end, or at the first token that is not white space...
LEMMA BlankFact ==
  ASSUME NEW b \in Seq(Token), NEW i \in 1 .. Len(b) + 1
  PROVE  /\ Blank(b, i) \in i .. Len(b) + 1
         /\ Gap(b, i, Blank(b, i))
         /\ Blank(b, i) <= Len(b) => b[Blank(b, i)] # "blank"
<1> DEFINE T == {k \in i .. Len(b) : b[k] # "blank"} \cup {Len(b) + 1}
<1>0. Len(b) \in Nat
  OBVIOUS
<1>1. T \in SUBSET Nat /\ T # {} /\ Blank(b, i) = Min(T)
  BY <1>0 DEF Blank
<1>2. Min(T) \in T /\ \A m \in T : Min(T) <= m
  <2> HIDE DEF T
  <2> QED BY <1>1, MinFact
<1>3. /\ Blank(b, i) \in i .. Len(b) + 1
      /\ Blank(b, i) <= Len(b) => b[Blank(b, i)] # "blank"
  BY <1>0, <1>1, <1>2
<1>4. \A k \in i .. Blank(b, i) - 1 : b[k] = "blank"
  <2> TAKE k \in i .. Blank(b, i) - 1
  <2>1. k \in i .. Len(b) /\ k \notin T
    BY <1>0, <1>1, <1>2, <1>3
  <2> QED
    BY <2>1
<1> QED
  BY <1>3, <1>4 DEF Gap

\* ... and nothing else is such a place.
LEMMA BlankIs ==
  ASSUME NEW b \in Seq(Token), NEW i \in 1 .. Len(b) + 1, NEW k \in i .. Len(b) + 1,
         Gap(b, i, k), k <= Len(b) => b[k] # "blank"
  PROVE  Blank(b, i) = k
<1>0. Len(b) \in Nat
  OBVIOUS
<1>1. CASE Blank(b, i) < k
  BY <1>0, <1>1, BlankFact DEF Gap
<1>2. CASE Blank(b, i) > k
  BY <1>0, <1>2, BlankFact DEF Gap
<1> QED
  BY <1>0, <1>1, <1>2, BlankFact

\* consume has found its token behind white space...
LEMMA ConsumeFact ==
  ASSUME NEW b \in Seq(Token), NEW i \in 1 .. Len(b) + 1, NEW t \in Token,
         Consume(b, i, t) # 0
  PROVE  \E k \in i .. Len(b) : Gap(b, i, k) /\ b[k] = t /\ Consume(b, i, t) = k + 1
<1> DEFINE k == Blank(b, i)
<1>0. Len(b) \in Nat
  OBVIOUS
<1>1. t # "end"
  BY StringsApart DEF Token, Punctuation
<1>2. k \in i .. Len(b) + 1 /\ Gap(b, i, k)
  BY BlankFact
<1>3. At(b, k) = IF k <= Len(b) THEN b[k] ELSE "end"
  BY <1>0, <1>2, AtFact
<1>4. At(b, k) = t /\ Consume(b, i, t) = k + 1
  BY <1>0, <1>2 DEF Consume
<1> HIDE DEF k
<1> QED
  BY <1>0, <1>1, <1>2, <1>3, <1>4

\* ... and finds no other one than what is there.
LEMMA ConsumeIs ==
  ASSUME NEW b \in Seq(Token), NEW i \in 1 .. Len(b) + 1, NEW k \in i .. Len(b),
         Gap(b, i, k), b[k] # "blank", NEW t
  PROVE  Consume(b, i, t) = IF t = b[k] THEN k + 1 ELSE 0
<1>0. Len(b) \in Nat
  OBVIOUS
<1>1. k \in i .. Len(b) + 1 /\ k \in 1 .. Len(b) + 1 /\ k <= Len(b)
  BY <1>0
<1>2. Blank(b, i) = k
  BY <1>1, BlankIs
<1>3. At(b, k) = b[k]
  BY <1>1, AtFact
<1> QED
  BY <1>2, <1>3 DEF Consume

\* What parseString and the colon behind it take is a key of the grammar...
LEMMA KeyFact ==
  ASSUME NEW b \in Seq(Token), NEW i \in 1 .. Len(b) + 1, SkipKey(b, i) # 0
  PROVE  \E c \in i + 1 .. Len(b) : IsKey(b, i, c) /\ SkipKey(b, i) = c + 1
<1> DEFINE s == Blank(b, i)
<1>0. Len(b) \in Nat
  OBVIOUS
<1>1. At(b, s) \in String /\ Consume(b, s + 1, "colon") = SkipKey(b, i)
  BY DEF SkipKey
<1>2. s \in i .. Len(b) + 1 /\ s \in 1 .. Len(b) + 1 /\ Gap(b, i, s)
  BY <1>0, BlankFact
<1>3. s \in i .. Len(b) /\ b[s] \in String /\ s + 1 \in 1 .. Len(b) + 1
  <2> HIDE DEF s
  <2>1. At(b, s) = IF s <= Len(b) THEN b[s] ELSE "end"
    BY <1>2, AtFact
  <2>2. "end" \notin String
    BY StringsApart
  <2> QED BY <1>0, <1>1, <1>2, <2>1, <2>2
<1>4. PICK c \in s + 1 .. Len(b) : /\ Gap(b, s + 1, c) /\ b[c] = "colon"
                                   /\ Consume(b, s + 1, "colon") = c + 1
  <2>1. "colon" \in Token
    BY DEF Token, Punctuation
  <2> HIDE DEF s
  <2> QED BY <2>1, <1>1, <1>3, ConsumeFact
<1> HIDE DEF s
<1>5. s \in i .. c - 1 /\ c \in i + 1 .. Len(b)
  BY <1>0, <1>3
<1>6. IsKey(b, i, c)
  BY <1>5, <1>2, <1>3, <1>4 DEF IsKey
<1> QED
  BY <1>1, <1>4, <1>5, <1>6

\* ... and every such key is taken.
LEMMA KeyIs ==
  ASSUME NEW b \in Seq(Token), NEW i \in 1 .. Len(b) + 1, NEW c \in i .. Len(b),
         IsKey(b, i, c)
  PROVE  SkipKey(b, i) = c + 1
<1>0. Len(b) \in Nat
  OBVIOUS
<1>1. PICK s \in i .. c - 1 : Gap(b, i, s) /\ b[s] \in String /\ Gap(b, s + 1, c)
  BY DEF IsKey
<1>2. /\ s \in i .. Len(b) + 1 /\ s \in 1 .. Len(b) + 1 /\ s <= Len(b)
      /\ s + 1 \in 1 .. Len(b) + 1 /\ c \in s + 1 .. Len(b)
  BY <1>0
<1>3. b[s] # "blank"
  BY <1>1, StringsApart DEF Punctuation
<1>4. Blank(b, i) = s /\ At(b, s) = b[s]
  BY <1>1, <1>2, <1>3, BlankIs, AtFact
<1>5. b[c] = "colon"
  BY DEF IsKey
<1>6. Consume(b, s + 1, "colon") = c + 1
  BY <1>1, <1>2, <1>5, ConsumeIs
<1> QED
  BY <1>1, <1>4, <1>6 DEF SkipKey

-----------------------------------------------------------------------------
(* Recursive functions. *)

\* G makes a function of F of one of F; what it is on x comes from what the other one is
\* on arguments of a smaller size, and sizes are below N.
Descends(S, size, N, R, F, G) ==
  /\ size \in [S -> Nat] /\ N \in Nat /\ \A x \in S : size[x] < N
  /\ F \subseteq [S -> R] /\ F # {} /\ G \in [F -> F]
  /\ \A g, h \in F : \A x \in S :
       (\A y \in S : size[y] < size[x] => g[y] = h[y]) => G[g][x] = G[h][x]

\* A recursive definition whose arguments become smaller defines a function.
LEMMA Fixpoint ==
  ASSUME NEW S, NEW size, NEW N, NEW R, NEW F, NEW G, Descends(S, size, N, R, F, G)
  PROVE  \E g \in F : G[g] = g
<1>0. /\ size \in [S -> Nat] /\ N \in Nat /\ \A x \in S : size[x] < N
      /\ F \in SUBSET [S -> R] /\ F # {} /\ G \in [F -> F]
      /\ \A g, h \in F : \A x \in S :
           (\A y \in S : size[y] < size[x] => g[y] = h[y]) => G[g][x] = G[h][x]
  BY DEF Descends
<1> DEFINE T == {n \in Nat : \E g \in F : \A x \in S : size[x] < n => G[g][x] = g[x]}
<1>1. 0 \in T
  <2>1. PICK g \in F : TRUE
    BY <1>0
  <2>2. \A x \in S : ~(size[x] < 0)
    BY <1>0
  <2> QED
    BY <2>1, <2>2
<1>2. ASSUME NEW n \in T PROVE n + 1 \in T
  <2>1. PICK g \in F : \A x \in S : size[x] < n => G[g][x] = g[x]
    OBVIOUS
  <2>2. G[g] \in F
    BY <1>0
  <2>3. ASSUME NEW x \in S, size[x] < n + 1 PROVE G[G[g]][x] = G[g][x]
    <3>1. ASSUME NEW y \in S, size[y] < size[x] PROVE G[g][y] = g[y]
      <4>1. size[y] < n
        BY <1>0, <2>3, <3>1
      <4> QED BY <2>1, <3>1, <4>1
    <3> QED
      BY <1>0, <2>2, <2>3, <3>1
  <2> QED
    BY <2>2, <2>3
<1>3. \A n \in Nat : n \in T
  <2>1. ASSUME NEW n \in Nat, \A m \in Nat : m < n => m \in T PROVE n \in T
    <3>1. CASE n = 0
      BY <1>1, <3>1
    <3>2. CASE n # 0
      <4>1. n - 1 \in Nat /\ n - 1 < n /\ (n - 1) + 1 = n
        BY <3>2
      <4> HIDE DEF T
      <4> QED BY <4>1, <2>1, <1>2
    <3> QED BY <3>1, <3>2
  <2> HIDE DEF T
  <2> QED BY <2>1, Induct
<1>4. PICK g \in F : \A x \in S : size[x] < N => G[g][x] = g[x]
  BY <1>0, <1>3
<1>5. G[g] \in [S -> R] /\ g \in [S -> R]
  BY <1>0
<1> QED
  BY <1>0, <1>4, <1>5

-----------------------------------------------------------------------------
(* The scanner: skipValue, skipObject and skipArray as one function of their calls. *)

CallSize(b, x) == 2 * (Len(b) + 1 - x[2]) + (IF x[1] = "value" THEN 0 ELSE 1)

\* What a call that starts at x[2] may return.
Behind(b, x) == {0} \cup (x[2] + 1 .. Len(b) + 1)

\* skipNumber looks one token ahead.
LEMMA NumberFact ==
  ASSUME NEW b \in Seq(Token), NEW k \in 1 .. Len(b)
  PROVE  SkipNumber(b, k) =
           IF /\ b[k] = "number"
              /\ k = Len(b) \/ b[k + 1] \in {"blank", "comma", "rbrace", "rbracket"}
           THEN k + 1 ELSE 0
<1> DEFINE Delimiter == {"blank", "comma", "rbrace", "rbracket"}
           T == {j \in k .. Len(b) : b[j] \in Delimiter} \cup {Len(b) + 1}
<1>0. Len(b) \in Nat
  OBVIOUS
<1>1. T \in SUBSET Nat /\ T # {}
  BY <1>0
<1>2. Min(T) \in T /\ \A m \in T : Min(T) <= m
  <2> HIDE DEF T
  <2> QED BY <1>1, MinFact
<1>3. SkipNumber(b, k) = IF b[k] = "number" /\ Min(T) = k + 1 THEN k + 1 ELSE 0
  BY DEF SkipNumber
<1>4. ASSUME b[k] = "number" 
      PROVE Min(T) = k + 1 <=> k = Len(b) \/ b[k + 1] \in Delimiter
  <2>1. k \notin T
    BY <1>0, <1>4
  <2>2. k + 1 \in T <=> k = Len(b) \/ b[k + 1] \in Delimiter
    BY <1>0
  <2>3. \A m \in T : m >= k
    BY <1>0
  <2> HIDE DEF T
  <2>4. \A m \in T : m >= k + 1
    BY <1>0, <1>1, <2>1, <2>3
  <2>5. Min(T) \in Nat /\ Min(T) >= k + 1
    BY <1>1, <1>2, <2>4
  <2>6. k + 1 \in T => Min(T) <= k + 1
    BY <1>2
  <2>7. Min(T) = k + 1 <=> k + 1 \in T
    BY <1>0, <1>2, <2>5, <2>6
  <2> QED
    BY <2>2, <2>7
<1> HIDE DEF T
<1> QED
  BY <1>3, <1>4

Delimiter == {"blank", "comma", "rbrace", "rbracket"}

\* What a value may be followed by.
Delimited(b, j) == j = Len(b) + 1 \/ b[j] \in Delimiter

\* The two brackets.
LEMMA ClosingFact ==
  /\ DOMAIN Closing = {"lbrace", "lbracket"}
  /\ Closing["lbrace"] = "rbrace" /\ Closing["lbracket"] = "rbracket"
  BY DEF Closing

\* What skipValue does with the token at k.
ValueAt(skip, b, k, depth) ==
  IF depth > MaxDepth \/ k > Len(b) THEN 0
  ELSE IF b[k] \in String \cup {"literal"} THEN k + 1
  ELSE IF b[k] = "number" THEN IF Delimited(b, k + 1) THEN k + 1 ELSE 0
  ELSE IF b[k] \notin DOMAIN Closing THEN 0
  ELSE IF Consume(b, k + 1, Closing[b[k]]) # 0 THEN Consume(b, k + 1, Closing[b[k]])
  ELSE skip[<<Closing[b[k]], k + 1, depth + 1>>]

\* It does so with the first one that is not white space.
LEMMA ValueToken ==
  ASSUME NEW b \in Seq(Token), NEW k \in 1 .. Len(b) + 1,
         NEW i \in 1 .. k, k = Blank(b, i),
         NEW depth \in 0 .. MaxDepth + 1, NEW skip
  PROVE  SkipValueBy(skip, b, i, depth) = ValueAt(skip, b, k, depth)
<1>0. Len(b) \in Nat /\ MaxDepth \in Nat
  BY JsonAssumption
<1>1. At(b, k) = IF k <= Len(b) THEN b[k] ELSE "end"
  BY AtFact
<1>2. "end" \notin String \cup {"literal", "number"} \cup DOMAIN Closing
  BY StringsApart, ClosingFact
<1>3. \A t \in String : t \notin {"literal", "number"} \cup DOMAIN Closing
  BY StringsApart, ClosingFact DEF Punctuation
<1>4. CASE depth > MaxDepth \/ k > Len(b)
  <2>1. CASE depth > MaxDepth
    BY <1>0, <2>1 DEF SkipValueBy, ValueAt
  <2>2. CASE ~(depth > MaxDepth)
    <3>1. At(b, k) = "end"
      BY <1>0, <1>1, <1>4, <2>2
    <3> QED
      BY <1>2, <2>2, <1>4, <3>1 DEF SkipValueBy, ValueAt
  <2> QED
    BY <2>1, <2>2
<1>5. CASE depth <= MaxDepth /\ k <= Len(b)
  <2>1. At(b, k) = b[k] /\ k \in 1 .. Len(b)
    BY <1>0, <1>1, <1>5
  <2>2. b[k] = "number" =>
          SkipNumber(b, k) = IF Delimited(b, k + 1) THEN k + 1 ELSE 0
    BY <1>0, <2>1, NumberFact DEF Delimited, Delimiter
  <2>3. ~(depth > MaxDepth) /\ ~(k > Len(b))
    BY <1>0, <1>5
  <2>4. CASE b[k] \in String \cup {"literal"}
    BY <1>5, <2>1, <2>3, <2>4, <1>3, ClosingFact DEF SkipValueBy, ValueAt
  <2>5. CASE b[k] = "number"
    BY <1>5, <2>1, <2>2, <2>3, <2>5, <1>3, ClosingFact DEF SkipValueBy, ValueAt
  <2>6. CASE b[k] \in DOMAIN Closing
    BY <1>5, <2>1, <2>3, <2>6, <1>3, ClosingFact DEF SkipValueBy, ValueAt, Nested
  <2>7. CASE b[k] \notin String \cup {"literal", "number"} \cup DOMAIN Closing
    BY <1>5, <2>1, <2>3, <2>7 DEF SkipValueBy, ValueAt
  <2> QED
    BY <2>4, <2>5, <2>6, <2>7
<1> QED
  BY <1>0, <1>4, <1>5

\* A call depends on calls that are nearer to the end only, and what they return makes
\* what it returns.
LEMMA SkipStep ==
  ASSUME NEW b \in Seq(Token), NEW x \in Call(b), NEW g, NEW h,
         \A y \in Call(b) : CallSize(b, y) < CallSize(b, x) =>
           g[y] = h[y] /\ g[y] \in Behind(b, y)
  PROVE  SkipBy(g, b, x) = SkipBy(h, b, x) /\ SkipBy(g, b, x) \in Behind(b, x)
<1>0. Len(b) \in Nat /\ MaxDepth \in Nat
  BY JsonAssumption
<1> DEFINE i == x[2]
           depth == x[3]
<1>1. /\ i \in 1 .. Len(b) + 1 /\ depth \in 0 .. MaxDepth + 1
      /\ x[1] \in {"value", "rbrace", "rbracket"}
  BY DEF Call
<1>2. CASE x[1] = "value"
  <2> DEFINE k == Blank(b, i)
             y == <<Closing[b[k]], k + 1, depth + 1>>
  <2>1. k \in 1 .. Len(b) + 1 /\ i \in 1 .. k
    BY <1>0, <1>1, BlankFact
  <2>2. ASSUME k <= Len(b), depth <= MaxDepth, b[k] \in DOMAIN Closing
        PROVE g[y] = h[y] /\ (g[y] = 0 \/ g[y] \in i + 1 .. Len(b) + 1)
    <3>1. y \in Call(b) /\ y[1] # "value" /\ y[2] = k + 1
      BY <1>0, <1>1, <2>1, <2>2, ClosingFact, SMTT(40) DEF Call
    <3>2. CallSize(b, y) < CallSize(b, x)
      <4>1. CallSize(b, y) = 2 * (Len(b) + 1 - (k + 1)) + 1
        BY <3>1 DEF CallSize
      <4>2. CallSize(b, x) = 2 * (Len(b) + 1 - i)
        BY <1>0, <1>1, <1>2 DEF CallSize
      <4> HIDE DEF k, y, i
      <4> QED BY <1>0, <2>1, <2>2, <4>1, <4>2
    <3>3. g[y] = h[y] /\ g[y] \in Behind(b, y)
      BY <3>1, <3>2
    <3> QED
      BY <1>0, <1>1, <2>1, <3>1, <3>3, SMTT(40) DEF Behind
  <2>3. ASSUME k <= Len(b), Consume(b, k + 1, Closing[b[k]]) # 0, b[k] \in DOMAIN Closing
        PROVE Consume(b, k + 1, Closing[b[k]]) \in i + 1 .. Len(b) + 1
    <3>1. Closing[b[k]] \in Token /\ k + 1 \in 1 .. Len(b) + 1
      BY <1>0, <2>1, <2>3, ClosingFact DEF Token, Punctuation
    <3>2. PICK l \in k + 1 .. Len(b) : Consume(b, k + 1, Closing[b[k]]) = l + 1
      BY <2>3, <3>1, ConsumeFact
    <3> QED
      BY <1>0, <1>1, <2>1, <3>2, SMTT(40)
  <2>4. /\ SkipBy(g, b, x) = SkipValueBy(g, b, i, depth)
        /\ SkipBy(h, b, x) = SkipValueBy(h, b, i, depth)
    BY <1>2 DEF SkipBy
  <2>5. Behind(b, x) = {0} \cup (i + 1 .. Len(b) + 1)
    BY DEF Behind
  <2>6. /\ SkipValueBy(g, b, i, depth) = ValueAt(g, b, k, depth)
        /\ SkipValueBy(h, b, i, depth) = ValueAt(h, b, k, depth)
    <3> HIDE DEF i, depth
    <3>1. k = Blank(b, i)
      OBVIOUS
    <3> HIDE DEF k
    <3>2. \A skip : SkipValueBy(skip, b, i, depth) = ValueAt(skip, b, k, depth)
      BY <1>1, <2>1, <3>1, ValueToken
    <3> QED BY <3>2
  <2> HIDE DEF k, i, depth
  <2>7. CASE depth > MaxDepth \/ k > Len(b)
    BY <2>4, <2>5, <2>6, <2>7 DEF ValueAt
  <2>8. CASE depth <= MaxDepth /\ k <= Len(b)
    <3>1. ValueAt(g, b, k, depth) = ValueAt(h, b, k, depth)
      BY <2>2, <2>8 DEF ValueAt
    <3>2. ValueAt(g, b, k, depth) \in {0} \cup (i + 1 .. Len(b) + 1)
      <4>1. k + 1 \in i + 1 .. Len(b) + 1 /\ ~(depth > MaxDepth \/ k > Len(b))
        BY <1>0, <1>1, <2>1, <2>8
      <4> QED BY <2>2, <2>3, <2>8, <4>1 DEF ValueAt
    <3> QED BY <2>4, <2>5, <2>6, <3>1, <3>2
  <2> QED
    BY <1>0, <1>1, <2>1, <2>7, <2>8
<1>3. CASE x[1] # "value"
  <2> DEFINE value == IF x[1] = "rbrace" THEN SkipKey(b, i) ELSE i
             y == <<"value", value, depth>>
             after(skip) == IF value = 0 THEN 0 ELSE skip[y]
             comma(n) == Consume(b, n, "comma")
             z(n) == <<x[1], comma(n), depth>>
  <2>1. value \in {0} \cup (i .. Len(b) + 1)
    <3>1. SkipKey(b, i) # 0 => SkipKey(b, i) \in i + 1 .. Len(b) + 1
      BY <1>0, <1>1, KeyFact
    <3> QED BY <1>0, <1>1, <3>1
  <2>2. after(g) = after(h) /\ after(g) \in {0} \cup (i + 1 .. Len(b) + 1)
    <3>1. CASE value = 0
      BY <3>1
    <3>2. CASE value # 0
      <4>1. y \in Call(b) /\ y[1] = "value" /\ y[2] = value
        BY <1>0, <1>1, <2>1, <3>2 DEF Call
      <4>3. CallSize(b, x) = 2 * (Len(b) + 1 - i) + 1
        BY <1>0, <1>1, <1>3 DEF CallSize
      <4>4. value \in i .. Len(b) + 1
        BY <2>1, <3>2
      <4> HIDE DEF value, y, i, depth
      <4>2. CallSize(b, y) = 2 * (Len(b) + 1 - value)
        BY <1>0, <1>1, <4>1, <4>4 DEF CallSize
      <4>5. CallSize(b, y) < CallSize(b, x)
        BY <1>0, <1>1, <4>2, <4>3, <4>4
      <4>6. g[y] = h[y] /\ g[y] \in Behind(b, y)
        BY <4>1, <4>5
      <4>7. Behind(b, y) = {0} \cup (value + 1 .. Len(b) + 1)
        BY <4>1 DEF Behind
      <4> QED
        BY <1>0, <1>1, <3>2, <4>4, <4>6, <4>7
    <3> QED BY <3>1, <3>2
  <2>3. \A t \in {x[1], "comma"} : \A n \in i + 1 .. Len(b) + 1 :
          Consume(b, n, t) \in {0} \cup (i + 2 .. Len(b) + 1)
    <3> TAKE t \in {x[1], "comma"}
    <3> TAKE n \in i + 1 .. Len(b) + 1
    <3>1. t \in Token /\ n \in 1 .. Len(b) + 1
      BY <1>0, <1>1, <1>3 DEF Token, Punctuation
    <3>2. Consume(b, n, t) # 0 => \E k \in n .. Len(b) : Consume(b, n, t) = k + 1
      BY <3>1, ConsumeFact
    <3> HIDE DEF i
    <3> QED BY <1>0, <1>1, <3>1, <3>2
  <2>4. \A n \in i + 1 .. Len(b) + 1 : comma(n) # 0 =>
          g[z(n)] = h[z(n)] /\ g[z(n)] \in {0} \cup (i + 1 .. Len(b) + 1)
    <3> SUFFICES ASSUME NEW n \in i + 1 .. Len(b) + 1, comma(n) # 0
                 PROVE  g[z(n)] = h[z(n)] /\ g[z(n)] \in {0} \cup (i + 1 .. Len(b) + 1)
      OBVIOUS
    <3>1. comma(n) \in i + 2 .. Len(b) + 1
      BY <2>3
    <3>2. z(n) \in Call(b) /\ z(n)[1] # "value" /\ z(n)[2] = comma(n)
      BY <1>0, <1>1, <1>3, <3>1 DEF Call
    <3>3. CallSize(b, z(n)) = 2 * (Len(b) + 1 - comma(n)) + 1
      BY <3>2 DEF CallSize
    <3>4. CallSize(b, x) = 2 * (Len(b) + 1 - i) + 1
      BY <1>0, <1>1, <1>3 DEF CallSize
    <3> HIDE DEF i, depth, z, comma
    <3>5. CallSize(b, z(n)) < CallSize(b, x)
      BY <1>0, <1>1, <3>1, <3>3, <3>4
    <3>6. g[z(n)] = h[z(n)] /\ g[z(n)] \in Behind(b, z(n))
      BY <3>2, <3>5
    <3>7. Behind(b, z(n)) = {0} \cup (comma(n) + 1 .. Len(b) + 1)
      BY <3>2 DEF Behind
    <3> QED
      BY <1>0, <1>1, <3>1, <3>6, <3>7
  <2> DEFINE Form(skip) ==
               IF after(skip) = 0 THEN 0
               ELSE IF Consume(b, after(skip), x[1]) # 0 THEN Consume(b, after(skip), x[1])
               ELSE IF comma(after(skip)) = 0 THEN 0
               ELSE skip[z(after(skip))]
  <2>5. SkipBy(g, b, x) = Form(g) /\ SkipBy(h, b, x) = Form(h)
    BY <1>3 DEF SkipBy, SkipElementsBy
  <2>6. Behind(b, x) = {0} \cup (i + 1 .. Len(b) + 1)
    BY DEF Behind
  <2> HIDE DEF i, depth, after, comma, z
  <2>7. Form(g) = Form(h)
    BY <2>2, <2>4
  <2>8. Form(g) \in {0} \cup (i + 1 .. Len(b) + 1)
    <3>1. CASE after(g) = 0
      BY <3>1
    <3>2. CASE after(g) # 0
      <4>1. after(g) \in i + 1 .. Len(b) + 1
        BY <2>2, <3>2
      <4>2. Consume(b, after(g), x[1]) \in {0} \cup (i + 1 .. Len(b) + 1)
        <5>1. i + 2 .. Len(b) + 1 \subseteq i + 1 .. Len(b) + 1
          BY <1>0, <1>1
        <5> QED BY <2>3, <4>1, <5>1
      <4> QED BY <2>4, <3>2, <4>1, <4>2
    <3> QED BY <3>1, <3>2
  <2> QED
    BY <2>5, <2>6, <2>7, <2>8
<1> QED
  BY <1>2, <1>3

\* The measure of a call.
LEMMA CallSizeFact ==
  ASSUME NEW b \in Seq(Token), NEW x \in Call(b)
  PROVE  CallSize(b, x) \in Nat /\ CallSize(b, x) < 2 * Len(b) + 2
<1>0. Len(b) \in Nat
  OBVIOUS
<1>1. x[2] \in 1 .. Len(b) + 1
  BY DEF Call
<1> QED
  BY <1>0, <1>1 DEF CallSize

\* The scanner exists: the calls of skipValue, skipObject and skipArray end.
LEMMA SkipEquation ==
  ASSUME NEW b \in Seq(Token)
  PROVE  Skip(b) = [x \in Call(b) |-> SkipBy(Skip(b), b, x)]
<1> DEFINE S == Call(b)
           size == [x \in S |-> CallSize(b, x)]
           F == {g \in [S -> 0 .. Len(b) + 1] : \A x \in S : g[x] \in Behind(b, x)}
           Step(g) == [x \in S |-> SkipBy(g, b, x)]
           G == [g \in F |-> Step(g)]
<1>0. Len(b) \in Nat
  OBVIOUS
<1>1. /\ size \in [S -> Nat] /\ \A x \in S : size[x] < 2 * Len(b) + 2
      /\ 2 * Len(b) + 2 \in Nat
  BY <1>0, CallSizeFact
<1>2. F # {}
  <2>1. [x \in S |-> 0] \in F
    BY <1>0 DEF Behind
  <2> QED BY <2>1
<1>3. ASSUME NEW g \in F PROVE Step(g) \in F
  <2>1. \A x \in S : SkipBy(g, b, x) \in Behind(b, x)
    <3> TAKE x \in S
    <3>1. \A y \in S : g[y] = g[y] /\ g[y] \in Behind(b, y)
      OBVIOUS
    <3> HIDE DEF F
    <3> QED BY <3>1, SkipStep
  <2>2. \A x \in S : Behind(b, x) \subseteq 0 .. Len(b) + 1
    <3> TAKE x \in S
    <3>1. x[2] \in 1 .. Len(b) + 1
      BY DEF Call
    <3> QED BY <1>0, <3>1 DEF Behind
  <2> QED BY <2>1, <2>2
<1>4. G \in [F -> F]
  BY <1>3
<1>5. ASSUME NEW g \in F, NEW h \in F, NEW x \in S,
             \A y \in S : size[y] < size[x] => g[y] = h[y]
      PROVE  G[g][x] = G[h][x]
  <2>1. \A y \in S : CallSize(b, y) < CallSize(b, x) => g[y] = h[y] /\ g[y] \in Behind(b, y)
    BY <1>5
  <2>2. SkipBy(g, b, x) = SkipBy(h, b, x)
    <3> HIDE DEF F
    <3> QED BY <2>1, SkipStep
  <2> QED BY <2>2
<1>6. \E g \in F : G[g] = g
  <2>1. Descends(S, size, 2 * Len(b) + 2, 0 .. Len(b) + 1, F, G)
    <3>1. F \subseteq [S -> 0 .. Len(b) + 1]
      OBVIOUS
    <3> HIDE DEF F, G, size, S
    <3> QED BY <1>1, <1>2, <1>4, <1>5, <3>1 DEF Descends
  <2> HIDE DEF F, G, size, S
  <2> QED BY <2>1, Fixpoint
<1>7. \E g : g = [x \in Call(b) |-> SkipBy(g, b, x)]
  BY <1>6
<1> QED
  BY <1>7 DEF Skip

\* A call returns 0 or a place behind where it started.
LEMMA SkipRange ==
  ASSUME NEW b \in Seq(Token), NEW x \in Call(b)
  PROVE  Skip(b)[x] = SkipBy(Skip(b), b, x) /\ Skip(b)[x] \in Behind(b, x)
<1> DEFINE g == Skip(b)
<1>1. \A y \in Call(b) : g[y] = SkipBy(g, b, y)
  BY SkipEquation
<1> HIDE DEF g
<1> DEFINE T == {n \in Nat : \A y \in Call(b) : CallSize(b, y) = n => g[y] \in Behind(b, y)}
<1>2. ASSUME NEW n \in Nat, \A m \in Nat : m < n => m \in T PROVE n \in T
  <2> SUFFICES ASSUME NEW y \in Call(b), CallSize(b, y) = n PROVE g[y] \in Behind(b, y)
    OBVIOUS
  <2>1. \A z \in Call(b) : CallSize(b, z) < CallSize(b, y) =>
          g[z] = g[z] /\ g[z] \in Behind(b, z)
    BY <1>2, CallSizeFact
  <2>2. SkipBy(g, b, y) \in Behind(b, y)
    <3> HIDE DEF T
    <3> QED BY <2>1, SkipStep
  <2> QED BY <1>1, <2>2
<1>3. CallSize(b, x) \in T
  <2>1. \A n \in Nat : n \in T
    <3> HIDE DEF T
    <3> QED BY <1>2, Induct
  <2> QED BY <2>1, CallSizeFact
<1> QED
  BY <1>1, <1>3 DEF g

-----------------------------------------------------------------------------
(* The grammar. *)

PhraseSize(b, x) ==
  2 * (Len(b) + 1 - x[2] + x[3]) + (IF x[1] = "value" THEN 0 ELSE 1)

\* The measure of a phrase.
LEMMA PhraseFact ==
  ASSUME NEW b \in Seq(Token), NEW x \in Phrase(b)
  PROVE  /\ PhraseSize(b, x) \in Nat /\ PhraseSize(b, x) < 4 * Len(b) + 6
         /\ x[2] \in 1 .. Len(b) + 1 /\ x[3] \in 1 .. Len(b) + 1 /\ x[4] \in 0 .. MaxDepth + 1
         /\ x[1] \in {"value", "rbrace", "rbracket"}
<1>0. Len(b) \in Nat
  OBVIOUS
<1>1. /\ x[2] \in 1 .. Len(b) + 1 /\ x[3] \in 1 .. Len(b) + 1 /\ x[4] \in 0 .. MaxDepth + 1
      /\ x[1] \in {"value", "rbrace", "rbracket"}
  BY DEF Phrase
<1>2. \A i, j \in 1 .. Len(b) + 1 : \A bit \in {0, 1} :
        /\ 2 * (Len(b) + 1 - i + j) + bit \in Nat
        /\ 2 * (Len(b) + 1 - i + j) + bit < 4 * Len(b) + 6
  BY <1>0
<1>3. PhraseSize(b, x) \in Nat /\ PhraseSize(b, x) < 4 * Len(b) + 6
  BY <1>1, <1>2 DEF PhraseSize
<1> QED
  BY <1>1, <1>3

\* What a phrase is depends on shorter phrases only.
LEMMA PhraseStep ==
  ASSUME NEW b \in Seq(Token), NEW x \in Phrase(b), NEW g, NEW h,
         \A y \in Phrase(b) : PhraseSize(b, y) < PhraseSize(b, x) => (g[y] <=> h[y])
  PROVE  DerivesBy(g, b, x) => DerivesBy(h, b, x)
<1>0. Len(b) \in Nat /\ MaxDepth \in Nat
  BY JsonAssumption
<1> DEFINE i == x[2]
           j == x[3]
           depth == x[4]
<1>1. /\ i \in 1 .. Len(b) + 1 /\ j \in 1 .. Len(b) + 1 /\ depth \in 0 .. MaxDepth + 1
      /\ x[1] \in {"value", "rbrace", "rbracket"}
  BY PhraseFact
<1>2. CASE x[1] = "value"
  <2> SUFFICES ASSUME ValueBy(g, b, i, j, depth) PROVE ValueBy(h, b, i, j, depth)
    BY <1>2 DEF DerivesBy
  <2>1. PICK k \in i .. j - 1 :
          /\ depth <= MaxDepth
          /\ Gap(b, i, k)
          /\ \/ b[k] \in String \cup {"number", "literal"} /\ Gap(b, k + 1, j)
             \/ /\ b[k] \in DOMAIN Closing
                /\ \E l \in k + 1 .. j - 1 :
                     /\ b[l] = Closing[b[k]] /\ Gap(b, l + 1, j)
                     /\ Gap(b, k + 1, l) \/ g[<<b[l], k + 1, l, depth + 1>>]
    BY DEF ValueBy
  <2>2. ASSUME b[k] \in DOMAIN Closing,
               NEW l \in k + 1 .. j - 1, b[l] = Closing[b[k]],
               g[<<b[l], k + 1, l, depth + 1>>]
        PROVE  h[<<b[l], k + 1, l, depth + 1>>]
    <3> DEFINE y == <<b[l], k + 1, l, depth + 1>>
    <3>0. /\ b[l] \in {"rbrace", "rbracket"} /\ k + 1 \in 1 .. Len(b) + 1
          /\ l \in 1 .. Len(b) + 1 /\ depth + 1 \in 0 .. MaxDepth + 1
      <4>1. b[l] \in {"rbrace", "rbracket"}
        BY <2>2, ClosingFact
      <4> HIDE DEF i, j, depth
      <4>2. depth \in 0 .. MaxDepth + 1 /\ depth <= MaxDepth
        BY <1>1, <2>1
      <4> QED BY <1>0, <1>1, <4>1, <4>2, SMTT(40)
    <3>1. y \in Phrase(b) /\ y[1] # "value" /\ y[2] = k + 1 /\ y[3] = l
      BY <3>0 DEF Phrase
    <3>2. PhraseSize(b, x) = 2 * (Len(b) + 1 - i + j)
      BY <1>2, <1>0, <1>1, SMTT(40) DEF PhraseSize
    <3> HIDE DEF i, j, y
    <3>3. PhraseSize(b, y) = 2 * (Len(b) + 1 - (k + 1) + l) + 1
      BY <3>1, <1>0, <1>1 DEF PhraseSize
    <3>4. PhraseSize(b, y) < PhraseSize(b, x)
      BY <1>0, <1>1, <3>2, <3>3
    <3> QED BY <2>2, <3>1, <3>4 DEF y
  <2> HIDE DEF i, j, depth
  <2> QED
    BY <2>1, <2>2 DEF ValueBy
<1>3. CASE x[1] # "value"
  <2> DEFINE close == x[1]
  <2> SUFFICES ASSUME ElementsBy(g, b, i, j, depth, close)
               PROVE  ElementsBy(h, b, i, j, depth, close)
    BY <1>3 DEF DerivesBy
  <2>0. PhraseSize(b, x) = 2 * (Len(b) + 1 - i + j) + 1
    BY <1>3, <1>0, <1>1 DEF PhraseSize
  <2>1. \A n \in i .. j : \A k \in n .. j :
          <<"value", n, k, depth>> \in Phrase(b) =>
            (g[<<"value", n, k, depth>>] => h[<<"value", n, k, depth>>])
    <3> TAKE n \in i .. j
    <3> TAKE k \in n .. j
    <3> DEFINE y == <<"value", n, k, depth>>
    <3> HAVE y \in Phrase(b)
    <3>1. y[1] = "value" /\ y[2] = n /\ y[3] = k
      OBVIOUS
    <3> HIDE DEF i, j, y
    <3>3. PhraseSize(b, y) = 2 * (Len(b) + 1 - n + k)
      BY <3>1, <1>0, <1>1 DEF PhraseSize
    <3>4. PhraseSize(b, y) < PhraseSize(b, x)
      BY <1>0, <1>1, <2>0, <3>3
    <3> QED BY <3>1, <3>4 DEF y
  <2>2. \A k \in i .. j - 1 : <<close, k + 1, j, depth>> \in Phrase(b) =>
          (g[<<close, k + 1, j, depth>>] => h[<<close, k + 1, j, depth>>])
    <3> TAKE k \in i .. j - 1
    <3> DEFINE y == <<close, k + 1, j, depth>>
    <3> HAVE y \in Phrase(b)
    <3>1. y[1] # "value" /\ y[2] = k + 1 /\ y[3] = j
      BY <1>3
    <3>2. j \in 1 .. Len(b) + 1 /\ k \in i .. j - 1
      BY <1>1
    <3> HIDE DEF i, j, y
    <3>3. PhraseSize(b, y) = 2 * (Len(b) + 1 - (k + 1) + j) + 1
      BY <3>1, <1>0, <1>1 DEF PhraseSize
    <3>4. PhraseSize(b, y) < PhraseSize(b, x)
      BY <1>0, <1>1, <2>0, <3>2, <3>3
    <3> QED BY <3>1, <3>4 DEF y
  <2>3. \A n \in i .. j : \A k \in n .. j : <<"value", n, k, depth>> \in Phrase(b)
    BY <1>0, <1>1 DEF Phrase
  <2>4. \A k \in i .. j - 1 : <<close, k + 1, j, depth>> \in Phrase(b)
    BY <1>0, <1>1, <1>3 DEF Phrase
  <2>5. PICK k \in i .. j :
          /\ \/ close = "rbracket" /\ g[<<"value", i, k, depth>>]
             \/ close = "rbrace" /\ \E c \in i .. k - 1 : /\ IsKey(b, i, c)
                                                     /\ g[<<"value", c + 1, k, depth>>]
          /\ k = j \/ (k < j /\ b[k] = "comma" /\ g[<<close, k + 1, j, depth>>])
    BY DEF ElementsBy
  <2> HIDE DEF close, depth
  <2>6. /\ \/ close = "rbracket" /\ h[<<"value", i, k, depth>>]
           \/ close = "rbrace" /\ \E c \in i .. k - 1 : /\ IsKey(b, i, c)
                                                   /\ h[<<"value", c + 1, k, depth>>]
        /\ k = j \/ (k < j /\ b[k] = "comma" /\ h[<<close, k + 1, j, depth>>])
    <3>1. i \in i .. j /\ k \in i .. j
      BY <1>1, <2>5
    <3>2. \A c \in i .. k - 1 : c + 1 \in i .. j /\ k \in c + 1 .. j
      BY <1>0, <1>1, <2>5
    <3>3. k < j => k \in i .. j - 1
      BY <1>0, <1>1, <2>5
    <3> HIDE DEF i, j
    <3> QED BY <2>1, <2>2, <2>3, <2>4, <2>5, <3>1, <3>2, <3>3
  <2> HIDE DEF i, j
  <2> QED BY <2>5, <2>6 DEF ElementsBy
<1> QED
  BY <1>2, <1>3

\* The grammar exists: what a phrase is does not hang in the air.
LEMMA DerivesEquation ==
  ASSUME NEW b \in Seq(Token)
  PROVE  Derives(b) = [x \in Phrase(b) |-> DerivesBy(Derives(b), b, x)]
<1> DEFINE S == Phrase(b)
           size == [x \in S |-> PhraseSize(b, x)]
           F == [S -> BOOLEAN]
           Step(g) == [x \in S |-> DerivesBy(g, b, x)]
           G == [g \in F |-> Step(g)]
<1>0. Len(b) \in Nat
  OBVIOUS
<1>1. /\ size \in [S -> Nat] /\ \A x \in S : size[x] < 4 * Len(b) + 6
      /\ 4 * Len(b) + 6 \in Nat
  BY <1>0, PhraseFact
<1>2. F # {}
  <2>1. [x \in S |-> TRUE] \in F
    OBVIOUS
  <2> QED BY <2>1
<1>3. ASSUME NEW g \in F, NEW x \in S PROVE DerivesBy(g, b, x) \in BOOLEAN
  BY DEF DerivesBy, ValueBy, ElementsBy
<1>4. G \in [F -> F]
  BY <1>3
<1>5. ASSUME NEW g \in F, NEW h \in F, NEW x \in S,
             \A y \in S : size[y] < size[x] => g[y] = h[y]
      PROVE  G[g][x] = G[h][x]
  <2>1. \A y \in S : PhraseSize(b, y) < PhraseSize(b, x) => (g[y] <=> h[y])
    BY <1>5
  <2>2. DerivesBy(g, b, x) => DerivesBy(h, b, x)
    <3> HIDE DEF F
    <3> QED BY <2>1, PhraseStep
  <2>3. DerivesBy(h, b, x) => DerivesBy(g, b, x)
    <3>1. \A y \in S : PhraseSize(b, y) < PhraseSize(b, x) => (h[y] <=> g[y])
      BY <2>1
    <3> HIDE DEF F
    <3> QED BY <3>1, PhraseStep
  <2>4. DerivesBy(g, b, x) = DerivesBy(h, b, x)
    BY <1>3, <2>2, <2>3
  <2> QED BY <2>4
<1>6. \E g \in F : G[g] = g
  <2>1. Descends(S, size, 4 * Len(b) + 6, BOOLEAN, F, G)
    <3>1. F \subseteq [S -> BOOLEAN]
      OBVIOUS
    <3> HIDE DEF F, G, size, S
    <3> QED BY <1>1, <1>2, <1>4, <1>5, <3>1 DEF Descends
  <2> HIDE DEF F, G, size, S
  <2> QED BY <2>1, Fixpoint
<1>7. \E g : g = [x \in Phrase(b) |-> DerivesBy(g, b, x)]
  BY <1>6
<1> QED
  BY <1>7 DEF Derives

-----------------------------------------------------------------------------
(* White space, and one step of each function. *)

\* White space, and white space behind it.
LEMMA GapJoin ==
  ASSUME NEW b, NEW i \in Nat, NEW j \in Nat, NEW k \in Nat, Gap(b, i, j), Gap(b, j, k)
  PROVE  Gap(b, i, k)
  BY DEF Gap

\* Nothing is white space.
LEMMA GapEmpty ==
  ASSUME NEW b, NEW i \in Nat
  PROVE  Gap(b, i, i)
  BY DEF Gap

\* A value and elements of the grammar, and of the scanner, unfolded once.
LEMMA DerivesValue ==
  ASSUME NEW b \in Seq(Token), NEW i \in 1 .. Len(b) + 1, NEW j \in 1 .. Len(b) + 1,
         NEW depth \in 0 .. MaxDepth + 1
  PROVE  Derives(b)[<<"value", i, j, depth>>] <=> ValueBy(Derives(b), b, i, j, depth)
<1> DEFINE x == <<"value", i, j, depth>>
<1>1. x \in Phrase(b) /\ x[1] = "value" /\ x[2] = i /\ x[3] = j /\ x[4] = depth
  BY DEF Phrase
<1>2. Derives(b)[x] = DerivesBy(Derives(b), b, x)
  BY <1>1, DerivesEquation
<1> HIDE DEF x
<1> QED
  BY <1>1, <1>2 DEF DerivesBy, x

LEMMA DerivesElements ==
  ASSUME NEW b \in Seq(Token), NEW i \in 1 .. Len(b) + 1, NEW j \in 1 .. Len(b) + 1,
         NEW depth \in 0 .. MaxDepth + 1, NEW close \in {"rbrace", "rbracket"}
  PROVE  Derives(b)[<<close, i, j, depth>>] <=> ElementsBy(Derives(b), b, i, j, depth, close)
<1> DEFINE x == <<close, i, j, depth>>
<1>1. /\ x \in Phrase(b) /\ x[1] = close /\ x[2] = i /\ x[3] = j /\ x[4] = depth
      /\ x[1] # "value"
  BY DEF Phrase
<1>2. Derives(b)[x] = DerivesBy(Derives(b), b, x)
  BY <1>1, DerivesEquation
<1> HIDE DEF x
<1> QED
  BY <1>1, <1>2 DEF DerivesBy, x

LEMMA SkipsValue ==
  ASSUME NEW b \in Seq(Token), NEW i \in 1 .. Len(b) + 1, NEW depth \in 0 .. MaxDepth + 1
  PROVE  /\ Skip(b)[<<"value", i, depth>>] = SkipValueBy(Skip(b), b, i, depth)
         /\ Skip(b)[<<"value", i, depth>>] \in {0} \cup (i + 1 .. Len(b) + 1)
<1> DEFINE x == <<"value", i, depth>>
<1>1. x \in Call(b) /\ x[1] = "value" /\ x[2] = i /\ x[3] = depth
  BY DEF Call
<1>2. Skip(b)[x] = SkipBy(Skip(b), b, x) /\ Skip(b)[x] \in Behind(b, x)
  BY <1>1, SkipRange
<1> HIDE DEF x
<1> QED
  BY <1>1, <1>2 DEF SkipBy, Behind, x

LEMMA SkipsElements ==
  ASSUME NEW b \in Seq(Token), NEW i \in 1 .. Len(b) + 1, NEW depth \in 0 .. MaxDepth + 1,
         NEW close \in {"rbrace", "rbracket"}
  PROVE  /\ Skip(b)[<<close, i, depth>>] = SkipElementsBy(Skip(b), b, i, depth, close)
         /\ Skip(b)[<<close, i, depth>>] \in {0} \cup (i + 1 .. Len(b) + 1)
<1> DEFINE x == <<close, i, depth>>
<1>1. x \in Call(b) /\ x[1] = close /\ x[2] = i /\ x[3] = depth /\ x[1] # "value"
  BY DEF Call
<1>2. Skip(b)[x] = SkipBy(Skip(b), b, x) /\ Skip(b)[x] \in Behind(b, x)
  BY <1>1, SkipRange
<1> HIDE DEF x
<1> QED
  BY <1>1, <1>2 DEF SkipBy, Behind, x

\* White space behind a value may be taken with it.
LEMMA Padded ==
  ASSUME NEW b \in Seq(Token), NEW i \in 1 .. Len(b) + 1, NEW j \in 1 .. Len(b) + 1,
         NEW l \in j .. Len(b) + 1, NEW depth \in 0 .. MaxDepth + 1,
         Derives(b)[<<"value", i, j, depth>>], Gap(b, j, l)
  PROVE  Derives(b)[<<"value", i, l, depth>>]
<1>0. Len(b) \in Nat /\ l \in 1 .. Len(b) + 1
  OBVIOUS
<1>1. ValueBy(Derives(b), b, i, j, depth)
  BY DerivesValue
<1>2. ValueBy(Derives(b), b, i, l, depth)
  <2>1. PICK k \in i .. j - 1 :
          /\ depth <= MaxDepth
          /\ Gap(b, i, k)
          /\ \/ b[k] \in String \cup {"number", "literal"} /\ Gap(b, k + 1, j)
             \/ /\ b[k] \in DOMAIN Closing
                /\ \E m \in k + 1 .. j - 1 :
                     /\ b[m] = Closing[b[k]] /\ Gap(b, m + 1, j)
                     /\ Gap(b, k + 1, m) \/ Derives(b)[<<b[m], k + 1, m, depth + 1>>]
    BY <1>1 DEF ValueBy
  <2>2. k \in i .. l - 1 /\ k + 1 \in Nat /\ j \in Nat /\ l \in Nat
    BY <1>0
  <2>3. CASE b[k] \in String \cup {"number", "literal"} /\ Gap(b, k + 1, j)
    <3>1. Gap(b, k + 1, l)
      BY <2>2, <2>3, GapJoin
    <3> QED BY <2>1, <2>2, <2>3, <3>1 DEF ValueBy
  <2>4. ASSUME b[k] \in DOMAIN Closing,
               NEW m \in k + 1 .. j - 1, b[m] = Closing[b[k]], Gap(b, m + 1, j),
               Gap(b, k + 1, m) \/ Derives(b)[<<b[m], k + 1, m, depth + 1>>]
        PROVE  ValueBy(Derives(b), b, i, l, depth)
    <3>1. m \in k + 1 .. l - 1 /\ m + 1 \in Nat
      BY <1>0, <2>2
    <3>2. Gap(b, m + 1, l)
      BY <2>2, <2>4, <3>1, GapJoin
    <3> QED BY <2>1, <2>2, <2>4, <3>1, <3>2 DEF ValueBy
  <2> QED
    BY <2>1, <2>3, <2>4
<1> QED
  BY <1>0, <1>2, DerivesValue

-----------------------------------------------------------------------------
(* Soundness of the scanner. *)

\* What the scanner skips at x is a phrase of the grammar.
Sound(b, x) ==
  Skip(b)[x] # 0 =>
    IF x[1] = "value" THEN Derives(b)[<<"value", x[2], Skip(b)[x], x[3]>>]
    ELSE /\ b[Skip(b)[x] - 1] = x[1]
         /\ Derives(b)[<<x[1], x[2], Skip(b)[x] - 1, x[3]>>]

\* Soundness of a call, from that of the calls it makes.
LEMMA SoundStep ==
  ASSUME NEW b \in Seq(Token), NEW x \in Call(b),
         \A y \in Call(b) : CallSize(b, y) < CallSize(b, x) => Sound(b, y)
  PROVE  Sound(b, x)
<1>0. Len(b) \in Nat /\ MaxDepth \in Nat
  BY JsonAssumption
<1> DEFINE i == x[2]
           depth == x[3]
<1>1. /\ i \in 1 .. Len(b) + 1 /\ depth \in 0 .. MaxDepth + 1
      /\ x[1] \in {"value", "rbrace", "rbracket"} /\ x = <<x[1], i, depth>>
  BY DEF Call
<1>2. CASE x[1] = "value"
  <2> DEFINE k == Blank(b, i)
             j == Skip(b)[x]
  <2> SUFFICES ASSUME j # 0 PROVE ValueBy(Derives(b), b, i, j, depth)
    <3>1. j # 0 => j \in 1 .. Len(b) + 1
      BY <1>0, <1>1, <1>2, SkipsValue
    <3>2. j # 0 => Derives(b)[<<"value", i, j, depth>>]
      BY <1>1, <3>1, DerivesValue
    <3> QED BY <1>2, <3>2 DEF Sound
  <2>1. k \in 1 .. Len(b) + 1 /\ i \in 1 .. k /\ Gap(b, i, k)
    BY <1>0, <1>1, BlankFact
  <2>2. /\ j = SkipValueBy(Skip(b), b, i, depth) 
        /\ j \in i + 1 .. Len(b) + 1
    BY <1>1, <1>2, SkipsValue
  <2>3. j = ValueAt(Skip(b), b, k, depth)
    <3> HIDE DEF i, j, depth
    <3>1. k = Blank(b, i)
      OBVIOUS
    <3> HIDE DEF k
    <3>2. /\ k \in 1 .. Len(b) + 1 /\ i \in 1 .. k /\ depth \in 0 .. MaxDepth + 1
      BY <1>1, <2>1
    <3>3. \A skip : SkipValueBy(skip, b, i, depth) = ValueAt(skip, b, k, depth)
      BY <3>1, <3>2, ValueToken
    <3> QED BY <2>2, <3>3
  <2> HIDE DEF j, k, i, depth
  <2>4. depth <= MaxDepth /\ k <= Len(b) /\ k \in Nat /\ k + 1 \in 1 .. Len(b) + 1
    BY <1>0, <1>1, <2>1, <2>3, SMTT(40) DEF ValueAt
  <2>5. CASE b[k] \in String \cup {"literal", "number"}
    <3>1. j = k + 1
      BY <2>3, <2>5, ClosingFact DEF ValueAt
    <3>2. k \in i .. j - 1 /\ Gap(b, k + 1, j)
      BY <2>1, <2>4, <3>1, GapEmpty
    <3> QED BY <2>1, <2>4, <2>5, <3>2 DEF ValueBy
  <2>6. CASE b[k] \in DOMAIN Closing /\ b[k] \notin String \cup {"literal", "number"}
    <3> DEFINE close == Closing[b[k]]
    <3>1. close \in Token /\ close \in {"rbrace", "rbracket"} /\ close # "value"
      BY <2>6, ClosingFact DEF Token, Punctuation
    <3>2. CASE Consume(b, k + 1, close) # 0
      <4>1. PICK l \in k + 1 .. Len(b) :
              Gap(b, k + 1, l) /\ b[l] = close /\ Consume(b, k + 1, close) = l + 1
        BY <2>4, <3>1, <3>2, ConsumeFact
      <4>2. j = l + 1
        BY <2>3, <2>4, <2>6, <3>2, <4>1 DEF ValueAt
      <4>3. /\ l \in k + 1 .. j - 1 /\ Gap(b, l + 1, j) /\ k \in i .. j - 1
        BY <2>1, <2>4, <4>1, <4>2, GapEmpty
      <4> QED BY <2>1, <2>4, <2>6, <4>1, <4>3 DEF ValueBy
    <3>3. CASE Consume(b, k + 1, close) = 0
      <4> DEFINE y == <<close, k + 1, depth + 1>>
      <4>1. j = Skip(b)[y]
        BY <2>3, <2>4, <2>6, <3>3 DEF ValueAt
      <4>2. /\ y \in Call(b) /\ y[1] # "value" /\ y[2] = k + 1 /\ y[3] = depth + 1 
            /\ depth + 1 \in 0 .. MaxDepth + 1
        BY <1>0, <1>1, <2>4, <3>1 DEF Call
      <4> HIDE DEF y
      <4>3. CallSize(b, y) < CallSize(b, x)
        <5>1. CallSize(b, y) = 2 * (Len(b) + 1 - (k + 1)) + 1
          BY <1>0, <2>4, <4>2 DEF CallSize
        <5>2. CallSize(b, x) = 2 * (Len(b) + 1 - i)
          BY <1>0, <1>1, <1>2 DEF CallSize, i
        <5> QED BY <1>0, <1>1, <2>1, <5>1, <5>2, SMTT(40)
      <4>4. Sound(b, y)
        BY <4>2, <4>3
      <4>5. b[j - 1] = close /\ Derives(b)[<<close, k + 1, j - 1, depth + 1>>]
        BY <2>2, <4>1, <4>2, <4>4, <1>0, <1>1 DEF Sound, y
      <4>6. j \in k + 2 .. Len(b) + 1
        <5> HIDE DEF close
        <5>1. Skip(b)[y] \in {0} \cup ((k + 1) + 1 .. Len(b) + 1)
          BY <2>4, <3>1, <4>2, SkipsElements DEF y
        <5> QED BY <1>0, <1>1, <2>2, <2>4, <4>1, <5>1, SMTT(40)
      <4> DEFINE l == j - 1
      <4>7. l \in k + 1 .. j - 1 /\ Gap(b, l + 1, j) /\ k \in i .. j - 1
        BY <1>0, <1>1, <2>1, <2>4, <4>6, GapEmpty, SMTT(40)
      <4>8. b[l] = close /\ Derives(b)[<<b[l], k + 1, l, depth + 1>>]
        BY <4>5
      <4> HIDE DEF l
      <4> QED BY <2>1, <2>4, <2>6, <4>7, <4>8 DEF ValueBy
    <3> QED BY <3>2, <3>3
  <2>7. b[k] \in String \cup {"literal", "number"} \cup DOMAIN Closing
    BY <2>2, <2>3, <1>1, <1>0 DEF ValueAt
  <2> QED
    BY <2>5, <2>6, <2>7
<1>3. CASE x[1] # "value"
  <2> DEFINE close == x[1]
             j == Skip(b)[x]
             value == IF close = "rbrace" THEN SkipKey(b, i) ELSE i
             y == <<"value", value, depth>>
             after == IF value = 0 THEN 0 ELSE Skip(b)[y]
  <2>0. close \in {"rbrace", "rbracket"} /\ x = <<close, i, depth>>
    BY <1>1, <1>3
  <2>1. j = SkipElementsBy(Skip(b), b, i, depth, close) /\ j \in {0} \cup (i + 1 .. Len(b) + 1)
    <3> HIDE DEF i, depth, close
    <3>1. /\ Skip(b)[<<close, i, depth>>] = SkipElementsBy(Skip(b), b, i, depth, close)
          /\ Skip(b)[<<close, i, depth>>] \in {0} \cup (i + 1 .. Len(b) + 1)
      BY <1>1, <2>0, SkipsElements
    <3> QED BY <2>0, <3>1
  <2> SUFFICES ASSUME j # 0
               PROVE  b[j - 1] = close /\ ElementsBy(Derives(b), b, i, j - 1, depth, close)
    <3>1. j # 0 => j - 1 \in 1 .. Len(b) + 1
      BY <1>0, <1>1, <2>1
    <3>2. j # 0 => Derives(b)[<<close, i, j - 1, depth>>]
      BY <1>1, <2>0, <3>1, DerivesElements
    <3> QED BY <1>3, <3>2 DEF Sound
  <2>2. j = IF after = 0 THEN 0
            ELSE IF Consume(b, after, close) # 0 THEN Consume(b, after, close)
            ELSE IF Consume(b, after, "comma") = 0 THEN 0
            ELSE Skip(b)[<<close, Consume(b, after, "comma"), depth>>]
    BY <2>1 DEF SkipElementsBy
  <2>3. after # 0 /\ value # 0
    BY <2>2
  <2>4. /\ value \in i .. Len(b) + 1
        /\ \/ close = "rbracket" /\ value = i
           \/ close = "rbrace" /\ value - 1 \in i .. Len(b) /\ IsKey(b, i, value - 1)
    <3>1. SkipKey(b, i) # 0 =>
            \E c \in i + 1 .. Len(b) : IsKey(b, i, c) /\ SkipKey(b, i) = c + 1
      BY <1>1, KeyFact
    <3>2. \A c \in i + 1 .. Len(b) : c + 1 - 1 = c /\ c + 1 \in i .. Len(b) + 1
      BY <1>0, <1>1
    <3> HIDE DEF i
    <3> QED BY <1>0, <1>1, <2>0, <2>3, <3>1, <3>2
  <2>5. after = Skip(b)[y]
    BY <2>3
  <2> HIDE DEF value, after
  <2>6. y \in Call(b) /\ y[1] = "value" /\ y[2] = value /\ y[3] = depth
    BY <1>0, <1>1, <2>4 DEF Call
  <2>7. after \in value + 1 .. Len(b) + 1
    BY <1>0, <1>1, <2>3, <2>4, <2>5, SkipsValue, SMTT(40)
  <2>8. CallSize(b, x) = 2 * (Len(b) + 1 - i) + 1
    BY <1>0, <1>1, <1>3 DEF CallSize
  <2> HIDE DEF i, depth, y
  <2>9. Derives(b)[<<"value", value, after, depth>>]
    <3>1. CallSize(b, y) = 2 * (Len(b) + 1 - value)
      BY <1>0, <1>1, <2>4, <2>6 DEF CallSize
    <3>2. CallSize(b, y) < CallSize(b, x)
      BY <1>0, <1>1, <2>4, <2>8, <3>1, SMTT(40)
    <3> QED BY <2>3, <2>5, <2>6, <3>2 DEF Sound
  <2>10. ASSUME NEW l \in after .. Len(b), Gap(b, after, l)
         PROVE  /\ l \in i .. Len(b)
                /\ \/ close = "rbracket" /\ Derives(b)[<<"value", i, l, depth>>]
                   \/ close = "rbrace" /\ \E c \in i .. l - 1 : /\ IsKey(b, i, c)
                                                           /\ Derives(b)[<<"value", c + 1, l, depth>>]
    <3>1. value \in 1 .. Len(b) + 1 /\ after \in 1 .. Len(b) + 1 /\ l \in after .. Len(b) + 1
      BY <1>0, <1>1, <2>4, <2>7, <2>10, SMTT(40)
    <3>2. Derives(b)[<<"value", value, l, depth>>]
      BY <1>1, <2>9, <2>10, <3>1, Padded
    <3>3. l \in i .. Len(b)
      BY <1>0, <1>1, <2>4, <2>7, <2>10
    <3>4. CASE close = "rbracket" /\ value = i
      BY <3>2, <3>3, <3>4
    <3>5. CASE close = "rbrace" /\ value - 1 \in i .. Len(b) /\ IsKey(b, i, value - 1)
      <4> DEFINE c == value - 1
      <4>1. c \in i .. l - 1 /\ c + 1 = value
        BY <1>0, <1>1, <2>4, <2>7, <2>10, <3>5, SMTT(40)
      <4> HIDE DEF c
      <4>2. IsKey(b, i, c)
        BY <3>5 DEF c
      <4> QED BY <3>2, <3>3, <3>5, <4>1, <4>2
    <3> QED BY <2>4, <3>4, <3>5
  <2>11. CASE Consume(b, after, close) # 0
    <3>1. after \in 1 .. Len(b) + 1 /\ close \in Token
      BY <1>0, <1>1, <2>0, <2>4, <2>7 DEF Token, Punctuation
    <3>2. PICK l \in after .. Len(b) :
            Gap(b, after, l) /\ b[l] = close /\ Consume(b, after, close) = l + 1
      BY <2>11, <3>1, ConsumeFact
    <3>3. j = l + 1
      BY <2>2, <2>3, <2>11, <3>2
    <3> HIDE DEF close, j
    <3>4. l \in i .. Len(b)
      BY <2>10, <3>2
    <3>5. j - 1 = l /\ l \in i .. l
      BY <1>0, <1>1, <3>1, <3>3, <3>4
    <3> QED BY <2>10, <3>2, <3>5 DEF ElementsBy
  <2>12. CASE Consume(b, after, close) = 0
    <3>1. /\ Consume(b, after, "comma") # 0
          /\ j = Skip(b)[<<close, Consume(b, after, "comma"), depth>>]
      BY <2>2, <2>3, <2>12
    <3>2. after \in 1 .. Len(b) + 1 /\ "comma" \in Token
      BY <1>0, <1>1, <2>4, <2>7 DEF Token, Punctuation
    <3>3. PICK l \in after .. Len(b) :
            Gap(b, after, l) /\ b[l] = "comma" /\ Consume(b, after, "comma") = l + 1
      BY <3>1, <3>2, ConsumeFact
    <3>10. l \in i .. Len(b) /\ l + 1 \in 1 .. Len(b) + 1
      <4>1. l \in i .. Len(b)
        BY <2>10, <3>3
      <4> QED BY <1>0, <1>1, <4>1
    <3> DEFINE z == <<close, l + 1, depth>>
    <3>4. z \in Call(b) /\ z[1] = close /\ z[2] = l + 1 /\ z[3] = depth /\ j = Skip(b)[z]
      BY <1>1, <2>0, <3>1, <3>3, <3>10 DEF Call
    <3>5. j \in l + 2 .. Len(b) + 1
      <4> HIDE DEF close, j
      <4>1. Skip(b)[<<close, l + 1, depth>>] \in {0} \cup ((l + 1) + 1 .. Len(b) + 1)
        BY <1>1, <2>0, <3>10, SkipsElements
      <4>2. j \in i + 1 .. Len(b) + 1
        BY <2>1
      <4> QED BY <1>0, <1>1, <3>4, <3>10, <4>1, <4>2
    <3> HIDE DEF z, close, j
    <3>6. CallSize(b, z) < CallSize(b, x)
      <4>1. CallSize(b, z) = 2 * (Len(b) + 1 - (l + 1)) + 1
        BY <1>0, <2>0, <3>4, <3>10 DEF CallSize
      <4>2. i \in Nat /\ l \in Nat /\ i <= l
        BY <1>0, <1>1, <3>10
      <4> QED BY <1>0, <2>8, <4>1, <4>2
    <3>7. b[j - 1] = close /\ Derives(b)[<<close, l + 1, j - 1, depth>>]
      BY <2>0, <3>4, <3>5, <3>6 DEF Sound
    <3>8. l \in i .. j - 1 /\ l < j - 1
      BY <1>0, <1>1, <3>5, <3>10
    <3> DEFINE m == j - 1
    <3> HIDE DEF m
    <3>9. ElementsBy(Derives(b), b, i, m, depth, close)
      BY <2>10, <3>3, <3>7, <3>8 DEF ElementsBy, m
    <3> QED BY <3>7, <3>9 DEF m
  <2> QED
    BY <2>11, <2>12
<1> QED
  BY <1>2, <1>3

\* Whatever skipValue, skipObject and skipArray skip is of the grammar.
LEMMA SkipSound ==
  ASSUME NEW b \in Seq(Token), NEW x \in Call(b)
  PROVE  Sound(b, x)
<1> DEFINE T == {n \in Nat : \A y \in Call(b) : CallSize(b, y) = n => Sound(b, y)}
<1>1. ASSUME NEW n \in Nat, \A m \in Nat : m < n => m \in T PROVE n \in T
  <2> SUFFICES ASSUME NEW y \in Call(b), CallSize(b, y) = n PROVE Sound(b, y)
    OBVIOUS
  <2>1. \A z \in Call(b) : CallSize(b, z) < CallSize(b, y) => Sound(b, z)
    BY <1>1, CallSizeFact
  <2> QED BY <2>1, SoundStep
<1>2. \A n \in Nat : n \in T
  <2> HIDE DEF T
  <2> QED BY <1>1, Induct
<1> QED
  BY <1>2, CallSizeFact

-----------------------------------------------------------------------------
(* Completeness of the scanner. *)

\* The first token of a value, and of the elements of a container.
LEMMA ValueStart ==
  ASSUME NEW b \in Seq(Token), NEW i \in 1 .. Len(b) + 1, NEW j \in 1 .. Len(b) + 1,
         NEW depth \in 0 .. MaxDepth + 1, Derives(b)[<<"value", i, j, depth>>]
  PROVE  \E k \in i .. j - 1 :
           Gap(b, i, k) /\ b[k] \in String \cup {"number", "literal"} \cup DOMAIN Closing
  BY DerivesValue DEF ValueBy

LEMMA ElementsStart ==
  ASSUME NEW b \in Seq(Token), NEW i \in 1 .. Len(b) + 1, NEW j \in 1 .. Len(b) + 1,
         NEW depth \in 0 .. MaxDepth + 1, NEW close \in {"rbrace", "rbracket"},
         Derives(b)[<<close, i, j, depth>>]
  PROVE  \E k \in i .. j - 1 :
           Gap(b, i, k) /\ b[k] \in String \cup {"number", "literal"} \cup DOMAIN Closing
<1>0. Len(b) \in Nat
  OBVIOUS
<1>1. ElementsBy(Derives(b), b, i, j, depth, close)
  BY DerivesElements
<1>2. PICK k \in i .. j :
        \/ close = "rbracket" /\ Derives(b)[<<"value", i, k, depth>>]
        \/ close = "rbrace" /\ \E c \in i .. k - 1 : IsKey(b, i, c)
  BY <1>1 DEF ElementsBy
<1>3. CASE Derives(b)[<<"value", i, k, depth>>]
  <2>1. k \in 1 .. Len(b) + 1
    BY <1>0
  <2>2. PICK m \in i .. k - 1 :
          Gap(b, i, m) /\ b[m] \in String \cup {"number", "literal"} \cup DOMAIN Closing
    BY <1>3, <2>1, ValueStart
  <2>3. m \in i .. j - 1
    BY <1>0
  <2> QED BY <2>2, <2>3
<1>4. ASSUME NEW c \in i .. k - 1, IsKey(b, i, c)
      PROVE \E m \in i .. j - 1 :
              Gap(b, i, m) /\ b[m] \in String \cup {"number", "literal"} \cup DOMAIN Closing
  <2>1. PICK s \in i .. c - 1 : Gap(b, i, s) /\ b[s] \in String
    BY <1>4 DEF IsKey
  <2>2. s \in i .. j - 1
    BY <1>0, <1>4
  <2> QED BY <2>1, <2>2
<1> QED
  BY <1>2, <1>3, <1>4

\* A phrase starts with no separator.
LEMMA NotStart ==
  \A t \in String \cup {"number", "literal"} \cup DOMAIN Closing :
    t \notin {"blank", "comma", "colon", "rbrace", "rbracket"}
  BY StringsApart, ClosingFact DEF Punctuation

\* The scanner skips every phrase of the grammar, as far as it goes.
Complete(b, x) ==
  Derives(b)[x] =>
    IF x[1] = "value"
    THEN Delimited(b, x[3]) =>
           \E e \in x[2] + 1 .. x[3] :
             Skip(b)[<<"value", x[2], x[4]>>] = e /\ Gap(b, e, x[3])
    ELSE x[3] <= Len(b) /\ b[x[3]] = x[1] =>
           Skip(b)[<<x[1], x[2], x[4]>>] = x[3] + 1

\* Completeness for a phrase, from that for shorter ones.
LEMMA CompleteStep ==
  ASSUME NEW b \in Seq(Token), NEW x \in Phrase(b),
         \A y \in Phrase(b) : PhraseSize(b, y) < PhraseSize(b, x) => Complete(b, y)
  PROVE  Complete(b, x)
<1>0. Len(b) \in Nat /\ MaxDepth \in Nat
  BY JsonAssumption
<1> DEFINE i == x[2]
           j == x[3]
           depth == x[4]
<1>1. /\ i \in 1 .. Len(b) + 1 /\ j \in 1 .. Len(b) + 1 /\ depth \in 0 .. MaxDepth + 1
      /\ x[1] \in {"value", "rbrace", "rbracket"} /\ x = <<x[1], i, j, depth>>
  BY DEF Phrase
<1>2. CASE x[1] = "value"
  <2> SUFFICES ASSUME Derives(b)[<<"value", i, j, depth>>], Delimited(b, j)
               PROVE  \E e \in i + 1 .. j :
                        Skip(b)[<<"value", i, depth>>] = e /\ Gap(b, e, j)
    BY <1>1, <1>2 DEF Complete
  <2>0. PhraseSize(b, x) = 2 * (Len(b) + 1 - i + j)
    BY <1>2, <1>0, <1>1 DEF PhraseSize
  <2> HIDE DEF i, j, depth
  <2>1. PICK k \in i .. j - 1 :
          /\ depth <= MaxDepth
          /\ Gap(b, i, k)
          /\ \/ b[k] \in String \cup {"number", "literal"} /\ Gap(b, k + 1, j)
             \/ /\ b[k] \in DOMAIN Closing
                /\ \E l \in k + 1 .. j - 1 :
                     /\ b[l] = Closing[b[k]] /\ Gap(b, l + 1, j)
                     /\ Gap(b, k + 1, l) \/ Derives(b)[<<b[l], k + 1, l, depth + 1>>]
    BY <1>1, DerivesValue DEF ValueBy
  <2>2. /\ k \in 1 .. Len(b) + 1 /\ i \in 1 .. k /\ k <= Len(b) /\ k + 1 \in 1 .. Len(b) + 1
        /\ k \in i .. Len(b) + 1 /\ k + 1 \in i + 1 .. j /\ k \in Nat
    BY <1>0, <1>1, SMTT(40)
  <2>3. k = Blank(b, i)
    <3>1. b[k] # "blank"
      BY <2>1, NotStart
    <3> QED BY <1>1, <2>1, <2>2, <3>1, BlankIs
  <2>4. Skip(b)[<<"value", i, depth>>] =
          IF b[k] \in String \cup {"literal"} THEN k + 1
          ELSE IF b[k] = "number" THEN IF Delimited(b, k + 1) THEN k + 1 ELSE 0
          ELSE IF b[k] \notin DOMAIN Closing THEN 0
          ELSE IF Consume(b, k + 1, Closing[b[k]]) # 0 THEN Consume(b, k + 1, Closing[b[k]])
          ELSE Skip(b)[<<Closing[b[k]], k + 1, depth + 1>>]
    <3>1. \A skip : SkipValueBy(skip, b, i, depth) = ValueAt(skip, b, k, depth)
      <4>1. k \in 1 .. Len(b) + 1 /\ i \in 1 .. k /\ depth \in 0 .. MaxDepth + 1
        BY <1>1, <2>2
      <4> QED BY <2>3, <4>1, ValueToken
    <3>2. ~(depth > MaxDepth \/ k > Len(b))
      BY <1>0, <1>1, <2>1, <2>2, SMTT(40)
    <3>3. Skip(b)[<<"value", i, depth>>] = SkipValueBy(Skip(b), b, i, depth)
      BY <1>1, SkipsValue
    <3> QED BY <3>1, <3>2, <3>3 DEF ValueAt
  <2>5. CASE b[k] \in String \cup {"number", "literal"} /\ Gap(b, k + 1, j)
    <3>1. b[k] = "number" => Delimited(b, k + 1)
      <4>1. CASE k + 1 = j
        BY <4>1
      <4>2. CASE k + 1 # j
        <5>1. k + 1 \in k + 1 .. j - 1
          BY <2>2, <4>2, <1>1, <1>0, SMTT(40)
        <5> QED BY <2>5, <5>1 DEF Gap, Delimited, Delimiter
      <4> QED BY <4>1, <4>2
    <3>2. Skip(b)[<<"value", i, depth>>] = k + 1
      BY <2>4, <2>5, <3>1
    <3> QED BY <2>2, <2>5, <3>2
  <2>6. ASSUME b[k] \in DOMAIN Closing,
               NEW l \in k + 1 .. j - 1, b[l] = Closing[b[k]], Gap(b, l + 1, j),
               Gap(b, k + 1, l) \/ Derives(b)[<<b[l], k + 1, l, depth + 1>>]
        PROVE  Skip(b)[<<"value", i, depth>>] = l + 1
    <3> DEFINE close == b[l]
    <3>1. close \in {"rbrace", "rbracket"} /\ close = Closing[b[k]] /\ close # "blank"
      BY <2>6, ClosingFact
    <3>2. /\ l \in k + 1 .. Len(b) /\ l \in 1 .. Len(b) + 1
          /\ depth + 1 \in 0 .. MaxDepth + 1
      <4>1. l \in k + 1 .. Len(b) /\ l \in 1 .. Len(b) + 1
        BY <1>0, <1>1, <2>2, SMTT(40)
      <4>2. depth \in Nat /\ depth <= MaxDepth
        BY <1>0, <1>1, <2>1
      <4> QED BY <1>0, <4>1, <4>2
    <3>3. Skip(b)[<<"value", i, depth>>] =
            IF Consume(b, k + 1, close) # 0 THEN Consume(b, k + 1, close)
            ELSE Skip(b)[<<close, k + 1, depth + 1>>]
      <4>1. b[k] \notin String \cup {"literal"} /\ b[k] # "number"
        BY <2>6, ClosingFact, StringsApart DEF Punctuation
      <4> HIDE DEF close
      <4> QED BY <2>4, <2>6, <3>1, <4>1
    <3>4. CASE Gap(b, k + 1, l)
      <4>1. Consume(b, k + 1, close) = l + 1
        BY <2>2, <3>1, <3>2, <3>4, ConsumeIs
      <4>2. l + 1 # 0
        BY <3>2, <2>2
      <4> HIDE DEF close
      <4> QED BY <3>3, <4>1, <4>2
    <3>5. CASE Derives(b)[<<close, k + 1, l, depth + 1>>]
      <4> DEFINE y == <<close, k + 1, l, depth + 1>>
      <4>1. PICK m \in k + 1 .. l - 1 :
              /\ Gap(b, k + 1, m)
              /\ b[m] \in String \cup {"number", "literal"} \cup DOMAIN Closing
        <5> HIDE DEF close
        <5> QED BY <2>2, <3>1, <3>2, <3>5, ElementsStart
      <4>2. Consume(b, k + 1, close) = 0
        <5>1. b[m] # "blank" /\ b[m] # close /\ m \in k + 1 .. Len(b)
          BY <3>1, <3>2, <4>1, NotStart, <1>0, <2>2, SMTT(40)
        <5> QED BY <2>2, <4>1, <5>1, ConsumeIs
      <4>3. /\ y \in Phrase(b) /\ y[1] = close /\ y[2] = k + 1 /\ y[3] = l
            /\ y[4] = depth + 1 /\ close # "value"
        BY <2>2, <3>1, <3>2 DEF Phrase
      <4> HIDE DEF y
      <4>4. PhraseSize(b, y) = 2 * (Len(b) + 1 - (k + 1) + l) + 1
        BY <4>3, <1>0, <2>2, <3>2 DEF PhraseSize
      <4>5. PhraseSize(b, y) < PhraseSize(b, x)
        <5>1. /\ i \in Nat /\ j \in Nat /\ k \in Nat /\ l \in Nat
              /\ i <= k /\ l < j
          <6>1. i \in Nat /\ j \in Nat /\ k \in Nat
            BY <1>0, <1>1, <2>2, SMTT(40)
          <6>2. i <= k
            BY <6>1
          <6>3. l \in Nat /\ l < j
            BY <3>2, <6>1
          <6> QED BY <6>1, <6>2, <6>3
        <5>2. 2 * (Len(b) + 1 - (k + 1) + l) + 1 < 2 * (Len(b) + 1 - i + j)
          BY <1>0, <5>1
        <5> QED BY <2>0, <4>4, <5>2
      <4>6. l <= Len(b) /\ b[l] = close
        BY <3>2, <2>2, <1>0
      <4>7. Complete(b, y) /\ Derives(b)[y]
        BY <3>5, <4>3, <4>5 DEF y
      <4>8. Skip(b)[<<close, k + 1, depth + 1>>] = l + 1
        BY <4>3, <4>6, <4>7 DEF Complete
      <4> HIDE DEF close
      <4> QED BY <3>3, <4>2, <4>8
    <3> QED BY <2>6, <3>4, <3>5
  <2>7. CASE b[k] \in DOMAIN Closing
    <3>1. b[k] \notin String \cup {"number", "literal"}
      BY <2>7, ClosingFact, StringsApart DEF Punctuation
    <3>2. PICK l \in k + 1 .. j - 1 :
                     /\ b[l] = Closing[b[k]] /\ Gap(b, l + 1, j)
                     /\ Gap(b, k + 1, l) \/ Derives(b)[<<b[l], k + 1, l, depth + 1>>]
      BY <2>1, <3>1
    <3>3. Skip(b)[<<"value", i, depth>>] = l + 1
      BY <2>6, <2>7, <3>2
    <3>4. l + 1 \in i + 1 .. j
      BY <1>0, <1>1, <2>2, SMTT(40)
    <3> QED BY <3>2, <3>3, <3>4
  <2> QED
    BY <2>1, <2>5, <2>7
<1>3. CASE x[1] # "value"
  <2> DEFINE close == x[1]
  <2> SUFFICES ASSUME Derives(b)[<<close, i, j, depth>>], j <= Len(b), b[j] = close
               PROVE  Skip(b)[<<close, i, depth>>] = j + 1
    BY <1>1, <1>3 DEF Complete
  <2>0. PhraseSize(b, x) = 2 * (Len(b) + 1 - i + j) + 1
    BY <1>3, <1>0, <1>1 DEF PhraseSize
  <2>1. close \in {"rbrace", "rbracket"} /\ close # "blank" /\ close # "comma"
    BY <1>1, <1>3
  <2> HIDE DEF i, j, depth, close
  <2>2. PICK k \in i .. j :
          /\ \/ close = "rbracket" /\ Derives(b)[<<"value", i, k, depth>>]
             \/ close = "rbrace" /\ \E c \in i .. k - 1 : /\ IsKey(b, i, c)
                                                     /\ Derives(b)[<<"value", c + 1, k, depth>>]
          /\ k = j \/ (k < j /\ b[k] = "comma" /\ Derives(b)[<<close, k + 1, j, depth>>])
    <3>1. ElementsBy(Derives(b), b, i, j, depth, close)
      BY <1>1, <2>1, DerivesElements
    <3> QED BY <3>1 DEF ElementsBy
  <2> DEFINE value == IF close = "rbrace" THEN SkipKey(b, i) ELSE i
  <2>3. value \in i .. k /\ Derives(b)[<<"value", value, k, depth>>]
    <3>1. CASE close = "rbracket"
      BY <1>0, <1>1, <2>2, <3>1
    <3>2. CASE close = "rbrace"
      <4>1. PICK c \in i .. k - 1 : IsKey(b, i, c) /\ Derives(b)[<<"value", c + 1, k, depth>>]
        BY <2>2, <3>2
      <4>2. c \in i .. Len(b) /\ c + 1 \in i .. k
        BY <1>0, <1>1, SMTT(40)
      <4>3. SkipKey(b, i) = c + 1
        BY <1>1, <4>1, <4>2, KeyIs
      <4> QED BY <3>2, <4>1, <4>2, <4>3
    <3> QED BY <2>1, <3>1, <3>2
  <2>4. k \in 1 .. Len(b) + 1 /\ value \in 1 .. Len(b) + 1 /\ k <= Len(b) /\ value # 0
    BY <1>0, <1>1, <2>3, SMTT(40)
  <2>5. Delimited(b, k) /\ b[k] # "blank" 
    BY <2>1, <2>2 DEF Delimited, Delimiter
  <2> DEFINE after == Skip(b)[<<"value", value, depth>>]
  <2>6. after \in value + 1 .. k /\ Gap(b, after, k)
    <3> DEFINE y == <<"value", value, k, depth>>
    <3> HIDE DEF value
    <3>1. y \in Phrase(b) /\ y[1] = "value" /\ y[2] = value /\ y[3] = k /\ y[4] = depth
      BY <1>1, <2>4 DEF Phrase
    <3> HIDE DEF y
    <3>2. PhraseSize(b, y) = 2 * (Len(b) + 1 - value + k)
      BY <1>0, <2>4, <3>1 DEF PhraseSize
    <3>3. PhraseSize(b, y) < PhraseSize(b, x)
      <4>1. i \in Nat /\ j \in Nat /\ k \in Nat /\ value \in Nat /\ i <= value /\ k <= j
        BY <1>1, <2>3, <2>4
      <4>2. 2 * (Len(b) + 1 - value + k) < 2 * (Len(b) + 1 - i + j) + 1
        BY <1>0, <4>1
      <4> QED BY <2>0, <3>2, <4>2, Zenon
    <3>4. Complete(b, y) /\ Derives(b)[y]
      BY <2>3, <3>1, <3>3 DEF y
    <3>5. PICK e \in value + 1 .. k : Skip(b)[<<"value", value, depth>>] = e /\ Gap(b, e, k)
      BY <2>5, <3>1, <3>4 DEF Complete
    <3> QED BY <3>5
  <2>7. Skip(b)[<<close, i, depth>>] =
          IF after = 0 THEN 0
          ELSE IF Consume(b, after, close) # 0 THEN Consume(b, after, close)
          ELSE IF Consume(b, after, "comma") = 0 THEN 0
          ELSE Skip(b)[<<close, Consume(b, after, "comma"), depth>>]
    <3>1. Skip(b)[<<close, i, depth>>] = SkipElementsBy(Skip(b), b, i, depth, close)
      BY <1>1, <2>1, SkipsElements
    <3> QED BY <2>4, <3>1 DEF SkipElementsBy
  <2> HIDE DEF value, after
  <2>8. after \in 1 .. Len(b) + 1 /\ k \in after .. Len(b) /\ after # 0 /\ k + 1 # 0
    BY <1>0, <1>1, <2>3, <2>4, <2>6, SMTT(40)
  <2>9. CASE k = j
    <3>1. Consume(b, after, close) = j + 1
      BY <2>5, <2>6, <2>8, <2>9, ConsumeIs
    <3> QED BY <2>7, <2>8, <2>9, <3>1
  <2>10. CASE k < j /\ b[k] = "comma" /\ Derives(b)[<<close, k + 1, j, depth>>]
    <3>1. Consume(b, after, close) = 0
      BY <2>1, <2>5, <2>6, <2>8, <2>10, ConsumeIs
    <3>2. Consume(b, after, "comma") = k + 1
      BY <2>5, <2>6, <2>8, <2>10, ConsumeIs
    <3> DEFINE y == <<close, k + 1, j, depth>>
    <3>3. y \in Phrase(b) /\ y[1] = close /\ y[2] = k + 1 /\ y[3] = j /\ y[4] = depth
      BY <1>0, <1>1, <2>1, <2>4, SMTT(40) DEF Phrase
    <3> HIDE DEF y
    <3>4. PhraseSize(b, y) = 2 * (Len(b) + 1 - (k + 1) + j) + 1
      BY <1>0, <1>1, <2>1, <2>4, <3>3 DEF PhraseSize
    <3>5. i \in Nat /\ j \in Nat /\ k \in Nat /\ i <= k
      BY <1>1, <1>0
    <3>6. PhraseSize(b, y) < PhraseSize(b, x)
      <4>1. 2 * (Len(b) + 1 - (k + 1) + j) + 1 < 2 * (Len(b) + 1 - i + j) + 1
        BY <1>0, <3>5
      <4> QED BY <2>0, <3>4, <4>1, Zenon
    <3>7. Complete(b, y) /\ Derives(b)[y] /\ close # "value"
      BY <2>1, <2>10, <3>3, <3>6 DEF y
    <3>8. Skip(b)[<<close, k + 1, depth>>] = j + 1
      BY <3>3, <3>7 DEF Complete
    <3> QED BY <2>7, <2>8, <3>1, <3>2, <3>8
  <2> QED
    BY <2>2, <2>9, <2>10
<1> QED
  BY <1>2, <1>3

\* Whatever is of the grammar is skipped.
LEMMA SkipComplete ==
  ASSUME NEW b \in Seq(Token), NEW x \in Phrase(b)
  PROVE  Complete(b, x)
<1> DEFINE T == {n \in Nat : \A y \in Phrase(b) : PhraseSize(b, y) = n => Complete(b, y)}
<1>1. ASSUME NEW n \in Nat, \A m \in Nat : m < n => m \in T PROVE n \in T
  <2> SUFFICES ASSUME NEW y \in Phrase(b), PhraseSize(b, y) = n PROVE Complete(b, y)
    OBVIOUS
  <2>1. \A z \in Phrase(b) : PhraseSize(b, z) < PhraseSize(b, y) => Complete(b, z)
    BY <1>1, PhraseFact
  <2> QED BY <2>1, CompleteStep
<1>2. \A n \in Nat : n \in T
  <2> HIDE DEF T
  <2> QED BY <1>1, Induct
<1> QED
  BY <1>2, PhraseFact

-----------------------------------------------------------------------------
(* How many containers a token is in. *)

Count(b, i, S) == Cardinality({k \in 1 .. i - 1 : b[k] \in S})

\* Counting tokens, one at a time.
LEMMA CountStep ==
  ASSUME NEW b, NEW i \in Nat \ {0}, NEW S
  PROVE  /\ Count(b, i, S) \in Nat
         /\ Count(b, i + 1, S) = Count(b, i, S) + (IF b[i] \in S THEN 1 ELSE 0)
<1> DEFINE C(n) == {k \in 1 .. n - 1 : b[k] \in S}
<1>1. IsFiniteSet(C(i)) /\ Cardinality(C(i)) \in Nat
  <2>1. IsFiniteSet(1 .. i - 1)
    BY FS_Interval
  <2>2. C(i) \subseteq 1 .. i - 1
    OBVIOUS
  <2> QED BY <2>1, <2>2, FS_Subset, FS_CardinalityType
<1>2. i \notin C(i)
  OBVIOUS
<1>3. C(i + 1) = IF b[i] \in S THEN C(i) \cup {i} ELSE C(i)
  <2>1. 1 .. (i + 1) - 1 = (1 .. i - 1) \cup {i}
    OBVIOUS
  <2> QED BY <2>1
<1> HIDE DEF C
<1>4. Cardinality(C(i) \cup {i}) = Cardinality(C(i)) + 1
  BY <1>1, <1>2, FS_AddElement
<1>5. Cardinality(C(i + 1)) = Cardinality(C(i)) + (IF b[i] \in S THEN 1 ELSE 0)
  BY <1>1, <1>3, <1>4
<1> QED
  BY <1>1, <1>5 DEF Count, C

\* The number of containers around the next token.
LEMMA EnclosingStep ==
  ASSUME NEW b, NEW i \in Nat \ {0}
  PROVE  /\ Enclosing(b, i) \in Int
         /\ Enclosing(b, i + 1) = Enclosing(b, i)
                                  + (IF b[i] \in DOMAIN Closing THEN 1
                                     ELSE IF b[i] \in {"rbrace", "rbracket"} THEN -1 ELSE 0)
<1> DEFINE up(n) == Count(b, n, {"lbrace", "lbracket"})
           down(n) == Count(b, n, {"rbrace", "rbracket"})
<1>1. \A n : Enclosing(b, n) = up(n) - down(n)
  BY DEF Enclosing, Count
<1>2. /\ up(i) \in Nat /\ down(i) \in Nat
      /\ up(i + 1) = up(i) + (IF b[i] \in {"lbrace", "lbracket"} THEN 1 ELSE 0)
      /\ down(i + 1) = down(i) + (IF b[i] \in {"rbrace", "rbracket"} THEN 1 ELSE 0)
  BY CountStep
<1> HIDE DEF up, down
<1> QED
  BY <1>1, <1>2, ClosingFact

\* The first token is in none.
LEMMA EnclosingFirst ==
  ASSUME NEW b
  PROVE  Enclosing(b, 1) = 0
<1>1. \A S : {k \in 1 .. 0 : b[k] \in S} = {}
  OBVIOUS
<1>2. Cardinality({}) = 0
  BY FS_EmptySet
<1> QED
  BY <1>1, <1>2 DEF Enclosing

\* From i to j every bracket is opened and closed.
Balanced(b, i, j) ==
  /\ Enclosing(b, j) = Enclosing(b, i)
  /\ \A p \in i .. j : Enclosing(b, p) >= Enclosing(b, i)

\* It stays the same where there are no brackets.
LEMMA LevelKept ==
  ASSUME NEW b, NEW i \in Nat \ {0}, NEW j \in Nat, i <= j,
         \A p \in i .. j - 1 : b[p] \notin DOMAIN Closing \cup {"rbrace", "rbracket"}
  PROVE  \A p \in i .. j : Enclosing(b, p) = Enclosing(b, i)
<1> DEFINE T == {n \in Nat : i + n <= j => Enclosing(b, i + n) = Enclosing(b, i)}
<1>1. ASSUME NEW n \in Nat, \A m \in Nat : m < n => m \in T PROVE n \in T
  <2>1. CASE n = 0
    BY <2>1
  <2>2. CASE n # 0
    <3> SUFFICES ASSUME i + n <= j PROVE Enclosing(b, i + n) = Enclosing(b, i)
      OBVIOUS
    <3>1. n - 1 \in Nat /\ n - 1 < n /\ i + (n - 1) <= j /\ i + (n - 1) \in i .. j - 1
      BY <2>2
    <3>2. Enclosing(b, i + (n - 1)) = Enclosing(b, i)
      BY <1>1, <3>1
    <3> DEFINE p == i + (n - 1)
    <3>3. p \in Nat \ {0} /\ p + 1 = i + n /\ b[p] \notin DOMAIN Closing \cup {"rbrace", "rbracket"}
      BY <3>1
    <3>4. Enclosing(b, p) = Enclosing(b, i)
      BY <3>2
    <3> HIDE DEF p
    <3>5. Enclosing(b, p) \in Int /\ Enclosing(b, p + 1) = Enclosing(b, p) + 0
      BY <3>3, EnclosingStep
    <3> QED BY <3>3, <3>4, <3>5
  <2> QED BY <2>1, <2>2
<1>2. \A n \in Nat : n \in T
  <2> HIDE DEF T
  <2> QED BY <1>1, Induct
<1> TAKE p \in i .. j
<1>3. p - i \in Nat /\ i + (p - i) = p /\ i + (p - i) <= j
  OBVIOUS
<1> QED
  BY <1>2, <1>3

\* Balanced parts next to each other.
LEMMA BalancedJoin ==
  ASSUME NEW b, NEW i \in Nat \ {0}, NEW j \in Nat, NEW k \in Nat, i <= k, k <= j,
         Balanced(b, i, k), Balanced(b, k, j)
  PROVE  Balanced(b, i, j)
<1>1. \A p \in i .. j : p \in i .. k \/ p \in k .. j
  OBVIOUS
<1> QED
  BY <1>1 DEF Balanced

\* Without brackets, and around one pair of them.
LEMMA BalancedLevel ==
  ASSUME NEW b, NEW i \in Nat \ {0}, NEW j \in Nat, i <= j,
         \A p \in i .. j - 1 : b[p] \notin DOMAIN Closing \cup {"rbrace", "rbracket"}
  PROVE  Balanced(b, i, j)
<1>1. \A p \in i .. j : Enclosing(b, p) = Enclosing(b, i)
  BY LevelKept
<1>2. j \in i .. j /\ Enclosing(b, i) \in Int
  BY EnclosingStep
<1> QED
  BY <1>1, <1>2 DEF Balanced

LEMMA BalancedPair ==
  ASSUME NEW b, NEW k \in Nat \ {0}, NEW l \in Nat, k < l,
         b[k] \in DOMAIN Closing, b[l] \in {"rbrace", "rbracket"}, Balanced(b, k + 1, l)
  PROVE  /\ Balanced(b, k, l + 1)
         /\ \A p \in k + 1 .. l : Enclosing(b, p) > Enclosing(b, k)
<1>1. Enclosing(b, k) \in Int /\ Enclosing(b, k + 1) = Enclosing(b, k) + 1
  BY EnclosingStep
<1>2. b[l] \notin DOMAIN Closing /\ l \in Nat \ {0}
  BY ClosingFact
<1>3. Enclosing(b, l) \in Int /\ Enclosing(b, l + 1) = Enclosing(b, l) - 1
  <2>1. Enclosing(b, l) \in Int /\ Enclosing(b, l + 1) = Enclosing(b, l) + (-1)
    BY <1>2, EnclosingStep
  <2> QED BY <2>1
<1>4. Enclosing(b, l) = Enclosing(b, k + 1)
  BY DEF Balanced
<1>5. \A p \in k + 1 .. l : Enclosing(b, p) >= Enclosing(b, k + 1)
  BY DEF Balanced
<1>6. \A p \in k + 1 .. l : Enclosing(b, p) \in Int
  BY EnclosingStep
<1>7. \A p \in k + 1 .. l : Enclosing(b, p) > Enclosing(b, k)
  BY <1>1, <1>5, <1>6
<1>8. \A p \in k .. l + 1 : p = k \/ p = l + 1 \/ p \in k + 1 .. l
  OBVIOUS
<1>9. Enclosing(b, l + 1) = Enclosing(b, k)
  BY <1>1, <1>3, <1>4
<1>10. \A p \in k .. l + 1 : Enclosing(b, p) >= Enclosing(b, k)
  BY <1>1, <1>6, <1>7, <1>8, <1>9
<1> QED
  BY <1>7, <1>9, <1>10 DEF Balanced

\* A key has no brackets, and one colon, at its end.
LEMMA KeyLevel ==
  ASSUME NEW b, NEW i \in Nat \ {0}, NEW c \in Nat, i <= c, IsKey(b, i, c)
  PROVE  /\ \A p \in i .. c : b[p] \notin DOMAIN Closing \cup {"rbrace", "rbracket"}
         /\ \A p \in i .. c - 1 : b[p] # "colon"
         /\ b[c] = "colon"
<1>1. PICK s \in i .. c - 1 : Gap(b, i, s) /\ b[s] \in String /\ Gap(b, s + 1, c)
  BY DEF IsKey
<1>2. \A p \in i .. c : p \in i .. s - 1 \/ p = s \/ p \in s + 1 .. c - 1 \/ p = c
  OBVIOUS
<1>3. b[c] = "colon"
  BY DEF IsKey
<1>4. b[s] \notin DOMAIN Closing \cup {"rbrace", "rbracket", "colon"}
  BY <1>1, ClosingFact, StringsApart DEF Punctuation
<1>5. \A p \in i .. s - 1 : b[p] = "blank"
  BY <1>1 DEF Gap
<1>6. \A p \in s + 1 .. c - 1 : b[p] = "blank"
  BY <1>1 DEF Gap
<1>7. "blank" \notin DOMAIN Closing /\ "colon" \notin DOMAIN Closing
  BY ClosingFact
<1> QED
  BY <1>2, <1>3, <1>4, <1>5, <1>6, <1>7

\* A phrase is balanced, and a value has no colon outside of its brackets.
ColonsWithin(b, i, j) == \A p \in i .. j - 1 : b[p] = "colon" => Enclosing(b, p) > Enclosing(b, i)

WellNested(b, x) ==
  Derives(b)[x] =>
    /\ x[2] <= x[3]
    /\ Balanced(b, x[2], x[3])
    /\ x[1] = "value" => ColonsWithin(b, x[2], x[3])

\* Nesting of a phrase, from that of shorter ones.
LEMMA WellNestedStep ==
  ASSUME NEW b \in Seq(Token), NEW x \in Phrase(b),
         \A y \in Phrase(b) : PhraseSize(b, y) < PhraseSize(b, x) => WellNested(b, y)
  PROVE  WellNested(b, x)
<1>0. Len(b) \in Nat /\ MaxDepth \in Nat
  BY JsonAssumption
<1> DEFINE i == x[2]
           j == x[3]
           depth == x[4]
<1>1. /\ i \in 1 .. Len(b) + 1 /\ j \in 1 .. Len(b) + 1 /\ depth \in 0 .. MaxDepth + 1
      /\ x[1] \in {"value", "rbrace", "rbracket"} /\ x = <<x[1], i, j, depth>>
  BY DEF Phrase
<1>2. CASE x[1] = "value"
  <2> SUFFICES ASSUME Derives(b)[<<"value", i, j, depth>>]
               PROVE  i <= j /\ Balanced(b, i, j) /\ ColonsWithin(b, i, j)
    BY <1>1, <1>2 DEF WellNested
  <2>0. PhraseSize(b, x) = 2 * (Len(b) + 1 - i + j)
    BY <1>2, <1>0, <1>1 DEF PhraseSize
  <2> HIDE DEF i, j, depth
  <2>1. PICK k \in i .. j - 1 :
          /\ depth <= MaxDepth
          /\ Gap(b, i, k)
          /\ \/ b[k] \in String \cup {"number", "literal"} /\ Gap(b, k + 1, j)
             \/ /\ b[k] \in DOMAIN Closing
                /\ \E l \in k + 1 .. j - 1 :
                     /\ b[l] = Closing[b[k]] /\ Gap(b, l + 1, j)
                     /\ Gap(b, k + 1, l) \/ Derives(b)[<<b[l], k + 1, l, depth + 1>>]
    <3>1. ValueBy(Derives(b), b, i, j, depth)
      BY <1>1, DerivesValue
    <3> QED BY <3>1 DEF ValueBy
  <2>2. i \in Nat \ {0} /\ k \in Nat \ {0} /\ j \in Nat /\ i <= k /\ k < j /\ j <= Len(b) + 1
    BY <1>0, <1>1
  <2>3. "blank" \notin DOMAIN Closing \cup {"rbrace", "rbracket", "colon"}
    BY ClosingFact
  <2>4. CASE b[k] \in String \cup {"number", "literal"} /\ Gap(b, k + 1, j)
    <3>1. b[k] \notin DOMAIN Closing \cup {"rbrace", "rbracket", "colon"}
      BY <2>4, ClosingFact, StringsApart DEF Punctuation
    <3>2. \A p \in i .. j - 1 : p \in i .. k - 1 \/ p = k \/ p \in k + 1 .. j - 1
      BY <2>2
    <3>3. \A p \in i .. j - 1 : b[p] \notin DOMAIN Closing \cup {"rbrace", "rbracket", "colon"}
      BY <2>1, <2>3, <2>4, <3>1, <3>2 DEF Gap
    <3>4. Balanced(b, i, j)
      <4>1. \A p \in i .. j - 1 : b[p] \notin DOMAIN Closing \cup {"rbrace", "rbracket"}
        BY <3>3
      <4>2. i <= j
        BY <2>2
      <4> QED BY <2>2, <4>1, <4>2, BalancedLevel
    <3> QED BY <2>2, <3>3, <3>4 DEF ColonsWithin
  <2>5. ASSUME b[k] \in DOMAIN Closing,
               NEW l \in k + 1 .. j - 1, b[l] = Closing[b[k]], Gap(b, l + 1, j),
               Gap(b, k + 1, l) \/ Derives(b)[<<b[l], k + 1, l, depth + 1>>]
        PROVE  Balanced(b, i, j) /\ ColonsWithin(b, i, j)
    <3>1. b[l] \in {"rbrace", "rbracket"} /\ b[l] # "value"
      BY <2>5, ClosingFact
    <3>2. /\ l \in Nat /\ k < l /\ l < j /\ k + 1 \in Nat \ {0} /\ k + 1 <= l
          /\ l + 1 \in Nat \ {0} /\ l + 1 <= j
      BY <2>2
    <3>3. Balanced(b, k + 1, l)
      <4>1. CASE Gap(b, k + 1, l)
        <5>1. \A p \in k + 1 .. l - 1 : b[p] \notin DOMAIN Closing \cup {"rbrace", "rbracket"}
          BY <2>3, <4>1 DEF Gap
        <5> QED BY <3>2, <5>1, BalancedLevel
      <4>2. CASE Derives(b)[<<b[l], k + 1, l, depth + 1>>]
        <5> DEFINE close == b[l]
                   y == <<close, k + 1, l, depth + 1>>
        <5>1. /\ y \in Phrase(b) /\ y[1] = close /\ y[2] = k + 1 /\ y[3] = l
              /\ close # "value"
          <6>1. depth \in Nat /\ depth <= MaxDepth
            BY <1>0, <1>1, <2>1
          <6>2. depth + 1 \in 0 .. MaxDepth + 1
            BY <1>0, <6>1
          <6>3. k + 1 \in 1 .. Len(b) + 1 /\ l \in 1 .. Len(b) + 1
            BY <1>0, <2>2, <3>2
          <6> QED BY <3>1, <6>2, <6>3 DEF Phrase
        <5>2. Derives(b)[y]
          BY <4>2
        <5> HIDE DEF y, close
        <5>3. PhraseSize(b, y) = 2 * (Len(b) + 1 - (k + 1) + l) + 1
          BY <5>1, <1>0, <2>2, <3>2 DEF PhraseSize
        <5>4. 2 * (Len(b) + 1 - (k + 1) + l) + 1 < 2 * (Len(b) + 1 - i + j)
          BY <1>0, <2>2, <3>2
        <5>5. PhraseSize(b, y) < PhraseSize(b, x)
          BY <2>0, <5>3, <5>4, Zenon
        <5> QED BY <5>1, <5>2, <5>5 DEF WellNested
      <4> QED BY <2>5, <4>1, <4>2
    <3>4. /\ Balanced(b, k, l + 1)
          /\ \A p \in k + 1 .. l : Enclosing(b, p) > Enclosing(b, k)
      BY <2>2, <2>5, <3>1, <3>2, <3>3, BalancedPair
    <3>5. Balanced(b, i, k)
      <4>1. \A p \in i .. k - 1 : b[p] \notin DOMAIN Closing \cup {"rbrace", "rbracket"}
        BY <2>1, <2>3 DEF Gap
      <4> QED BY <2>2, <4>1, BalancedLevel
    <3>6. Balanced(b, l + 1, j)
      <4>1. \A p \in l + 1 .. j - 1 : b[p] \notin DOMAIN Closing \cup {"rbrace", "rbracket"}
        BY <2>3, <2>5 DEF Gap
      <4> QED BY <2>2, <3>2, <4>1, BalancedLevel
    <3>7. Balanced(b, i, l + 1)
      <4>1. k <= l + 1 /\ l + 1 \in Nat /\ k \in Nat
        BY <2>2, <3>2
      <4> QED BY <2>2, <3>4, <3>5, <4>1, BalancedJoin
    <3>8. Balanced(b, i, j)
      <4>1. i <= l + 1 /\ l + 1 \in Nat
        BY <2>2, <3>2
      <4> QED BY <2>2, <3>2, <3>6, <3>7, <4>1, BalancedJoin
    <3>9. ColonsWithin(b, i, j)
      <4> SUFFICES ASSUME NEW p \in i .. j - 1, b[p] = "colon"
                   PROVE  Enclosing(b, p) > Enclosing(b, i)
        BY DEF ColonsWithin
      <4>1. p \in i .. k - 1 \/ p = k \/ p \in k + 1 .. l - 1 \/ p = l \/ p \in l + 1 .. j - 1
        BY <2>2, <3>2
      <4>2. p \notin i .. k - 1 /\ p \notin l + 1 .. j - 1
        BY <2>1, <2>3, <2>5 DEF Gap
      <4>3. p # k /\ p # l
        BY <2>5, <3>1, ClosingFact
      <4>4. p \in k + 1 .. l
        BY <2>2, <3>2, <4>1, <4>2, <4>3
      <4>5. Enclosing(b, k) = Enclosing(b, i)
        BY <3>5 DEF Balanced
      <4> QED BY <3>4, <4>4, <4>5
    <3> QED BY <3>8, <3>9
  <2>6. CASE b[k] \in DOMAIN Closing
    <3>1. b[k] \notin String \cup {"number", "literal"}
      BY <2>6, ClosingFact, StringsApart DEF Punctuation
    <3>2. PICK l \in k + 1 .. j - 1 :
                     /\ b[l] = Closing[b[k]] /\ Gap(b, l + 1, j)
                     /\ Gap(b, k + 1, l) \/ Derives(b)[<<b[l], k + 1, l, depth + 1>>]
      BY <2>1, <3>1
    <3>3. Balanced(b, i, j) /\ ColonsWithin(b, i, j)
      BY <2>5, <2>6, <3>2
    <3> QED BY <2>2, <3>3
  <2> QED
    BY <2>1, <2>4, <2>6
<1>3. CASE x[1] # "value"
  <2> DEFINE close == x[1]
  <2> SUFFICES ASSUME Derives(b)[<<close, i, j, depth>>]
               PROVE  i <= j /\ Balanced(b, i, j)
    BY <1>1, <1>3 DEF WellNested
  <2>0. PhraseSize(b, x) = 2 * (Len(b) + 1 - i + j) + 1
    BY <1>3, <1>0, <1>1 DEF PhraseSize
  <2>1. close \in {"rbrace", "rbracket"} /\ close # "value"
    BY <1>1, <1>3
  <2> HIDE DEF i, j, depth, close
  <2>2. PICK k \in i .. j :
          /\ \/ close = "rbracket" /\ Derives(b)[<<"value", i, k, depth>>]
             \/ close = "rbrace" /\ \E c \in i .. k - 1 : /\ IsKey(b, i, c)
                                                     /\ Derives(b)[<<"value", c + 1, k, depth>>]
          /\ k = j \/ (k < j /\ b[k] = "comma" /\ Derives(b)[<<close, k + 1, j, depth>>])
    <3>1. ElementsBy(Derives(b), b, i, j, depth, close)
      BY <1>1, <2>1, DerivesElements
    <3> QED BY <3>1 DEF ElementsBy
  <2>3. i \in Nat \ {0} /\ k \in Nat \ {0} /\ j \in Nat /\ i <= k /\ k <= j /\ j <= Len(b) + 1
    BY <1>0, <1>1
  <2>4. \A n \in i .. k : Derives(b)[<<"value", n, k, depth>>] => Balanced(b, n, k)
    <3> SUFFICES ASSUME NEW n \in i .. k, Derives(b)[<<"value", n, k, depth>>]
                 PROVE  Balanced(b, n, k)
      OBVIOUS
    <3> DEFINE y == <<"value", n, k, depth>>
    <3>1. n \in Nat /\ i <= n /\ n <= k
      BY <2>3
    <3>2. n \in 1 .. Len(b) + 1 /\ k \in 1 .. Len(b) + 1
      BY <1>0, <2>3, <3>1
    <3>3. y \in Phrase(b) /\ y[1] = "value" /\ y[2] = n /\ y[3] = k /\ Derives(b)[y]
      BY <1>1, <3>2 DEF Phrase
    <3> HIDE DEF y
    <3>4. PhraseSize(b, y) = 2 * (Len(b) + 1 - n + k)
      BY <1>0, <3>2, <3>3 DEF PhraseSize
    <3>5. 2 * (Len(b) + 1 - n + k) < 2 * (Len(b) + 1 - i + j) + 1
      BY <1>0, <2>3, <3>1, SMTT(40)
    <3>6. PhraseSize(b, y) < PhraseSize(b, x)
      BY <2>0, <3>4, <3>5, Zenon
    <3> QED BY <3>3, <3>6 DEF WellNested
  <2>5. Balanced(b, i, k)
    <3>1. CASE close = "rbracket"
      <4>1. i \in i .. k
        BY <2>3
      <4> QED BY <2>2, <2>4, <3>1, <4>1
    <3>2. CASE close = "rbrace"
      <4>1. PICK c \in i .. k - 1 : IsKey(b, i, c) /\ Derives(b)[<<"value", c + 1, k, depth>>]
        BY <2>2, <3>2
      <4>2. /\ c \in Nat /\ i <= c /\ c + 1 \in i .. k /\ c + 1 \in Nat \ {0}
            /\ i <= c + 1 /\ c + 1 <= k
        BY <2>3
      <4>3. \A p \in i .. (c + 1) - 1 : b[p] \notin DOMAIN Closing \cup {"rbrace", "rbracket"}
        BY <2>3, <4>1, <4>2, KeyLevel
      <4>4. Balanced(b, i, c + 1)
        BY <2>3, <4>2, <4>3, BalancedLevel
      <4>5. Balanced(b, c + 1, k)
        BY <2>4, <4>1, <4>2
      <4> QED BY <2>3, <4>2, <4>4, <4>5, BalancedJoin
    <3> QED BY <2>1, <3>1, <3>2
  <2>6. CASE k = j
    BY <2>3, <2>5, <2>6
  <2>7. CASE k < j /\ b[k] = "comma" /\ Derives(b)[<<close, k + 1, j, depth>>]
    <3> DEFINE y == <<close, k + 1, j, depth>>
    <3>1. k + 1 \in 1 .. Len(b) + 1 /\ k + 1 \in Nat \ {0} /\ k + 1 <= j /\ k <= k + 1 /\ i <= k + 1
      BY <1>0, <2>3, <2>7
    <3>2. y \in Phrase(b) /\ y[1] = close /\ y[2] = k + 1 /\ y[3] = j /\ Derives(b)[y]
      BY <1>1, <2>1, <2>7, <3>1 DEF Phrase
    <3> HIDE DEF y
    <3>3. PhraseSize(b, y) = 2 * (Len(b) + 1 - (k + 1) + j) + 1
      BY <1>0, <1>1, <2>1, <3>1, <3>2 DEF PhraseSize
    <3>4. 2 * (Len(b) + 1 - (k + 1) + j) + 1 < 2 * (Len(b) + 1 - i + j) + 1
      BY <1>0, <2>3, SMTT(40)
    <3>5. PhraseSize(b, y) < PhraseSize(b, x)
      BY <2>0, <3>3, <3>4, Zenon
    <3>6. Balanced(b, k + 1, j)
      BY <3>2, <3>5 DEF WellNested
    <3>7. Balanced(b, k, k + 1)
      <4>1. \A p \in k .. (k + 1) - 1 : b[p] \notin DOMAIN Closing \cup {"rbrace", "rbracket"}
        BY <2>3, <2>7, ClosingFact
      <4> QED BY <2>3, <3>1, <4>1, BalancedLevel
    <3>8. Balanced(b, i, k + 1)
      BY <2>3, <2>5, <3>1, <3>7, BalancedJoin
    <3>9. Balanced(b, i, j)
      BY <2>3, <3>1, <3>6, <3>8, BalancedJoin
    <3> QED BY <2>3, <3>9
  <2> QED
    BY <2>2, <2>6, <2>7
<1> QED
  BY <1>2, <1>3

\* Every phrase of the grammar nests.
LEMMA PhrasesNest ==
  ASSUME NEW b \in Seq(Token), NEW x \in Phrase(b)
  PROVE  WellNested(b, x)
<1> DEFINE T == {n \in Nat : \A y \in Phrase(b) : PhraseSize(b, y) = n => WellNested(b, y)}
<1>1. ASSUME NEW n \in Nat, \A m \in Nat : m < n => m \in T PROVE n \in T
  <2> SUFFICES ASSUME NEW y \in Phrase(b), PhraseSize(b, y) = n PROVE WellNested(b, y)
    OBVIOUS
  <2>1. \A z \in Phrase(b) : PhraseSize(b, z) < PhraseSize(b, y) => WellNested(b, z)
    BY <1>1, PhraseFact
  <2> QED BY <2>1, WellNestedStep
<1>2. \A n \in Nat : n \in T
  <2> HIDE DEF T
  <2> QED BY <1>1, Induct
<1> QED
  BY <1>2, PhraseFact

-----------------------------------------------------------------------------
(* The loop over the top-level fields. *)

Rounds(b) == (1 .. Len(b) + 1) \X (0 .. Len(b))

Results(b) == {Failure(e) : e \in LocateError} \cup {Location(n) : n \in DOMAIN b}

\* The index behind the value of a field that starts at i, or 0.
FieldEnd(b, i) ==
  IF At(b, Blank(b, i)) # ModelField THEN SkipValue(b, SkipKey(b, i), 1)
  ELSE IF At(b, Blank(b, SkipKey(b, i))) \in String THEN Blank(b, SkipKey(b, i)) + 1 ELSE 0

\* Where the value of a field may end, and where a model is.
LEMMA FieldEndFact ==
  ASSUME NEW b \in Seq(Token), NEW i \in 1 .. Len(b) + 1, SkipKey(b, i) # 0, FieldEnd(b, i) # 0
  PROVE  /\ FieldEnd(b, i) \in i + 2 .. Len(b) + 1
         /\ At(b, Blank(b, i)) = ModelField => Blank(b, SkipKey(b, i)) \in DOMAIN b
<1> DEFINE value == SkipKey(b, i)
           k == Blank(b, value)
<1>0. Len(b) \in Nat /\ MaxDepth \in Nat \ {0} /\ DOMAIN b = 1 .. Len(b)
  BY JsonAssumption
<1>1. value \in i + 2 .. Len(b) + 1
  BY <1>0, KeyFact
<1>2. value \in 1 .. Len(b) + 1 /\ 1 \in 0 .. MaxDepth + 1
  BY <1>0, <1>1
<1>3. SkipValue(b, value, 1) \in {0} \cup (value + 1 .. Len(b) + 1)
  <2> HIDE DEF value
  <2> QED BY <1>2, SkipsValue DEF SkipValue
<1>4. k \in value .. Len(b) + 1 /\ k \in 1 .. Len(b) + 1
  <2> HIDE DEF value
  <2>1. k \in value .. Len(b) + 1
    BY <1>2, BlankFact
  <2> HIDE DEF k
  <2> QED BY <1>0, <1>2, <2>1
<1>5. At(b, k) \in String => k <= Len(b)
  <2>1. "end" \notin String
    BY StringsApart
  <2> HIDE DEF k
  <2> QED BY <1>0, <1>4, <2>1, AtFact
<1>6. FieldEnd(b, i) = IF At(b, Blank(b, i)) # ModelField THEN SkipValue(b, value, 1)
                       ELSE IF At(b, k) \in String THEN k + 1 ELSE 0
  BY DEF FieldEnd
<1> HIDE DEF k, value
<1>7. CASE At(b, Blank(b, i)) # ModelField
  BY <1>0, <1>1, <1>3, <1>6, <1>7 DEF value
<1>8. CASE At(b, Blank(b, i)) = ModelField
  <2>1. FieldEnd(b, i) = k + 1 /\ k <= Len(b)
    BY <1>5, <1>6, <1>8
  <2>2. k + 1 \in i + 2 .. Len(b) + 1 /\ k \in DOMAIN b
    BY <1>0, <1>1, <1>4, <2>1
  <2> QED BY <2>1, <2>2 DEF k, value
<1> QED BY <1>7, <1>8

\* A round of the loop: what it returns, or where the next one starts.
LEMMA RoundStep ==
  ASSUME NEW b \in Seq(Token), NEW x \in Rounds(b), NEW g, NEW h,
         \A y \in Rounds(b) : Len(b) + 1 - y[1] < Len(b) + 1 - x[1] =>
           g[y] = h[y] /\ g[y] \in Results(b)
  PROVE  /\ LocateBy(g, b, x[1], x[2]) = LocateBy(h, b, x[1], x[2])
         /\ LocateBy(g, b, x[1], x[2]) \in Results(b)
<1>0. Len(b) \in Nat /\ DOMAIN b = 1 .. Len(b)
  OBVIOUS
<1> DEFINE i == x[1]
           found == x[2]
           value == SkipKey(b, i)
           k == Blank(b, value)
           isModel == At(b, Blank(b, i)) = ModelField
           after == FieldEnd(b, i)
           next == IF isModel THEN k ELSE found
           comma == Consume(b, after, "comma")
           brace == Consume(b, after, "rbrace")
           Form(rounds) ==
             IF value = 0 THEN Failure("invalid_json")
             ELSE IF isModel /\ Refused(b, k, found) # "" THEN Failure(Refused(b, k, found))
             ELSE IF after = 0 THEN Failure("invalid_json")
             ELSE IF comma # 0 THEN rounds[<<comma, next>>]
             ELSE IF brace # 0 THEN Finish(b, brace, next)
             ELSE Failure("invalid_json")
<1>1. i \in 1 .. Len(b) + 1 /\ found \in 0 .. Len(b)
  BY DEF Rounds
<1>2. LocateBy(g, b, i, found) = Form(g) /\ LocateBy(h, b, i, found) = Form(h)
  BY DEF LocateBy, FieldEnd
<1>3. \A e \in LocateError : Failure(e) \in Results(b)
  BY DEF Results
<1>4. Refused(b, k, found) # "" => Refused(b, k, found) \in LocateError
  BY DEF Refused, LocateError
<1>5. ASSUME value # 0, after # 0 PROVE next \in 0 .. Len(b) /\ after \in i + 2 .. Len(b) + 1
  <2>1. after \in i + 2 .. Len(b) + 1 /\ (isModel => k \in DOMAIN b)
    BY <1>1, <1>5, FieldEndFact
  <2> HIDE DEF isModel, k, found, after, i
  <2> QED BY <1>0, <1>1, <2>1
<1>6. ASSUME next \in 0 .. Len(b), NEW n PROVE Finish(b, n, next) \in Results(b)
  <2> HIDE DEF next
  <2>1. next # 0 => next \in DOMAIN b
    BY <1>0, <1>6
  <2>2. next # 0 => Location(next) \in Results(b)
    BY <2>1 DEF Results
  <2> QED BY <1>3, <2>2 DEF Finish, LocateError
<1>7. ASSUME value # 0, after # 0, comma # 0
      PROVE  g[<<comma, next>>] = h[<<comma, next>>] /\ g[<<comma, next>>] \in Results(b)
  <2>1. after \in 1 .. Len(b) + 1 /\ "comma" \in Token
    <3> HIDE DEF after, i
    <3> QED BY <1>0, <1>1, <1>5, <1>7 DEF Token, Punctuation
  <2>2. \E m \in after .. Len(b) : comma = m + 1
    <3> HIDE DEF after
    <3> QED BY <1>7, <2>1, ConsumeFact
  <2>3. after \in i + 2 .. Len(b) + 1
    BY <1>5, <1>7
  <2> HIDE DEF comma, after, i
  <2>4. comma \in i + 1 .. Len(b) + 1 /\ comma \in 1 .. Len(b) + 1
    BY <1>0, <1>1, <2>1, <2>2, <2>3
  <2> DEFINE y == <<comma, next>>
  <2>5. y \in Rounds(b) /\ y[1] = comma
    <3>1. next \in 0 .. Len(b)
      BY <1>5, <1>7
    <3> HIDE DEF next
    <3> QED BY <2>4, <3>1 DEF Rounds
  <2> HIDE DEF y
  <2>6. Len(b) + 1 - y[1] < Len(b) + 1 - i
    BY <1>0, <1>1, <2>4, <2>5
  <2>7. g[y] = h[y] /\ g[y] \in Results(b)
    BY <2>5, <2>6 DEF i
  <2> QED BY <2>7 DEF y
<1> HIDE DEF value, k, isModel, after, comma, brace, next, found, i
<1>8. Form(g) = Form(h)
  BY <1>7
<1>9. Form(g) \in Results(b)
  <2>1. "invalid_json" \in LocateError
    BY DEF LocateError
  <2> QED BY <1>3, <1>4, <1>5, <1>6, <1>7, <2>1
<1> HIDE DEF Form
<1>10. /\ LocateBy(g, b, i, found) = LocateBy(h, b, i, found)
       /\ LocateBy(g, b, i, found) \in Results(b)
  BY <1>2, <1>8, <1>9
<1> QED BY <1>10 DEF i, found

\* The loop exists: it comes to an end.
LEMMA LocateEquation ==
  ASSUME NEW b \in Seq(Token)
  PROVE  LocateFrom(b) = [x \in Rounds(b) |-> LocateBy(LocateFrom(b), b, x[1], x[2])]
<1> DEFINE S == Rounds(b)
           size == [x \in S |-> Len(b) + 1 - x[1]]
           F == [S -> Results(b)]
           Step(g) == [x \in S |-> LocateBy(g, b, x[1], x[2])]
           G == [g \in F |-> Step(g)]
<1>0. Len(b) \in Nat
  OBVIOUS
<1>1. /\ size \in [S -> Nat] /\ \A x \in S : size[x] < Len(b) + 1
      /\ Len(b) + 1 \in Nat
  BY <1>0 DEF Rounds
<1>2. F # {}
  <2>1. Failure("invalid_json") \in Results(b)
    BY DEF Results, LocateError
  <2>2. [x \in S |-> Failure("invalid_json")] \in F
    BY <2>1
  <2> QED BY <2>2
<1>3. ASSUME NEW g \in F PROVE Step(g) \in F
  <2>1. \A x \in S : LocateBy(g, b, x[1], x[2]) \in Results(b)
    <3> TAKE x \in S
    <3>1. \A y \in S : g[y] = g[y] /\ g[y] \in Results(b)
      OBVIOUS
    <3> HIDE DEF F
    <3> QED BY <3>1, RoundStep
  <2> QED BY <2>1
<1>4. G \in [F -> F]
  BY <1>3
<1>5. ASSUME NEW g \in F, NEW h \in F, NEW x \in S,
             \A y \in S : size[y] < size[x] => g[y] = h[y]
      PROVE  G[g][x] = G[h][x]
  <2>1. \A y \in S : Len(b) + 1 - y[1] < Len(b) + 1 - x[1] => g[y] = h[y] /\ g[y] \in Results(b)
    BY <1>5
  <2>2. LocateBy(g, b, x[1], x[2]) = LocateBy(h, b, x[1], x[2])
    <3> HIDE DEF F
    <3> QED BY <2>1, RoundStep, SMTT(40)
  <2> QED BY <2>2
<1>6. \E g \in F : G[g] = g
  <2>1. Descends(S, size, Len(b) + 1, Results(b), F, G)
    <3>1. F \subseteq [S -> Results(b)]
      OBVIOUS
    <3> HIDE DEF F, G, size, S
    <3> QED BY <1>1, <1>2, <1>4, <1>5, <3>1 DEF Descends
  <2> HIDE DEF F, G, size, S
  <2> QED BY <2>1, Fixpoint
<1>7. \E g : g = [x \in Rounds(b) |-> LocateBy(g, b, x[1], x[2])]
  BY <1>6
<1> QED
  BY <1>7 DEF LocateFrom, Rounds

\* A round, in terms of the field it reads.
LEMMA Round ==
  ASSUME NEW b \in Seq(Token), NEW i \in 1 .. Len(b) + 1, NEW found \in 0 .. Len(b)
  PROVE  LocateFrom(b)[<<i, found>>] =
           LET value == SkipKey(b, i)
               k == Blank(b, value)
               isModel == At(b, Blank(b, i)) = ModelField
               after == FieldEnd(b, i)
               next == IF isModel THEN k ELSE found
           IN IF value = 0 THEN Failure("invalid_json")
              ELSE IF isModel /\ Refused(b, k, found) # "" THEN Failure(Refused(b, k, found))
              ELSE IF after = 0 THEN Failure("invalid_json")
              ELSE IF Consume(b, after, "comma") # 0
                   THEN LocateFrom(b)[<<Consume(b, after, "comma"), next>>]
              ELSE IF Consume(b, after, "rbrace") # 0
                   THEN Finish(b, Consume(b, after, "rbrace"), next)
              ELSE Failure("invalid_json")
<1> DEFINE x == <<i, found>>
<1>1. x \in Rounds(b) /\ x[1] = i /\ x[2] = found
  BY DEF Rounds
<1>2. LocateFrom(b)[x] = LocateBy(LocateFrom(b), b, x[1], x[2])
  BY <1>1, LocateEquation
<1>3. LocateFrom(b)[x] = LocateBy(LocateFrom(b), b, i, found)
  BY <1>1, <1>2
<1> HIDE DEF x
<1>4. LocateFrom(b)[<<i, found>>] = LocateBy(LocateFrom(b), b, i, found)
  BY <1>3 DEF x
<1> QED
  BY <1>4 DEF LocateBy, FieldEnd

-----------------------------------------------------------------------------
(* Soundness of the loop. *)

\* The value of a field that the loop goes behind is a value of the grammar.
LEMMA FieldSound ==
  ASSUME NEW b \in Seq(Token), NEW i \in 1 .. Len(b) + 1, SkipKey(b, i) # 0, FieldEnd(b, i) # 0
  PROVE  Derives(b)[<<"value", SkipKey(b, i), FieldEnd(b, i), 1>>]
<1> DEFINE value == SkipKey(b, i)
           k == Blank(b, value)
           after == FieldEnd(b, i)
<1>0. Len(b) \in Nat /\ MaxDepth \in Nat \ {0} /\ DOMAIN b = 1 .. Len(b)
  BY JsonAssumption
<1>1. value \in i + 2 .. Len(b) + 1 /\ value \in 1 .. Len(b) + 1 /\ 1 \in 0 .. MaxDepth + 1
  BY <1>0, KeyFact
<1>2. /\ after \in i + 2 .. Len(b) + 1 /\ after \in 1 .. Len(b) + 1
      /\ At(b, Blank(b, i)) = ModelField => k \in DOMAIN b
  BY <1>0, FieldEndFact
<1>3. after = IF At(b, Blank(b, i)) # ModelField THEN SkipValue(b, value, 1)
              ELSE IF At(b, k) \in String THEN k + 1 ELSE 0
  BY DEF FieldEnd
<1>4. after # 0
  OBVIOUS
<1> SUFFICES Derives(b)[<<"value", value, after, 1>>]
  OBVIOUS
<1> HIDE DEF value, k, after
<1>5. CASE At(b, Blank(b, i)) # ModelField
  <2> DEFINE x == <<"value", value, 1>>
  <2>1. x \in Call(b) /\ x[1] = "value" /\ x[2] = value /\ x[3] = 1 /\ Skip(b)[x] = after
    BY <1>1, <1>3, <1>5 DEF Call, SkipValue
  <2> HIDE DEF x
  <2> QED BY <1>4, <2>1, SkipSound DEF Sound
<1>6. CASE At(b, Blank(b, i)) = ModelField
  <2>1. after = k + 1 /\ At(b, k) \in String /\ k \in DOMAIN b
    BY <1>2, <1>3, <1>4, <1>6
  <2>2. k \in value .. Len(b) + 1 /\ Gap(b, value, k)
    BY <1>1, BlankFact DEF k
  <2>3. b[k] \in String /\ k \in value .. after - 1 /\ Gap(b, k + 1, after)
    BY <1>0, <1>1, <2>1, <2>2 DEF At, Gap
  <2>4. 1 <= MaxDepth
    BY <1>0
  <2>5. ValueBy(Derives(b), b, value, after, 1)
    BY <2>2, <2>3, <2>4 DEF ValueBy
  <2> QED BY <1>1, <1>2, <2>5, DerivesValue
<1> QED BY <1>5, <1>6

\* What was found: the place of a model, not an error.
IsLocation(result) == result.error = ""

\* An error is no place.
LEMMA FailureFact ==
  /\ \A e : IsLocation(Failure(e)) <=> e = ""
  /\ \A e \in LocateError : ~IsLocation(Failure(e))
<1>1. \A e \in LocateError : e # ""
  BY DEF LocateError
<1> QED BY <1>1 DEF IsLocation, Failure

\* Where a round finds a model, the fields from there on are those of an object, and
\* nothing is behind it.
Accepted(b, x) ==
  IsLocation(LocateFrom(b)[x]) =>
    \E l \in x[1] .. Len(b) : /\ b[l] = "rbrace" /\ Gap(b, l + 1, Len(b) + 1)
                              /\ Derives(b)[<<"rbrace", x[1], l, 1>>]

\* A round accepts what it should, if the next one does.
LEMMA AcceptedStep ==
  ASSUME NEW b \in Seq(Token), NEW x \in Rounds(b),
         \A y \in Rounds(b) : Len(b) + 1 - y[1] < Len(b) + 1 - x[1] => Accepted(b, y)
  PROVE  Accepted(b, x)
<1>0. Len(b) \in Nat /\ MaxDepth \in Nat \ {0} /\ DOMAIN b = 1 .. Len(b) /\ 1 \in 0 .. MaxDepth + 1
  BY JsonAssumption
<1> DEFINE i == x[1]
           found == x[2]
<1>1. i \in 1 .. Len(b) + 1 /\ found \in 0 .. Len(b) /\ x = <<i, found>>
  BY DEF Rounds
<1> SUFFICES ASSUME IsLocation(LocateFrom(b)[<<i, found>>])
             PROVE  \E l \in i .. Len(b) : /\ b[l] = "rbrace" /\ Gap(b, l + 1, Len(b) + 1)
                                           /\ Derives(b)[<<"rbrace", i, l, 1>>]
  BY <1>1 DEF Accepted
<1> HIDE DEF i, found
<1> DEFINE value == SkipKey(b, i)
           k == Blank(b, value)
           isModel == At(b, Blank(b, i)) = ModelField
           after == FieldEnd(b, i)
           next == IF isModel THEN k ELSE found
<1>2. LocateFrom(b)[<<i, found>>] =
           IF value = 0 THEN Failure("invalid_json")
              ELSE IF isModel /\ Refused(b, k, found) # "" THEN Failure(Refused(b, k, found))
              ELSE IF after = 0 THEN Failure("invalid_json")
              ELSE IF Consume(b, after, "comma") # 0
                   THEN LocateFrom(b)[<<Consume(b, after, "comma"), next>>]
              ELSE IF Consume(b, after, "rbrace") # 0
                   THEN Finish(b, Consume(b, after, "rbrace"), next)
              ELSE Failure("invalid_json")
  BY <1>1, Round
<1>3. /\ \A e : IsLocation(Failure(e)) <=> e = ""
      /\ ~IsLocation(Failure("invalid_json"))
  BY FailureFact DEF LocateError
<1>4. value # 0 /\ after # 0
  <2> HIDE DEF value, k, isModel, after, next
  <2>1. "invalid_json" # ""
    OBVIOUS
  <2> QED BY <1>2, <1>3, <2>1
<1>5. PICK c \in i + 1 .. Len(b) : IsKey(b, i, c) /\ value = c + 1
  BY <1>1, <1>4, KeyFact
<1>6. Derives(b)[<<"value", value, after, 1>>] /\ after \in i + 2 .. Len(b) + 1
  BY <1>1, <1>4, FieldSound, FieldEndFact
<1>7. isModel /\ after # 0 => k \in DOMAIN b
  BY <1>1, <1>4, FieldEndFact
<1>8. next \in 0 .. Len(b)
  <2> HIDE DEF isModel, k, after, value
  <2> QED BY <1>0, <1>1, <1>4, <1>7
<1>9. c \in Nat /\ c + 1 \in 1 .. Len(b) + 1 /\ after \in 1 .. Len(b) + 1 /\ value <= after
  <2>1. value \in 1 .. Len(b) + 1 /\ value \in Nat
    BY <1>0, <1>1, <1>5
  <2>2. value <= after
    <3> DEFINE y == <<"value", value, after, 1>>
    <3>1. after \in 1 .. Len(b) + 1
      <4> HIDE DEF after, value
      <4> QED BY <1>0, <1>1, <1>6
    <3> HIDE DEF value, after
    <3>2. \E m \in value .. after - 1 : TRUE
      BY <1>0, <1>6, <2>1, <3>1, ValueStart
    <3> QED BY <2>1, <3>1, <3>2
  <2> HIDE DEF value, after
  <2> QED BY <1>0, <1>1, <1>5, <1>6, <2>1, <2>2
<1> HIDE DEF value, k, isModel, after, next
<1>10. ASSUME NEW m \in after .. Len(b), Gap(b, after, m)
       PROVE  /\ m \in i .. Len(b) /\ c \in i .. m - 1
              /\ Derives(b)[<<"value", c + 1, m, 1>>]
  <2>1. m \in after .. Len(b) + 1 /\ m \in i .. Len(b) /\ c \in i .. m - 1
    BY <1>0, <1>1, <1>5, <1>9, <1>10
  <2> QED BY <1>0, <1>5, <1>6, <1>9, <1>10, <2>1, Padded
<1>11. CASE Consume(b, after, "comma") # 0
  <2>1. PICK m \in after .. Len(b) : /\ Gap(b, after, m) /\ b[m] = "comma"
                                     /\ Consume(b, after, "comma") = m + 1
    <3>1. "comma" \in Token
      BY DEF Token, Punctuation
    <3> QED BY <1>9, <1>11, <3>1, ConsumeFact
  <2>2. IsLocation(LocateFrom(b)[<<m + 1, next>>])
    BY <1>2, <1>3, <1>4, <1>11, <2>1
  <2>3. /\ m \in i .. Len(b) /\ c \in i .. m - 1
        /\ Derives(b)[<<"value", c + 1, m, 1>>]
    BY <1>10, <2>1
  <2> DEFINE y == <<m + 1, next>>
  <2>4. y \in Rounds(b) /\ y[1] = m + 1 /\ IsLocation(LocateFrom(b)[y])
    <3>1. m + 1 \in 1 .. Len(b) + 1
      BY <1>0, <1>1, <2>3
    <3> QED BY <1>8, <2>2, <3>1 DEF Rounds
  <2> HIDE DEF y
  <2>5. Len(b) + 1 - y[1] < Len(b) + 1 - i
    BY <1>0, <1>1, <2>3, <2>4
  <2>6. Accepted(b, y)
    BY <2>4, <2>5 DEF i
  <2>7. PICK l \in m + 1 .. Len(b) : /\ b[l] = "rbrace" /\ Gap(b, l + 1, Len(b) + 1)
                                     /\ Derives(b)[<<"rbrace", m + 1, l, 1>>]
    BY <2>4, <2>6 DEF Accepted
  <2>8. m \in i .. l /\ m < l /\ l \in i .. Len(b) /\ l \in 1 .. Len(b) + 1
    BY <1>0, <1>1, <2>3, <2>7
  <2>9. ElementsBy(Derives(b), b, i, l, 1, "rbrace")
    BY <1>5, <2>1, <2>3, <2>7, <2>8 DEF ElementsBy
  <2>10. Derives(b)[<<"rbrace", i, l, 1>>]
    BY <1>0, <1>1, <2>8, <2>9, DerivesElements
  <2> QED BY <2>7, <2>8, <2>10
<1>12. CASE Consume(b, after, "comma") = 0
  <2>1. /\ Consume(b, after, "rbrace") # 0
        /\ IsLocation(Finish(b, Consume(b, after, "rbrace"), next))
    BY <1>2, <1>3, <1>4, <1>12
  <2>2. PICK m \in after .. Len(b) : /\ Gap(b, after, m) /\ b[m] = "rbrace"
                                     /\ Consume(b, after, "rbrace") = m + 1
    <3>1. "rbrace" \in Token
      BY DEF Token, Punctuation
    <3> QED BY <1>9, <2>1, <3>1, ConsumeFact
  <2>3. /\ m \in i .. Len(b) /\ c \in i .. m - 1
        /\ Derives(b)[<<"value", c + 1, m, 1>>]
    BY <1>10, <2>2
  <2>4. m \in 1 .. Len(b) + 1 /\ m + 1 \in 1 .. Len(b) + 1
    BY <1>0, <1>1, <2>3
  <2>5. Gap(b, m + 1, Len(b) + 1)
    <3>1. IsLocation(Finish(b, m + 1, next))
      BY <2>1, <2>2
    <3>2. Blank(b, m + 1) = Len(b) + 1
      BY <1>3, <3>1 DEF Finish
    <3> QED BY <2>4, <3>2, BlankFact
  <2>6. ElementsBy(Derives(b), b, i, m, 1, "rbrace")
    <3>1. m \in i .. m
      BY <2>3
    <3> QED BY <1>5, <2>3, <3>1 DEF ElementsBy
  <2>7. Derives(b)[<<"rbrace", i, m, 1>>]
    BY <1>0, <1>1, <2>4, <2>6, DerivesElements
  <2> QED BY <2>2, <2>3, <2>5, <2>7
<1> QED
  BY <1>11, <1>12

\* Every round accepts only the fields of an object.
LEMMA RoundAccepted ==
  ASSUME NEW b \in Seq(Token), NEW x \in Rounds(b)
  PROVE  Accepted(b, x)
<1> DEFINE T == {n \in Nat : \A y \in Rounds(b) : Len(b) + 1 - y[1] = n => Accepted(b, y)}
<1>0. \A y \in Rounds(b) : Len(b) + 1 - y[1] \in Nat
  BY DEF Rounds
<1>1. ASSUME NEW n \in Nat, \A m \in Nat : m < n => m \in T PROVE n \in T
  <2> SUFFICES ASSUME NEW y \in Rounds(b), Len(b) + 1 - y[1] = n PROVE Accepted(b, y)
    OBVIOUS
  <2>1. \A z \in Rounds(b) : Len(b) + 1 - z[1] < Len(b) + 1 - y[1] => Accepted(b, z)
    BY <1>0, <1>1
  <2> QED BY <2>1, AcceptedStep
<1>2. \A n \in Nat : n \in T
  <2> HIDE DEF T
  <2> QED BY <1>1, Induct
<1> QED
  BY <1>0, <1>2

\* What locateTopLevelModel finds a model in is an object of the grammar.
THEOREM LocateSound ==
  ASSUME NEW b \in Seq(Token), IsLocation(Locate(b))
  PROVE  IsBody(b)
<1>0. Len(b) \in Nat /\ MaxDepth \in Nat \ {0} /\ DOMAIN b = 1 .. Len(b) /\ 1 \in Nat
  BY JsonAssumption
<1>1. 1 \in 1 .. Len(b) + 1 /\ Len(b) + 1 \in 1 .. Len(b) + 1 /\ 0 \in 0 .. MaxDepth + 1
      /\ 1 \in 0 .. MaxDepth + 1
  BY <1>0
<1> DEFINE open == Consume(b, 1, "lbrace")
<1>2. \A e : IsLocation(Failure(e)) <=> e = ""
  BY FailureFact
<1>3. open # 0 /\ Consume(b, open, "rbrace") = 0 /\ IsLocation(LocateFrom(b)[<<open, 0>>])
  <2>1. "invalid_json" # "" /\ "missing_model" # ""
    OBVIOUS
  <2> QED BY <1>2, <2>1 DEF Locate
<1>4. PICK k \in 1 .. Len(b) : Gap(b, 1, k) /\ b[k] = "lbrace" /\ open = k + 1
  <2>1. "lbrace" \in Token
    BY DEF Token, Punctuation
  <2> QED BY <1>1, <1>3, <2>1, ConsumeFact
<1>5. k + 1 \in 1 .. Len(b) + 1
  BY <1>0, <1>4
<1> DEFINE x == <<k + 1, 0>>
<1>6. x \in Rounds(b) /\ x[1] = k + 1 /\ IsLocation(LocateFrom(b)[x])
  BY <1>0, <1>3, <1>4, <1>5 DEF Rounds
<1> HIDE DEF x
<1>7. PICK l \in k + 1 .. Len(b) : /\ b[l] = "rbrace" /\ Gap(b, l + 1, Len(b) + 1)
                                   /\ Derives(b)[<<"rbrace", k + 1, l, 1>>]
  BY <1>6, RoundAccepted DEF Accepted
<1>8. /\ k \in 1 .. (Len(b) + 1) - 1 /\ l \in k + 1 .. (Len(b) + 1) - 1
      /\ b[k] \in DOMAIN Closing /\ b[l] = Closing[b[k]] /\ 0 <= MaxDepth
  BY <1>0, <1>4, <1>7, ClosingFact
<1>9. ValueBy(Derives(b), b, 1, Len(b) + 1, 0)
  <2>1. Derives(b)[<<b[l], k + 1, l, 0 + 1>>]
    BY <1>7
  <2> QED BY <1>4, <1>7, <1>8, <2>1 DEF ValueBy
<1>10. Derives(b)[<<"value", 1, Len(b) + 1, 0>>]
  BY <1>1, <1>9, DerivesValue
<1> QED
  BY <1>0, <1>4, <1>10 DEF IsBody

-----------------------------------------------------------------------------
(* Completeness of the loop. *)

\* The model fields of an object, where their colons are.
Fields(b) ==
  {c \in DOMAIN b : /\ b[c] = "colon" /\ Enclosing(b, c) = 1
                    /\ \E s \in 1 .. c - 1 : b[s] = ModelField /\ Gap(b, s + 1, c)}

\* What is said of an object of which the fields in C are left, when the value of a
\* model field before them was found (or 0).
Expected(b, C, found) ==
  LET value == Blank(b, Min(C) + 1)
  IN IF found # 0 THEN IF C = {} THEN Location(found) ELSE Failure("duplicate_model")
     ELSE IF C = {} THEN Failure("missing_model")
     ELSE IF b[value] \notin String THEN Failure("invalid_model")
     ELSE IF C # {Min(C)} THEN Failure("duplicate_model")
     ELSE Location(value)

\* At the start all model fields are left.
LEMMA DescribedExpected == \A b : Described(b) = Expected(b, Fields(b), 0)
  BY DEF Described, Expected, Fields

\* A key is the one of a model field when the loop takes it for one.
LEMMA KeyField ==
  ASSUME NEW b \in Seq(Token), NEW i \in 1 .. Len(b) + 1, NEW c \in i .. Len(b),
         IsKey(b, i, c), Enclosing(b, i) = 1
  PROVE  /\ At(b, Blank(b, i)) = ModelField <=> c \in Fields(b)
         /\ Enclosing(b, c + 1) = 1
<1>0. Len(b) \in Nat /\ DOMAIN b = 1 .. Len(b)
  OBVIOUS
<1>1. PICK s \in i .. c - 1 : Gap(b, i, s) /\ b[s] \in String /\ Gap(b, s + 1, c)
  BY DEF IsKey
<1>2. /\ s \in i .. Len(b) + 1 /\ s \in 1 .. Len(b) + 1 /\ s <= Len(b) /\ s \in 1 .. c - 1
      /\ c \in Nat \ {0} /\ i \in Nat \ {0} /\ i <= c
  BY <1>0
<1>3. b[s] # "blank" /\ ModelField # "blank"
  BY <1>1, StringsApart, JsonAssumption DEF Punctuation
<1>4. At(b, Blank(b, i)) = b[s]
  BY <1>1, <1>2, <1>3, BlankIs, AtFact
<1>5. \A p \in i .. c : b[p] \notin DOMAIN Closing \cup {"rbrace", "rbracket"}
  BY <1>2, KeyLevel
<1>6. Enclosing(b, c) = 1 /\ Enclosing(b, c + 1) = 1
  <2>1. \A p \in i .. (c + 1) - 1 : b[p] \notin DOMAIN Closing \cup {"rbrace", "rbracket"}
    BY <1>2, <1>5
  <2>2. \A p \in i .. c + 1 : Enclosing(b, p) = Enclosing(b, i)
    <3>1. c + 1 \in Nat /\ i <= c + 1
      BY <1>2
    <3> QED BY <1>2, <2>1, <3>1, LevelKept
  <2>3. c \in i .. c + 1 /\ c + 1 \in i .. c + 1
    BY <1>2
  <2> QED BY <2>2, <2>3
<1>7. b[c] = "colon" /\ c \in DOMAIN b
  BY <1>0, <1>2 DEF IsKey
<1>8. ASSUME b[s] = ModelField PROVE c \in Fields(b)
  BY <1>1, <1>2, <1>6, <1>7, <1>8 DEF Fields
<1>9. ASSUME c \in Fields(b) PROVE b[s] = ModelField
  <2>1. PICK r \in 1 .. c - 1 : b[r] = ModelField /\ Gap(b, r + 1, c)
    BY <1>9 DEF Fields
  <2>2. CASE r < s
    <3>1. s \in r + 1 .. c - 1
      BY <1>2, <2>2
    <3> QED BY <1>3, <2>1, <3>1 DEF Gap
  <2>3. CASE r > s
    <3>1. r \in s + 1 .. c - 1
      BY <1>2, <2>3
    <3> QED BY <1>1, <1>3, <2>1, <3>1 DEF Gap
  <2>4. CASE r = s
    BY <2>1, <2>4
  <2> QED BY <1>2, <2>2, <2>3, <2>4
<1> QED BY <1>4, <1>6, <1>8, <1>9

\* The loop goes behind the value of a field that is an element of the object, to where
\* there is only white space up to the end of the element.
LEMMA FieldComplete ==
  ASSUME NEW b \in Seq(Token), NEW i \in 1 .. Len(b) + 1, NEW c \in i .. Len(b),
         NEW k \in c + 1 .. Len(b), IsKey(b, i, c), Derives(b)[<<"value", c + 1, k, 1>>],
         b[k] \in {"comma", "rbrace"}
  PROVE  LET v == Blank(b, c + 1) IN
           /\ v \in c + 1 .. k - 1
           /\ b[v] \in String \cup {"number", "literal"} \cup DOMAIN Closing
           /\ At(b, Blank(b, i)) # ModelField \/ b[v] \in String =>
                FieldEnd(b, i) \in c + 2 .. k /\ Gap(b, FieldEnd(b, i), k)
<1>0. /\ Len(b) \in Nat /\ MaxDepth \in Nat \ {0} /\ DOMAIN b = 1 .. Len(b)
      /\ 1 \in 0 .. MaxDepth + 1
  BY JsonAssumption
<1>1. /\ c + 1 \in 1 .. Len(b) + 1 /\ k \in 1 .. Len(b) + 1 /\ c \in Nat /\ k \in Nat
      /\ k \in 1 .. Len(b)
  BY <1>0
<1> DEFINE v == Blank(b, c + 1)
<1>2. PICK m \in c + 1 .. k - 1 :
        Gap(b, c + 1, m) /\ b[m] \in String \cup {"number", "literal"} \cup DOMAIN Closing
  BY <1>0, <1>1, ValueStart
<1>3. v = m
  <2>1. m \in c + 1 .. Len(b) + 1
    BY <1>1
  <2>2. b[m] # "blank"
    BY <1>2, NotStart
  <2> QED BY <1>1, <1>2, <2>1, <2>2, BlankIs
<1>4. SkipKey(b, i) = c + 1
  BY KeyIs
<1>5. FieldEnd(b, i) = IF At(b, Blank(b, i)) # ModelField THEN SkipValue(b, c + 1, 1)
                       ELSE IF At(b, v) \in String THEN v + 1 ELSE 0
  BY <1>4 DEF FieldEnd
<1>6. SkipValue(b, c + 1, 1) \in c + 2 .. k /\ Gap(b, SkipValue(b, c + 1, 1), k)
  <2> DEFINE x == <<"value", c + 1, k, 1>>
  <2>1. x \in Phrase(b) /\ x[1] = "value" /\ x[2] = c + 1 /\ x[3] = k /\ x[4] = 1
    BY <1>0, <1>1 DEF Phrase
  <2>2. Derives(b)[x]
    OBVIOUS
  <2> HIDE DEF x
  <2>3. Delimited(b, k)
    BY DEF Delimited, Delimiter
  <2>4. \E e \in (c + 1) + 1 .. k : Skip(b)[<<"value", c + 1, 1>>] = e /\ Gap(b, e, k)
    BY <2>1, <2>2, <2>3, SkipComplete DEF Complete
  <2> QED BY <1>1, <2>4 DEF SkipValue
<1>7. ASSUME b[v] \in String PROVE v + 1 \in c + 2 .. k /\ Gap(b, v + 1, k) /\ At(b, v) = b[v]
  <2>1. ValueBy(Derives(b), b, c + 1, k, 1)
    BY <1>0, <1>1, DerivesValue
  <2>2. PICK n \in c + 1 .. k - 1 :
          /\ Gap(b, c + 1, n)
          /\ \/ b[n] \in String \cup {"number", "literal"} /\ Gap(b, n + 1, k)
             \/ b[n] \in DOMAIN Closing
    BY <2>1 DEF ValueBy
  <2>3. b[n] # "blank" /\ n \in c + 1 .. Len(b) + 1
    <3>1. b[n] \in String \cup {"number", "literal"} \cup DOMAIN Closing
      BY <2>2
    <3> QED BY <1>1, <3>1, NotStart
  <2>4. n = v
    BY <1>1, <2>2, <2>3, BlankIs
  <2>5. b[v] \notin DOMAIN Closing
    BY <1>7, StringsApart, ClosingFact DEF Punctuation
  <2>6. Gap(b, v + 1, k)
    BY <2>2, <2>4, <2>5
  <2>7. v \in DOMAIN b
    BY <1>0, <1>1, <1>3
  <2> HIDE DEF v
  <2> QED BY <1>1, <1>3, <2>6, <2>7 DEF At
<1> HIDE DEF v
<1>8. At(b, Blank(b, i)) # ModelField \/ b[v] \in String =>
        FieldEnd(b, i) \in c + 2 .. k /\ Gap(b, FieldEnd(b, i), k)
  BY <1>5, <1>6, <1>7
<1> QED BY <1>2, <1>3, <1>8 DEF v

Left(b, i) == {p \in Fields(b) : p >= i}

\* A field leaves the fields behind it.
LEMMA LeftStep ==
  ASSUME NEW b \in Seq(Token), NEW i \in 1 .. Len(b) + 1, NEW c \in i .. Len(b),
         NEW k \in c + 1 .. Len(b), IsKey(b, i, c), Derives(b)[<<"value", c + 1, k, 1>>],
         b[k] \in {"comma", "rbrace"}, Enclosing(b, i) = 1
  PROVE  /\ Left(b, i) = (IF c \in Fields(b) THEN {c} ELSE {}) \cup Left(b, k + 1)
         /\ Enclosing(b, k + 1) = Enclosing(b, k) + (IF b[k] = "comma" THEN 0 ELSE -1)
         /\ Enclosing(b, k) = 1
<1>0. /\ Len(b) \in Nat /\ MaxDepth \in Nat \ {0} /\ DOMAIN b = 1 .. Len(b)
      /\ 1 \in 0 .. MaxDepth + 1
  BY JsonAssumption
<1>1. /\ c + 1 \in 1 .. Len(b) + 1 /\ k \in 1 .. Len(b) + 1 /\ c \in Nat /\ k \in Nat \ {0}
      /\ k \in 1 .. Len(b) /\ i \in Nat \ {0} /\ i <= c /\ c + 1 <= k
  BY <1>0
<1>2. Enclosing(b, c + 1) = 1
  BY KeyField
<1>3. Balanced(b, c + 1, k) /\ ColonsWithin(b, c + 1, k)
  <2> DEFINE x == <<"value", c + 1, k, 1>>
  <2>1. x \in Phrase(b) /\ x[1] = "value" /\ x[2] = c + 1 /\ x[3] = k
    BY <1>0, <1>1 DEF Phrase
  <2>2. Derives(b)[x]
    OBVIOUS
  <2> HIDE DEF x
  <2> QED BY <2>1, <2>2, PhrasesNest DEF WellNested
<1>4. Enclosing(b, k) = 1
  BY <1>2, <1>3 DEF Balanced
<1>5. Enclosing(b, k + 1) = Enclosing(b, k) + (IF b[k] = "comma" THEN 0 ELSE -1)
  BY <1>1, EnclosingStep, ClosingFact
<1>6. ASSUME NEW p \in Fields(b), p >= i PROVE p = c \/ p >= k + 1
  <2>1. p \in 1 .. Len(b) /\ b[p] = "colon" /\ Enclosing(b, p) = 1
    BY <1>0 DEF Fields
  <2>2. p \notin i .. c - 1
    BY <1>1, <2>1, KeyLevel
  <2>3. p \notin c + 1 .. k - 1
    <3>1. ~(1 > 1)
      OBVIOUS
    <3> QED BY <1>2, <1>3, <2>1, <3>1 DEF ColonsWithin
  <2>4. p # k
    BY <2>1
  <2> QED BY <1>1, <1>6, <2>1, <2>2, <2>3, <2>4, SMTT(40)
<1>7. \A p \in Fields(b) : p \in Nat
  BY <1>0 DEF Fields
<1>8. \A p \in Fields(b) : p >= k + 1 => p >= i
  BY <1>1, <1>7
<1>9. c >= i
  BY <1>1
<1> QED BY <1>4, <1>5, <1>6, <1>8, <1>9 DEF Left

\* One model field and the fields in D behind it, or those alone.
LEMMA ExpectedStep ==
  ASSUME NEW b \in Seq(Token), NEW c \in Nat, NEW D \in SUBSET Nat, \A p \in D : c < p,
         NEW found \in 0 .. Len(b), Blank(b, c + 1) # 0
  PROVE  Expected(b, {c} \cup D, found) =
           IF found # 0 THEN Failure("duplicate_model")
           ELSE IF b[Blank(b, c + 1)] \notin String THEN Failure("invalid_model")
           ELSE Expected(b, D, Blank(b, c + 1))
<1> DEFINE C == {c} \cup D
           v == Blank(b, c + 1)
<1>1. C \in SUBSET Nat /\ C # {}
  OBVIOUS
<1>2. Min(C) = c
  <2>1. c \in C /\ \A p \in C : p \in Nat /\ c <= p
    OBVIOUS
  <2> HIDE DEF C
  <2>2. Min(C) \in C /\ \A p \in C : Min(C) <= p
    BY <1>1, MinFact
  <2>3. Min(C) \in Nat /\ c <= Min(C) /\ Min(C) <= c /\ c \in Nat
    BY <2>1, <2>2
  <2> QED BY <2>3
<1>3. C = {Min(C)} <=> D = {}
  <2>1. \A p \in D : p # c
    OBVIOUS
  <2> HIDE DEF C
  <2> QED BY <1>2, <2>1 DEF C
<1> HIDE DEF C
<1> SUFFICES Expected(b, C, found) =
               IF found # 0 THEN Failure("duplicate_model")
               ELSE IF b[v] \notin String THEN Failure("invalid_model")
               ELSE IF D = {} THEN Location(v) ELSE Failure("duplicate_model")
  BY DEF Expected, C
<1> QED BY <1>1, <1>2, <1>3 DEF Expected

\* From here on the loop says of an object what is expected of it.
Reads(b, x) ==
  \A l \in x[1] .. Len(b) :
    b[l] = "rbrace" /\ Gap(b, l + 1, Len(b) + 1) /\ Derives(b)[<<"rbrace", x[1], l, 1>>]
      /\ Enclosing(b, x[1]) = 1
    => LocateFrom(b)[x] = Expected(b, Left(b, x[1]), x[2])

\* A round reads an object rightly, if the next one does.
LEMMA ReadsStep ==
  ASSUME NEW b \in Seq(Token), NEW x \in Rounds(b),
         \A y \in Rounds(b) : Len(b) + 1 - y[1] < Len(b) + 1 - x[1] => Reads(b, y)
  PROVE  Reads(b, x)
<1>0. /\ Len(b) \in Nat /\ MaxDepth \in Nat \ {0} /\ DOMAIN b = 1 .. Len(b)
      /\ 1 \in 0 .. MaxDepth + 1
  BY JsonAssumption
<1> DEFINE i == x[1]
           found == x[2]
<1>1. i \in 1 .. Len(b) + 1 /\ found \in 0 .. Len(b) /\ x = <<i, found>>
  BY DEF Rounds
<1> SUFFICES ASSUME NEW l \in i .. Len(b), b[l] = "rbrace", Gap(b, l + 1, Len(b) + 1),
                    Derives(b)[<<"rbrace", i, l, 1>>], Enclosing(b, i) = 1
             PROVE  LocateFrom(b)[<<i, found>>] = Expected(b, Left(b, i), found)
  BY <1>1 DEF Reads
<1> HIDE DEF i, found
<1>2. l \in 1 .. Len(b) + 1 /\ l \in Nat /\ i \in Nat /\ l + 1 \in 1 .. Len(b) + 1
  BY <1>0, <1>1
<1>3. PICK k \in i .. l :
        /\ \E c \in i .. k - 1 : IsKey(b, i, c) /\ Derives(b)[<<"value", c + 1, k, 1>>]
        /\ k = l \/ (k < l /\ b[k] = "comma" /\ Derives(b)[<<"rbrace", k + 1, l, 1>>])
  <2>1. ElementsBy(Derives(b), b, i, l, 1, "rbrace")
    BY <1>0, <1>1, <1>2, DerivesElements
  <2>2. "rbrace" # "rbracket"
    OBVIOUS
  <2> QED BY <2>1, <2>2 DEF ElementsBy
<1>4. PICK c \in i .. k - 1 : IsKey(b, i, c) /\ Derives(b)[<<"value", c + 1, k, 1>>]
  BY <1>3
<1>5. /\ c \in i .. Len(b) /\ k \in c + 1 .. Len(b) /\ k \in Nat /\ c \in Nat \ {0}
      /\ k + 1 \in 1 .. Len(b) + 1 /\ i < k + 1
  BY <1>0, <1>1, <1>2
<1>6. b[k] \in {"comma", "rbrace"}
  BY <1>3
<1> DEFINE v == Blank(b, c + 1)
           isModel == At(b, Blank(b, i)) = ModelField
           after == FieldEnd(b, i)
           D == Left(b, k + 1)
           next == IF isModel THEN v ELSE found
<1>7. isModel <=> c \in Fields(b)
  BY <1>1, <1>4, <1>5, KeyField
<1>8. /\ Left(b, i) = (IF c \in Fields(b) THEN {c} ELSE {}) \cup D
      /\ b[k] = "comma" => Enclosing(b, k + 1) = 1
  <2>1. /\ Left(b, i) = (IF c \in Fields(b) THEN {c} ELSE {}) \cup D
        /\ Enclosing(b, k + 1) = Enclosing(b, k) + (IF b[k] = "comma" THEN 0 ELSE -1)
        /\ Enclosing(b, k) = 1
    BY <1>1, <1>4, <1>5, <1>6, LeftStep, SMTT(40)
  <2> QED BY <2>1
<1>9. SkipKey(b, i) = c + 1 /\ c + 1 # 0
  BY <1>1, <1>4, <1>5, KeyIs, SMTT(40)
<1>10. /\ v \in c + 1 .. k - 1
       /\ b[v] \in String \cup {"number", "literal"} \cup DOMAIN Closing
       /\ ~isModel \/ b[v] \in String => after \in c + 2 .. k /\ Gap(b, after, k)
  BY <1>1, <1>4, <1>5, <1>6, FieldComplete
<1>11. LocateFrom(b)[<<i, found>>] =
           IF c + 1 = 0 THEN Failure("invalid_json")
              ELSE IF isModel /\ Refused(b, v, found) # "" THEN Failure(Refused(b, v, found))
              ELSE IF after = 0 THEN Failure("invalid_json")
              ELSE IF Consume(b, after, "comma") # 0
                   THEN LocateFrom(b)[<<Consume(b, after, "comma"), next>>]
              ELSE IF Consume(b, after, "rbrace") # 0
                   THEN Finish(b, Consume(b, after, "rbrace"), next)
              ELSE Failure("invalid_json")
  BY <1>1, <1>9, Round, ZenonT(60)
<1>12. v \in DOMAIN b /\ At(b, v) = b[v] /\ v # 0 /\ v \in 0 .. Len(b)
  <2>1. v \in 1 .. Len(b)
    <3> HIDE DEF v
    <3> QED BY <1>0, <1>5, <1>10, SMTT(40)
  <2> HIDE DEF v
  <2> QED BY <1>0, <2>1 DEF At
<1>13. next \in 0 .. Len(b)
  <2> HIDE DEF v, isModel
  <2> QED BY <1>1, <1>12
<1>14. D \in SUBSET Nat /\ \A p \in D : c < p
  <2>1. \A p \in Fields(b) : p \in Nat
    BY <1>0 DEF Fields
  <2>2. \A p \in D : p \in Nat /\ p >= k + 1
    BY <2>1 DEF Left
  <2> HIDE DEF D
  <2> QED BY <1>5, <2>2, SMTT(40)
<1> HIDE DEF v, isModel, after, D, next
\* The rest of the object, once the value is behind.
<1>15. ASSUME ~isModel \/ b[v] \in String
       PROVE  /\ after # 0
              /\ \/ /\ Consume(b, after, "comma") # 0
                    /\ LocateFrom(b)[<<Consume(b, after, "comma"), next>>] = Expected(b, D, next)
                 \/ /\ Consume(b, after, "comma") = 0 /\ Consume(b, after, "rbrace") # 0
                    /\ Finish(b, Consume(b, after, "rbrace"), next) = Expected(b, D, next)
  <2>1. after \in c + 2 .. k /\ Gap(b, after, k) /\ after # 0 /\ after \in 1 .. Len(b) + 1
        /\ k \in after .. Len(b)
    <3>1. after \in c + 2 .. k /\ Gap(b, after, k)
      BY <1>10, <1>15
    <3> QED BY <1>0, <1>5, <3>1, SMTT(40)
  <2>2. \A t : Consume(b, after, t) = IF t = b[k] THEN k + 1 ELSE 0
    <3>1. b[k] # "blank"
      BY <1>6
    <3> QED BY <2>1, <3>1, ConsumeIs
  <2>3. k + 1 # 0
    BY <1>5
  <2>4. CASE k = l
    <3>1. Consume(b, after, "comma") = 0 /\ Consume(b, after, "rbrace") = k + 1
      BY <2>2, <2>4
    <3>2. Blank(b, k + 1) = Len(b) + 1
      <4>1. Len(b) + 1 \in k + 1 .. Len(b) + 1 /\ ~(Len(b) + 1 <= Len(b))
        BY <1>0, <1>5
      <4> QED BY <1>2, <2>4, <4>1, BlankIs
    <3>3. D = {}
      <4> SUFFICES ASSUME NEW p \in D PROVE FALSE
        OBVIOUS
      <4>1. p \in 1 .. Len(b) /\ p >= k + 1 /\ b[p] = "colon"
        BY <1>0 DEF D, Left, Fields
      <4>2. p \in l + 1 .. (Len(b) + 1) - 1
        BY <1>0, <1>2, <2>4, <4>1
      <4> QED BY <4>1, <4>2 DEF Gap
    <3>4. Finish(b, k + 1, next) = Expected(b, D, next)
      BY <3>2, <3>3 DEF Finish, Expected
    <3> QED BY <2>1, <2>3, <3>1, <3>4
  <2>5. CASE k < l /\ b[k] = "comma" /\ Derives(b)[<<"rbrace", k + 1, l, 1>>]
    <3>1. Consume(b, after, "comma") = k + 1
      BY <2>2, <2>5
    <3> DEFINE y == <<k + 1, next>>
    <3>2. y \in Rounds(b) /\ y[1] = k + 1 /\ y[2] = next
      BY <1>5, <1>13 DEF Rounds
    <3> HIDE DEF y
    <3>3. Len(b) + 1 - y[1] < Len(b) + 1 - i
      BY <1>0, <1>1, <1>5, <3>2
    <3>4. Reads(b, y)
      BY <3>2, <3>3 DEF i
    <3>5. l \in k + 1 .. Len(b)
      BY <1>2, <1>5, <2>5
    <3>6. LocateFrom(b)[y] = Expected(b, Left(b, k + 1), next)
      BY <1>8, <2>5, <3>2, <3>4, <3>5 DEF Reads
    <3> QED BY <2>1, <2>3, <3>1, <3>6 DEF y, D
  <2> QED BY <1>3, <2>4, <2>5
<1>16. CASE ~isModel
  <2>1. next = found /\ Left(b, i) = D
    BY <1>7, <1>8, <1>16 DEF next
  <2>2. LocateFrom(b)[<<i, found>>] = Expected(b, D, next)
    BY <1>9, <1>11, <1>15, <1>16
  <2> QED BY <2>1, <2>2
<1>17. CASE isModel
  <2>1. next = v /\ Left(b, i) = {c} \cup D
    BY <1>7, <1>8, <1>17 DEF next
  <2>2. Expected(b, {c} \cup D, found) =
          IF found # 0 THEN Failure("duplicate_model")
          ELSE IF b[v] \notin String THEN Failure("invalid_model")
          ELSE Expected(b, D, v)
    BY <1>1, <1>5, <1>12, <1>14, ExpectedStep, ZenonT(60) DEF v
  <2>3. Refused(b, v, found) = IF found # 0 THEN "duplicate_model"
                               ELSE IF b[v] \notin String THEN "invalid_model" ELSE ""
    <3>1. b[v] # "broken"
      BY <1>10, StringsApart, ClosingFact
    <3> QED BY <1>12, <3>1 DEF Refused
  <2>4. "duplicate_model" # "" /\ "invalid_model" # ""
    OBVIOUS
  <2>5. CASE found # 0
    BY <1>9, <1>11, <1>17, <2>1, <2>2, <2>3, <2>4, <2>5
  <2>6. CASE found = 0 /\ b[v] \notin String
    BY <1>9, <1>11, <1>17, <2>1, <2>2, <2>3, <2>4, <2>6
  <2>7. CASE found = 0 /\ b[v] \in String
    <3>1. LocateFrom(b)[<<i, found>>] = Expected(b, D, next)
      BY <1>9, <1>11, <1>15, <1>17, <2>3, <2>7
    <3> QED BY <2>1, <2>2, <2>7, <3>1
  <2> QED BY <2>5, <2>6, <2>7
<1> QED BY <1>16, <1>17

\* Every round reads what is left of an object rightly.
LEMMA RoundReads ==
  ASSUME NEW b \in Seq(Token), NEW x \in Rounds(b)
  PROVE  Reads(b, x)
<1> DEFINE T == {n \in Nat : \A y \in Rounds(b) : Len(b) + 1 - y[1] = n => Reads(b, y)}
<1>0. \A y \in Rounds(b) : Len(b) + 1 - y[1] \in Nat
  BY DEF Rounds
<1>1. ASSUME NEW n \in Nat, \A m \in Nat : m < n => m \in T PROVE n \in T
  <2> SUFFICES ASSUME NEW y \in Rounds(b), Len(b) + 1 - y[1] = n PROVE Reads(b, y)
    OBVIOUS
  <2>1. \A z \in Rounds(b) : Len(b) + 1 - z[1] < Len(b) + 1 - y[1] => Reads(b, z)
    BY <1>0, <1>1
  <2> QED BY <2>1, ReadsStep
<1>2. \A n \in Nat : n \in T
  <2> HIDE DEF T
  <2> QED BY <1>1, Induct
<1> QED
  BY <1>0, <1>2

\* Of an object locateTopLevelModel says what its description says.
THEOREM LocateComplete ==
  ASSUME NEW b \in Seq(Token), IsBody(b)
  PROVE  Locate(b) = Described(b)
<1>0. Len(b) \in Nat /\ MaxDepth \in Nat \ {0} /\ DOMAIN b = 1 .. Len(b) /\ 1 \in Nat
  BY JsonAssumption
<1>1. 1 \in 1 .. Len(b) + 1 /\ Len(b) + 1 \in 1 .. Len(b) + 1 /\ 0 \in 0 .. MaxDepth + 1
      /\ 1 \in 0 .. MaxDepth + 1
  BY <1>0
<1>2. PICK k \in 1 .. Len(b) : Gap(b, 1, k) /\ b[k] = "lbrace"
  BY <1>0 DEF IsBody
<1>3. PICK m \in 1 .. (Len(b) + 1) - 1 :
        /\ Gap(b, 1, m)
        /\ \/ b[m] \in String \cup {"number", "literal"} /\ Gap(b, m + 1, Len(b) + 1)
           \/ /\ b[m] \in DOMAIN Closing
              /\ \E l \in m + 1 .. (Len(b) + 1) - 1 :
                   /\ b[l] = Closing[b[m]] /\ Gap(b, l + 1, Len(b) + 1)
                   /\ Gap(b, m + 1, l) \/ Derives(b)[<<b[l], m + 1, l, 0 + 1>>]
  <2>1. ValueBy(Derives(b), b, 1, Len(b) + 1, 0)
    BY <1>1, DerivesValue DEF IsBody
  <2> QED BY <2>1 DEF ValueBy
<1>4. Blank(b, 1) = k /\ Blank(b, 1) = m
  <2>1. k \in 1 .. Len(b) + 1 /\ m \in 1 .. Len(b) + 1 /\ b[k] # "blank"
    BY <1>0, <1>2
  <2>2. b[m] # "blank"
    BY <1>3, NotStart
  <2> QED BY <1>1, <1>2, <1>3, <2>1, <2>2, BlankIs
<1>5. b[m] = "lbrace" /\ b[m] \notin String \cup {"number", "literal"}
  BY <1>2, <1>4, StringsApart DEF Punctuation
<1>6. PICK l \in m + 1 .. Len(b) :
        /\ b[l] = "rbrace" /\ Gap(b, l + 1, Len(b) + 1)
        /\ Gap(b, m + 1, l) \/ Derives(b)[<<"rbrace", m + 1, l, 1>>]
  <2>1. \E l \in m + 1 .. (Len(b) + 1) - 1 :
          /\ b[l] = "rbrace" /\ Gap(b, l + 1, Len(b) + 1)
          /\ Gap(b, m + 1, l) \/ Derives(b)[<<b[l], m + 1, l, 0 + 1>>]
    BY <1>3, <1>5, ClosingFact
  <2>2. (Len(b) + 1) - 1 = Len(b) /\ 0 + 1 = 1
    BY <1>0
  <2> QED BY <2>1, <2>2
<1>7. m \in 1 .. Len(b) /\ m + 1 \in 1 .. Len(b) + 1 /\ l \in 1 .. Len(b) + 1 /\ m \in Nat \ {0}
  BY <1>0, <1>6
<1>8. Consume(b, 1, "lbrace") = m + 1 /\ m + 1 # 0
  <2>1. b[m] # "blank"
    BY <1>5
  <2> QED BY <1>1, <1>3, <1>5, <1>7, <2>1, ConsumeIs
<1>9. \A p \in Fields(b) : p \in 1 .. Len(b) /\ b[p] = "colon" /\ p >= m + 1
  <2> TAKE p \in Fields(b)
  <2>1. p \in 1 .. Len(b) /\ b[p] = "colon"
    BY <1>0 DEF Fields
  <2>2. p \notin 1 .. m - 1
    BY <1>3, <2>1 DEF Gap
  <2>3. p # m
    BY <1>5, <2>1
  <2> QED BY <1>7, <2>1, <2>2, <2>3
<1>10. CASE Gap(b, m + 1, l)
  <2>1. Consume(b, m + 1, "rbrace") = l + 1 /\ l + 1 # 0
    <3>1. b[l] # "blank" /\ l \in m + 1 .. Len(b)
      BY <1>6
    <3> QED BY <1>6, <1>7, <1>10, <3>1, ConsumeIs
  <2>2. Locate(b) = Failure("missing_model")
    BY <1>8, <2>1 DEF Locate
  <2>3. Fields(b) = {}
    <3> SUFFICES ASSUME NEW p \in Fields(b) PROVE FALSE
      OBVIOUS
    <3>1. p \in 1 .. Len(b) /\ b[p] = "colon" /\ p >= m + 1
      BY <1>9
    <3>2. p # l
      BY <1>6, <3>1
    <3>3. p \in m + 1 .. l - 1 \/ p \in l + 1 .. (Len(b) + 1) - 1
      BY <1>0, <1>6, <1>7, <3>1, <3>2
    <3> QED BY <1>6, <1>10, <3>1, <3>3 DEF Gap
  <2>4. Described(b) = Failure("missing_model")
    BY <2>3, DescribedExpected DEF Expected
  <2> QED BY <2>2, <2>4
<1>11. CASE Derives(b)[<<"rbrace", m + 1, l, 1>>]
  <2>1. Consume(b, m + 1, "rbrace") = 0
    <3>1. PICK r \in m + 1 .. l - 1 :
            Gap(b, m + 1, r) /\ b[r] \in String \cup {"number", "literal"} \cup DOMAIN Closing
      BY <1>1, <1>7, <1>11, ElementsStart
    <3>2. b[r] # "blank" /\ b[r] # "rbrace" /\ r \in m + 1 .. Len(b)
      BY <1>0, <1>6, <1>7, <3>1, NotStart
    <3> QED BY <1>7, <3>1, <3>2, ConsumeIs
  <2>2. Locate(b) = LocateFrom(b)[<<m + 1, 0>>]
    BY <1>8, <2>1 DEF Locate
  <2>3. Enclosing(b, m + 1) = 1
    <3>1. \A p \in 1 .. m - 1 : b[p] \notin DOMAIN Closing \cup {"rbrace", "rbracket"}
      BY <1>3, ClosingFact DEF Gap
    <3>2. \A p \in 1 .. m : Enclosing(b, p) = Enclosing(b, 1)
      <4>1. 1 \in Nat \ {0} /\ m \in Nat /\ 1 <= m
        BY <1>7
      <4> QED BY <3>1, <4>1, LevelKept
    <3>3. Enclosing(b, m) = 0
      <4>1. m \in 1 .. m
        BY <1>7
      <4> QED BY <3>2, <4>1, EnclosingFirst
    <3>4. Enclosing(b, m + 1) = Enclosing(b, m) + 1
      BY <1>5, <1>7, EnclosingStep, ClosingFact
    <3> QED BY <3>3, <3>4
  <2> DEFINE x == <<m + 1, 0>>
  <2>4. x \in Rounds(b) /\ x[1] = m + 1 /\ x[2] = 0
    BY <1>0, <1>7 DEF Rounds
  <2> HIDE DEF x
  <2>5. Reads(b, x)
    BY <2>4, RoundReads
  <2>6. LocateFrom(b)[x] = Expected(b, Left(b, m + 1), 0)
    BY <1>6, <1>11, <2>3, <2>4, <2>5 DEF Reads
  <2>7. Left(b, m + 1) = Fields(b)
    BY <1>9 DEF Left
  <2> QED BY <2>2, <2>6, <2>7, DescribedExpected DEF x
<1> QED BY <1>6, <1>10, <1>11

\* The scanner and the grammar agree on every body.
THEOREM ScannerExact == \A b \in Seq(Token) : Agrees(b)
<1> TAKE b \in Seq(Token)
<1>1. CASE IsBody(b)
  BY <1>1, LocateComplete DEF Agrees
<1>2. CASE ~IsBody(b)
  BY <1>2, LocateSound DEF Agrees, IsLocation
<1> QED BY <1>1, <1>2

-----------------------------------------------------------------------------
(* The handler. *)

\* No body is read in another way than the grammar describes it, so no request is
\* answered, routed or rewritten for another model than the one it names.
THEOREM BodiesRead == Spec => []LocateExact
<1>1. Misread = {}
  BY ScannerExact, BodiesAssumption DEF Misread
<1>2. LocateExact
  BY <1>1 DEF LocateExact
<1> QED
  BY <1>2, PTL

=============================================================================
