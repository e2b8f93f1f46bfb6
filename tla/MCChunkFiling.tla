--------------------------- MODULE MCChunkFiling ---------------------------
(* Small filings: with and without contents, PART lines and items that are *)
(* named again.  Sizes stand to each other as they do in the code: a       *)
(* contents row is small, the bounds of sections and contents are equal.   *)
EXTENDS ChunkFiling

Line(kind, part, item, size, tokens) ==
  [kind |-> kind, part |-> part, item |-> item, size |-> size,
   tokens |-> tokens, of |-> <<None, None>>]

Part(p) == Line("part", p, None, 1, 1)

Text(size) == Line("text", None, None, size, size)

(* Parts and items of a 10-K, where items count on, and of a 10-Q          *)
Annual == <<<<1, 1>>, <<1, 2>>, <<2, 3>>, <<2, 4>>>>
Quarterly == <<<<1, 1>>, <<1, 2>>, <<2, 1>>, <<2, 2>>>>

(* A PART line stands in front of the first of its items.                  *)
OpensPart(keys, n) == n = 1 \/ keys[n - 1][1] # keys[n][1]

RowsOf(keys) ==
  FlattenSeq([n \in 1..Len(keys) |->
    (IF OpensPart(keys, n) THEN <<Part(keys[n][1])>> ELSE <<>>)
      \o <<Line("contents", None, keys[n][2], 1, 1)>>])

(* 0 in a body names its item again.                                       *)
LinesOf(key, body) ==
  [n \in 1..Len(body) |->
     IF body[n] = 0 THEN Line("repeat", None, key[2], 1, 1) ELSE Text(body[n])]

SectionsFor(keys, bodies, parts) ==
  FlattenSeq([n \in 1..Len(keys) |->
    (IF parts /\ OpensPart(keys, n) THEN <<Part(keys[n][1])>> ELSE <<>>)
      \o <<[Line("heading", None, keys[n][2], 1, 1) EXCEPT !.of = keys[n]]>>
      \o LinesOf(keys[n], bodies[n])])

Bodies == {<<>>, <<2>>, <<3>>, <<2, 4>>, <<1, 0, 4>>}

Filing(keys, bodies, contents, parts) ==
  (IF contents THEN RowsOf(keys) ELSE <<Text(2)>>)
    \o SectionsFor(keys, bodies, parts)

Several ==
  UNION {{Filing(keys, bodies, contents, parts) :
            contents \in BOOLEAN, parts \in BOOLEAN,
            bodies \in [1..Len(keys) -> Bodies]} :
         keys \in {Annual, Quarterly, SubSeq(Annual, 1, 3), SubSeq(Quarterly, 2, 4)}}

(* One section with sentences of many sizes, also with more tokens than    *)
(* characters and with fewer, and a filing without headings                *)
Sentences ==
  {Line("text", None, None, of[1], of[2]) :
     of \in {<<1, 1>>, <<1, 3>>, <<2, 2>>, <<4, 2>>, <<8, 8>>}}

OneSection ==
  UNION {{<<Text(2), Part(1)>>
            \o <<[Line("heading", None, 1, 1, 1) EXCEPT !.of = <<1, 1>>]>> \o body :
            body \in [1..n -> Sentences]} : n \in 1..5}

NoSection == {<<Text(3), Text(2), Text(6)>>, <<Part(1), Text(1)>>}

MCFilings == Several \cup OneSection \cup NoSection
=============================================================================
