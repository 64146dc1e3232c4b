----------------------------- MODULE VectorCodec -----------------------------
(***************************************************************************)
(* How backend/server.js carries an embedding: every component x becomes   *)
(* Math.round(x * 255).toString(16).padStart(2, '0'), the strings are      *)
(* joined, and hexToVector cuts the result into pairs of characters that   *)
(* parseInt reads.  A component is the integer Math.round(x * 255), from   *)
(* -255 to 255, as the embedding is a part of a unit vector.  A character  *)
(* is the value of a hexadecimal digit, or Sign.                           *)
(*                                                                         *)
(* hexToVector divides every component by 255, which changes neither the   *)
(* sign of a similarity nor whether there is one, and is left out.         *)
(***************************************************************************)
EXTENDS Integers, SequencesExt, FiniteSets

Component == -255..255

CONSTANTS
  Sample,      \* the components looked at
  Dimension    \* bound on the length of the vectors; 100 in the code

ASSUME SampleAssumption == Sample \subseteq Component

VARIABLES query, paper    \* the embeddings of a query and of a paper

(* The character '-', and a number that is not one, told apart from every  *)
(* digit and every component.                                              *)
Sign == -1
NaN  == 256

(* Number.prototype.toString(16), for at most two digits.                  *)
Digits(n) == IF n < 16 THEN << n >> ELSE << n \div 16, n % 16 >>
ToHex(n)  == IF n < 0 THEN << Sign >> \o Digits(-n) ELSE Digits(n)

(* padStart(2, '0'): the sign counts as a character.                       *)
PadStart(s) == IF Len(s) < 2 THEN << 0 >> \o s ELSE s

(* Mutant of Hex: one digit stays one digit.                               *)
HexUnpadded(n) == ToHex(n)

(* The string of one component, and those of a vector, joined.             *)
Hex(n) == PadStart(ToHex(n))
Encode(v) == FlattenSeq([i \in 1..Len(v) |-> Hex(v[i])])

(* hex.match(/.{1,2}/g): pairs from the left, the last may be single.      *)
Pairs(s) ==
  [i \in 1..((Len(s) + 1) \div 2) |->
     IF 2 * i <= Len(s) THEN << s[2 * i - 1], s[2 * i] >> ELSE << s[2 * i - 1] >>]

(* The number that digits d stand for in base 16.                          *)
Number(d) == IF Len(d) = 1 THEN d[1] ELSE 16 * d[1] + d[2]

(* parseInt(p, 16) of one or two characters: an optional sign, then the    *)
(* digits up to the first other character; NaN when there is none.         *)
ParseInt(p) ==
  IF p[1] = Sign THEN IF Len(p) = 1 \/ p[2] = Sign THEN NaN ELSE -p[2]
  ELSE IF Len(p) = 2 /\ p[2] = Sign THEN p[1]
  ELSE Number(p)

(* hexToVector, after the prefix 0x.                                       *)
Decode(s) == [i \in 1..Len(Pairs(s)) |-> ParseInt(Pairs(s)[i])]

IsZero(v) == \A i \in 1..Len(v) : v[i] = 0

(* Mutant of DotDefined: the shorter vector decides.                       *)
DotDefinedWhile(a, b) == \A i \in 1..Len(a) : i <= Len(b) => a[i] # NaN /\ b[i] # NaN

(* Whether the dot product is a number: a.reduce runs over all of a, and   *)
(* b[i] past the end of b is undefined.                                    *)
DotDefined(a, b) == \A i \in 1..Len(a) : a[i] # NaN /\ i <= Len(b) /\ b[i] # NaN

(* Whether cosineSimilarity of two strings is a number: neither magnitude  *)
(* is 0 or NaN, and the dot product is a number.                           *)
SimilarityDefined(s, t) ==
  LET a == Decode(s)
      b == Decode(t)
  IN  /\ DotDefined(a, b)
      /\ \A i \in 1..Len(b) : b[i] # NaN
      /\ ~ IsZero(a) /\ ~ IsZero(b)

-----------------------------------------------------------------------------
(* Every query and every paper of equal length over Sample, one component  *)
(* after the other.                                                        *)
Unembedded == query = << >> /\ paper = << >>

Extend(x, y) ==
  /\ Len(query) < Dimension
  /\ query' = Append(query, x)
  /\ paper' = Append(paper, y)

Embed == \E x, y \in Sample : Extend(x, y)

Embeddings == Unembedded /\ [][Embed]_<< query, paper >>

-----------------------------------------------------------------------------
(* The components of v that take three characters: from -16 down.          *)
Wide(v) == {i \in 1..Len(v) : v[i] <= -16}

(* The components before the first of -16 or less come back as they were   *)
(* sent, the small negative ones included, whose sign takes the place of   *)
(* the leading zero (server.js:183, 90); with none, the whole vector does. *)
NarrowPrefixSurvives ==
  LET decoded == Decode(Encode(paper))
  IN  \A k \in 1..Len(paper) :
        (\A i \in 1..k : i \notin Wide(paper)) => decoded[k] = paper[k]

(* A search has a similarity for a paper exactly if the query is not the   *)
(* longer one of the two after decoding, and neither vector is zero: that  *)
(* is decided by how many components of each are -16 or less, not by the   *)
(* papers (server.js:93-101, 207-212).                                     *)
SimilarityGaps ==
  SimilarityDefined(Encode(query), Encode(paper))
    <=> /\ (Cardinality(Wide(query)) + 1) \div 2 <= (Cardinality(Wide(paper)) + 1) \div 2
        /\ ~ IsZero(query) /\ ~ IsZero(paper)

=============================================================================
