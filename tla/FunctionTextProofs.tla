--------------------------- MODULE FunctionTextProofs ---------------------------
(***************************************************************************)
(* Theorems about paginate, _get_data_type and add_pre_comment_at_c_line,   *)
(* for every iterable, offset, limit, type as written, listing and line.    *)
(***************************************************************************)
EXTENDS FunctionText, SequenceTheorems, WellFoundedInduction, TLAPS

\* Three pieces of a sequence that lie end to end make up the sequence.
LEMMA Pieces ==
    ASSUME NEW S, NEW s \in Seq(S), NEW m \in 0 .. Len(s), NEW n \in m .. Len(s)
    PROVE  SubSeq(s, 1, m) \o SubSeq(s, m + 1, n) \o SubSeq(s, n + 1, Len(s)) = s
<1>1. /\ 1 \in 1 .. Len(s) + 1 /\ m \in 1 - 1 .. Len(s) /\ n \in m .. Len(s)
      /\ n \in 1 - 1 .. Len(s) /\ Len(s) \in n .. Len(s)
  OBVIOUS
<1>2. SubSeq(s, 1, m) \o SubSeq(s, m + 1, n) = SubSeq(s, 1, n)
  BY <1>1, ConcatAdjacentSubSeq
<1>3. SubSeq(s, 1, n) \o SubSeq(s, n + 1, Len(s)) = SubSeq(s, 1, Len(s))
  BY <1>1, ConcatAdjacentSubSeq
<1>4. SubSeq(s, 1, Len(s)) = s
  BY SubSeqFull
<1> QED
  BY <1>2, <1>3, <1>4

\* A page that islice yields, with what it skips and leaves.
LEMMA SliceTiles ==
    ASSUME NEW S, NEW s \in Seq(S), NEW o \in Int, NEW l \in Int \cup {NoLimit},
           Slice(s, o, Stop(o, l)).kind = "page"
    PROVE  LET r == Slice(s, o, Stop(o, l))
           IN  /\ SubSeq(s, 1, Least(o, Len(s))) \o r.page \o r.rest = s
               /\ Len(r.page) = IF l = NoLimit THEN Most(0, Len(s) - o)
                                ELSE Least(Most(0, l), Most(0, Len(s) - o))
<1> DEFINE stop == Stop(o, l)
           last == IF stop = NoLimit THEN Len(s) ELSE Least(stop, Len(s))
           m == Least(o, Len(s))
           n == Most(m, last)
<1>1. /\ Len(s) \in Nat /\ o \in Nat
      /\ stop = NoLimit \/ (stop \in Nat /\ l \in Int /\ stop = o + l)
      /\ stop = NoLimit <=> l = NoLimit
      /\ Slice(s, o, stop).page = SubSeq(s, o + 1, last)
      /\ Slice(s, o, stop).rest = SubSeq(s, n + 1, Len(s))
  <2>1. ~(o < 0 \/ (stop # NoLimit /\ stop < 0))
    BY DEF Slice
  <2>2. /\ stop = NoLimit <=> l = NoLimit
        /\ l # NoLimit => l \in Int /\ stop = o + l /\ stop \in Int
    BY PagesAssumption DEF Stop
  <2> DEFINE page == SubSeq(s, o + 1, last)
             rest == SubSeq(s, n + 1, Len(s))
  <2>3. Slice(s, o, stop) = [kind |-> "page", page |-> page, rest |-> rest]
    BY <2>1 DEF Slice
  <2> HIDE DEF page, rest
  <2>4. Slice(s, o, stop).page = page /\ Slice(s, o, stop).rest = rest
    BY <2>3
  <2> QED
    BY <2>1, <2>2, <2>4 DEF page, rest
<1>2. /\ last \in 0 .. Len(s) /\ m \in 0 .. Len(s) /\ n \in m .. Len(s)
  BY <1>1 DEF Least, Most
<1>3. SubSeq(s, o + 1, last) = SubSeq(s, m + 1, n)
  <2>1. CASE o < last
    <3>1. m = o /\ n = last
      BY <1>1, <2>1 DEF Least, Most
    <3> QED
      BY <3>1
  <2>2. CASE o >= last
    <3>1. m >= last /\ n = m
      BY <1>1, <1>2, <2>2 DEF Least, Most
    <3>2. SubSeq(s, o + 1, last) = <<>>
      BY <1>1, <1>2, <2>2
    <3>3. SubSeq(s, m + 1, n) = <<>>
      BY <1>1, <1>2, <3>1
    <3> QED
      BY <3>2, <3>3
  <2>3. o < last \/ o >= last
    <3> HIDE DEF last
    <3> QED
      BY <1>1, <1>2
  <2> QED
    BY <2>1, <2>2, <2>3
<1>4. Len(SubSeq(s, m + 1, n)) = n - m
  BY <1>2
<1>5. n - m = IF l = NoLimit THEN Most(0, Len(s) - o) ELSE Least(Most(0, l), Most(0, Len(s) - o))
  BY <1>1 DEF Least, Most
<1>6. SubSeq(s, 1, m) \o SubSeq(s, m + 1, n) \o SubSeq(s, n + 1, Len(s)) = s
  BY <1>2, Pieces
<1> HIDE DEF n, last, m, stop
<1> QED
  <2>1. Slice(s, o, stop).page = SubSeq(s, m + 1, n)
    BY <1>1, <1>3
  <2>2. Slice(s, o, stop).rest = SubSeq(s, n + 1, Len(s))
    BY <1>1
  <2>3. SubSeq(s, 1, Least(o, Len(s))) \o Slice(s, o, stop).page \o Slice(s, o, stop).rest = s
    BY <1>6, <2>1, <2>2 DEF m
  <2> QED
    BY <1>4, <1>5, <2>1, <2>3 DEF stop

\* Pages neither skip nor repeat an item, for every iterable, offset and limit.
THEOREM PagesOfAnything == TextSpec => []PagesTile
<1>1. TextInit => PagesTile
  BY DEF TextInit, PagesTile
<1>2. ASSUME PagesTile, [TextNext]_textVars PROVE PagesTile'
  <2>1. CASE Page
    <3>1. PICK s \in Iterables, o \in Offsets, l \in Limits :
              /\ asked' = [fn |-> "page", items |-> s, offset |-> o, limit |-> l]
              /\ answer' = Slice(s, o, Stop(o, l))
      BY <2>1 DEF Page
    <3>2. s \in Seq({s[k] : k \in DOMAIN s}) /\ o \in Int /\ l \in Int \cup {NoLimit}
      BY PagesAssumption
    <3>3. asked'.items = s /\ asked'.offset = o /\ asked'.limit = l
      BY <3>1
    <3> QED
      BY <3>1, <3>2, <3>3, SliceTiles DEF PagesTile
  <2>2. CASE Comment \/ SetType
    <3>1. asked'.fn # "page"
      BY <2>2 DEF Comment, SetType
    <3> QED
      BY <3>1 DEF PagesTile
  <2>3. CASE UNCHANGED textVars
    BY <1>2, <2>3 DEF PagesTile, textVars
  <2> QED
    BY <1>2, <2>1, <2>2, <2>3 DEF TextNext
<1> QED
  BY <1>1, <1>2, PTL DEF TextSpec

\* The size of what is set is the size of what is written up to the first
\* brackets, for every type.
THEOREM SizesAsWritten == TextSpec => []SizeAsWritten
<1>1. TextInit => SizeAsWritten
  BY DEF TextInit, SizeAsWritten
<1>2. ASSUME SizeAsWritten, [TextNext]_textVars PROVE SizeAsWritten'
  <2>1. CASE SetType
    <3>1. PICK t \in TypeTexts : asked' = [fn |-> "type", text |-> t] /\ answer' = DataType(t)
      BY <2>1 DEF SetType
    <3>2. asked'.text = t
      BY <3>1
    <3>3. \/ /\ t.dims = <<>> /\ t.base \notin KnownTypes /\ answer' = Unknown
          \/ /\ t.dims = <<>> /\ t.stars > 0 /\ answer' = Pointer(Base(t.base))
          \/ /\ t.dims = <<>> /\ ~(t.stars > 0) /\ answer' = Base(t.base)
          \/ answer' = Raises
          \/ /\ t.base \in KnownTypes
             /\ answer' = Array(Pointed(t), t.dims[1])
      BY <3>1 DEF DataType, Pointed
    <3>4. t.base \in KnownTypes => (Pointed(t).kind = "pointer" <=> t.stars > 0)
      BY DEF Pointed, Pointer, Base
    <3> QED
      BY <3>2, <3>3, <3>4
      DEF SizeAsWritten, Unknown, Raises, Pointer, Base, Array
  <2>2. CASE Comment \/ Page
    <3>1. asked'.fn # "type"
      BY <2>2 DEF Comment, Page
    <3> QED
      BY <3>1 DEF SizeAsWritten
  <2>3. CASE UNCHANGED textVars
    BY <1>2, <2>3 DEF SizeAsWritten, textVars
  <2> QED
    BY <1>2, <2>1, <2>2, <2>3 DEF TextNext
<1> QED
  BY <1>1, <1>2, PTL DEF TextSpec

\* A search from the front of a sequence finds the first place, if any.
LEMMA EarliestIs ==
    ASSUME NEW S \in SUBSET Nat, S # {}
    PROVE  Earliest(S) \in S /\ \A j \in S : Earliest(S) <= j
<1>1. PICK k \in S : \A j \in S : <<j, k>> \notin OpToRel(<, Nat)
  BY NatLessThanWellFounded, WFMin
<1>2. \A j \in S : ~(j < k)
  BY <1>1, Zenon DEF OpToRel
<1>3. \A j \in S : k <= j
  BY <1>2
<1> QED
  BY <1>3 DEF Earliest

\* The places of a sequence are 1 to its length.
LEMMA Places == ASSUME NEW S, NEW s \in Seq(S)
                PROVE  Len(s) \in Nat /\ DOMAIN s = 1 .. Len(s) /\ DOMAIN s \subseteq Nat
  OBVIOUS

\* What _addr_for_line says of a line of a listing.
LEMMA AddrForLineIs ==
    ASSUME NEW lines \in Listings, NEW i \in DOMAIN lines
    PROVE  LET line == lines[i] IN
           /\ AddrForLine(line) # NoAddr <=> HasAddr(line)
           /\ HasAddr(line) =>
                 \/ \E k \in DOMAIN line.tokens : AddrForLine(line) = line.tokens[k]
                 \/ /\ \A k \in DOMAIN line.tokens : line.tokens[k] = NoAddr
                    /\ AddrForLine(line) = line.closest
<1> DEFINE line == lines[i]
           own == {k \in DOMAIN line.tokens : line.tokens[k] # NoAddr}
<1>1. DOMAIN line.tokens \subseteq Nat
  <2>1. line.tokens \in Seq({line.tokens[k] : k \in DOMAIN line.tokens})
    BY ListingsAssumption
  <2> QED
    BY <2>1, Places
<1>2. CASE own = {}
  BY <1>2 DEF AddrForLine, HasAddr
<1>3. CASE own # {}
  <2>1. Earliest(own) \in own
    BY <1>1, <1>3, EarliestIs
  <2>2. AddrForLine(line) = line.tokens[Earliest(own)]
    BY <1>3 DEF AddrForLine
  <2> QED
    BY <2>1, <2>2 DEF HasAddr
<1> QED
  BY <1>2, <1>3

\* A comment goes to the line it is meant for or the next that has an address,
\* and one for the last line or none of the listing to the first, whatever the
\* listing and however lines are numbered.
THEOREM CommentsArePlaced == TextSpec => []CommentPlaced
<1>1. TextInit => CommentPlaced
  BY DEF TextInit, CommentPlaced
<1>2. ASSUME CommentPlaced, [TextNext]_textVars PROVE CommentPlaced'
  <2>1. CASE Comment
    <3>1. PICK lines \in Listings, n \in Requests :
              /\ asked' = [fn |-> "comment", lines |-> lines, n |-> n]
              /\ answer' = Placement(n, lines)
      BY <2>1 DEF Comment
    <3>2. asked'.lines = lines /\ asked'.n = n
      BY <3>1
    <3> DEFINE want    == IF n \in 1 .. Len(lines) - 1 THEN n ELSE 1
               From(m) == {i \in DOMAIN lines : lines[i].number + 1 >= m}
               found   == Candidates(n, lines)
    <3> SUFFICES \/ /\ \A i \in From(want) : ~HasAddr(lines[i])
                    /\ answer' = [at |-> Entry, line |-> 1]
                 \/ \E i \in From(want) :
                       /\ answer'.line = lines[i].number + 1
                       /\ answer'.at # NoAddr
                       /\ \/ \E k \in DOMAIN lines[i].tokens :
                                answer'.at = lines[i].tokens[k]
                          \/ /\ \A k \in DOMAIN lines[i].tokens :
                                   lines[i].tokens[k] = NoAddr
                             /\ answer'.at = lines[i].closest
                       /\ \A j \in From(want) : HasAddr(lines[j]) => i <= j
      BY <3>2 DEF CommentPlaced
    <3>i. lines \in Seq({lines[i] : i \in DOMAIN lines})
      BY ListingsAssumption
    <3>3. Len(lines) \in Nat /\ n \in Int
      BY <3>i, Places, RequestsAssumption
    <3>d. DOMAIN lines \subseteq Nat
      BY <3>i, Places
    <3>n. \A i \in DOMAIN lines : lines[i].number \in Int
      BY ListingsAssumption
    <3>4. Clamped(n, lines) = want
      <4>1. PICK len \in Nat : len = Len(lines)
        BY <3>3
      <4>2. CASE n \in 1 .. len - 1
        <5>1. ~(n - 1 < 0 \/ n >= len)
          BY <3>3, <4>1, <4>2
        <5> QED
          BY <4>1, <4>2, <5>1 DEF Clamped
      <4>3. CASE n \notin 1 .. len - 1
        <5>1. n - 1 < 0 \/ n >= len
          BY <3>3, <4>1, <4>3
        <5> QED
          BY <4>1, <4>3, <5>1 DEF Clamped
      <4> QED
        BY <4>2, <4>3
    <3>5. found = {i \in From(want) : HasAddr(lines[i])}
      <4>1. want \in Int
        BY <3>3
      <4>2. \A i \in DOMAIN lines : lines[i].number >= want - 1 <=> lines[i].number + 1 >= want
        <5> HIDE DEF want
        <5> QED
          BY <3>n, <4>1
      <4>3. \A i \in DOMAIN lines : AddrForLine(lines[i]) # NoAddr <=> HasAddr(lines[i])
        BY AddrForLineIs
      <4> HIDE DEF want
      <4> QED
        BY <3>4, <4>2, <4>3 DEF Candidates
    <3>6. CASE found = {}
      BY <3>1, <3>5, <3>6 DEF Placement
    <3>7. CASE found # {}
      <4>0. found \in SUBSET Nat
        BY <3>d DEF Candidates
      <4>1. PICK i \in found : i = Earliest(found) /\ \A j \in found : i <= j
        <5> HIDE DEF found
        <5> QED
          BY <3>7, <4>0, EarliestIs
      <4>2. answer' = [at |-> AddrForLine(lines[i]), line |-> lines[i].number + 1]
        BY <3>1, <3>7, <4>1 DEF Placement
      <4>3. i \in From(want) /\ HasAddr(lines[i])
        BY <3>5
      <4>4. answer'.at = AddrForLine(lines[i]) /\ answer'.line = lines[i].number + 1
        BY <4>2
      <4>5. /\ AddrForLine(lines[i]) # NoAddr
            /\ \/ \E k \in DOMAIN lines[i].tokens : AddrForLine(lines[i]) = lines[i].tokens[k]
               \/ /\ \A k \in DOMAIN lines[i].tokens : lines[i].tokens[k] = NoAddr
                  /\ AddrForLine(lines[i]) = lines[i].closest
        BY <4>3, AddrForLineIs
      <4>6. \A j \in From(want) : HasAddr(lines[j]) => i <= j
        BY <3>5, <4>1
      <4> QED
        BY <4>3, <4>4, <4>5, <4>6
    <3> QED
      BY <3>6, <3>7
  <2>2. CASE SetType \/ Page
    <3>1. asked'.fn # "comment"
      BY <2>2 DEF SetType, Page
    <3> QED
      BY <3>1 DEF CommentPlaced
  <2>3. CASE UNCHANGED textVars
    BY <1>2, <2>3 DEF CommentPlaced, textVars
  <2> QED
    BY <1>2, <2>1, <2>2, <2>3 DEF TextNext
<1> QED
  BY <1>1, <1>2, PTL DEF TextSpec
=============================================================================
