------------------------------ MODULE FunctionText ------------------------------
(***************************************************************************)
(* What callers give as numbers and text, and what is made of it: the line  *)
(* of the C listing a comment is meant for (add_pre_comment_at_c_line), a   *)
(* type written in C (_get_data_type), and the page of an iterable          *)
(* (paginate, util.py).  Each is a function of its arguments; a step asks   *)
(* one question and answers it.                                             *)
(*                                                                          *)
(* A line is a record of its number, the addresses of its tokens in order   *)
(* (NoAddr for a token without one: neither getMinAddress nor the pcode     *)
(* operation has any) and the address closest to some token, or NoAddr.     *)
(* A type is a record of its base name, the number of stars up to the first *)
(* bracket, and what follows from there on, in order: what stands between a *)
(* pair of brackets (NotInt for anything that int() refuses), or a Star.    *)
(***************************************************************************)
EXTENDS Integers, Sequences

CONSTANTS Listings,       \* sequences of lines: the decompiler's listings
          NoAddr, Entry,  \* no address; the entry point of the function
          Requests,       \* line numbers asked for
          KnownTypes,     \* the names of primitive types and of the data types
          TypeTexts,      \* types as written
          NotInt, Star,   \* no number between brackets; a star that follows brackets
          Iterables, Offsets, Limits,
          NoLimit         \* Python's None as a limit

ASSUME ListingsAssumption ==
    \A lines \in Listings :
        /\ lines \in Seq({lines[i] : i \in DOMAIN lines})
        /\ \A i \in DOMAIN lines :
              /\ lines[i].number \in Int
              /\ lines[i].tokens \in Seq({lines[i].tokens[k] : k \in DOMAIN lines[i].tokens})
ASSUME RequestsAssumption == Requests \subseteq Int
ASSUME PagesAssumption ==
    /\ Offsets \subseteq Int /\ Limits \subseteq Int \cup {NoLimit} /\ NoLimit \notin Int
    /\ \A s \in Iterables : s \in Seq({s[k] : k \in DOMAIN s})

VARIABLES asked,   \* the last question
          answer   \* what was returned or done

textVars == <<asked, answer>>

TextInit == asked = [fn |-> "none"] /\ answer = [fn |-> "none"]
-----------------------------------------------------------------------------
\* ---- add_pre_comment_at_c_line and _addr_for_line

\* Mutant of Clamped: lines beyond the last are not forced.
ClampedBelow(n, lines) == IF n - 1 < 0 THEN 1 ELSE n

Clamped(n, lines) == IF n - 1 < 0 \/ n >= Len(lines) THEN 1 ELSE n

\* The position a search from the front finds.
Earliest(S) == CHOOSE k \in S : \A j \in S : k <= j

\* The first token with an address of its own decides.
AddrForLine(line) ==
    LET own == {k \in DOMAIN line.tokens : line.tokens[k] # NoAddr}
    IN  IF own # {} THEN line.tokens[Earliest(own)] ELSE line.closest

\* The lines of the loop that resolve to an address.
Candidates(n, lines) ==
    {i \in DOMAIN lines : /\ lines[i].number >= Clamped(n, lines) - 1
                          /\ AddrForLine(lines[i]) # NoAddr}

Placement(n, lines) ==
    LET found == Candidates(n, lines)
        first == lines[Earliest(found)]
    IN  IF found = {} THEN [at |-> Entry, line |-> 1]
                      ELSE [at |-> AddrForLine(first), line |-> first.number + 1]

Comment == \E lines \in Listings, n \in Requests :
              /\ asked' = [fn |-> "comment", lines |-> lines, n |-> n]
              /\ answer' = Placement(n, lines)

\* ---- _get_data_type

Base(b)      == [kind |-> "base", name |-> b]
Pointer(t)   == [kind |-> "pointer", to |-> t]
Array(t, n)  == [kind |-> "array", of |-> t, count |-> n]
Unknown      == [kind |-> "unknown"]    \* Python's None: the type is left as it is
Raises       == [kind |-> "raises"]

\* All the stars make one pointer; an unknown base is not pointed to.
Pointed(t) == IF t.base \notin KnownTypes THEN Unknown
              ELSE IF t.stars > 0 THEN Pointer(Base(t.base)) ELSE Base(t.base)

\* Mutant of DataType: the array is built before the pointer.
PointerToArray(t) ==
    IF t.dims = <<>> \/ t.dims[1] = NotInt \/ t.base \notin KnownTypes \/ t.stars = 0
    THEN Pointed(t)
    ELSE Pointer(Array(Base(t.base), t.dims[1]))

\* The text between the first brackets is the length and what follows them is
\* not read; Ghidra refuses a negative length, and an array of an unknown type.
DataType(t) ==
    IF t.dims = <<>> THEN Pointed(t)
    ELSE IF t.dims[1] = NotInt \/ Pointed(t) = Unknown THEN Raises
    ELSE IF t.dims[1] < 0 THEN Raises
    ELSE Array(Pointed(t), t.dims[1])

SetType == \E t \in TypeTexts : /\ asked' = [fn |-> "type", text |-> t]
                                /\ answer' = DataType(t)

\* ---- paginate

\* Mutant of Stop: the offset is not added.
StopAtLimit(o, l) == l

\* The second bound given to islice.
Stop(o, l) == IF l = NoLimit THEN NoLimit ELSE o + l

Least(m, n) == IF m <= n THEN m ELSE n
Most(m, n)  == IF m <= n THEN n ELSE m

\* What islice yields, and what it leaves in the iterator: it consumes the
\* skipped items even when it yields none.  It refuses negative bounds.
Slice(s, o, stop) ==
    LET last == IF stop = NoLimit THEN Len(s) ELSE Least(stop, Len(s))
    IN  IF o < 0 \/ (stop # NoLimit /\ stop < 0) THEN [kind |-> "raises"]
        ELSE [kind |-> "page", page |-> SubSeq(s, o + 1, last),
              rest |-> SubSeq(s, Most(Least(o, Len(s)), last) + 1, Len(s))]

Page == \E s \in Iterables, o \in Offsets, l \in Limits :
           /\ asked' = [fn |-> "page", items |-> s, offset |-> o, limit |-> l]
           /\ answer' = Slice(s, o, Stop(o, l))

TextNext == Comment \/ SetType \/ Page

TextSpec == TextInit /\ [][TextNext]_textVars
-----------------------------------------------------------------------------
\* Some token of the line leads to an address.
HasAddr(line) == line.closest # NoAddr \/ \E k \in DOMAIN line.tokens : line.tokens[k] # NoAddr

\* A comment meant for a line of the listing goes to the first line from there
\* on that has an address, and that line is reported; if no line is left that
\* has an address the comment goes to the entry point.  Of the tokens of the
\* line, one with an address of its own is preferred.  A request outside the
\* listing counts as its first line, and so does a request for its last line:
\* the code tests >= (program.py:413), although the comment below it forces to
\* line 1 only what is "outside of the range of 1-len(lines)".
CommentPlaced ==
    asked.fn = "comment" =>
        LET lines == asked.lines
            n     == asked.n
            want  == IF n \in 1 .. Len(lines) - 1 THEN n ELSE 1
            From(m) == {i \in DOMAIN lines : lines[i].number + 1 >= m}
        IN  \/ /\ \A i \in From(want) : ~HasAddr(lines[i])
               /\ answer = [at |-> Entry, line |-> 1]
            \/ \E i \in From(want) :
                  /\ answer.line = lines[i].number + 1
                  /\ answer.at # NoAddr
                  /\ \/ \E k \in DOMAIN lines[i].tokens : answer.at = lines[i].tokens[k]
                     \/ /\ \A k \in DOMAIN lines[i].tokens : lines[i].tokens[k] = NoAddr
                        /\ answer.at = lines[i].closest
                  /\ \A j \in From(want) : HasAddr(lines[j]) => i <= j

\* What is set takes the room of what is written up to the first brackets: an
\* array of as many elements as they say, each a pointer if a star precedes them
\* and else the base type; nothing is set, silently, only for an unknown name.
\* What follows the first brackets the code drops, further brackets (int[3][2])
\* and stars (int[2]*, a pointer to an array) alike: it counts for nothing.
SizeAsWritten ==
    asked.fn = "type" =>
        LET t == asked.text
        IN  /\ answer = Unknown => t.base \notin KnownTypes /\ t.dims = <<>>
            /\ answer.kind \in {"base", "pointer"} => t.dims = <<>>
            /\ answer.kind = "array" => /\ t.dims[1] = answer.count
                                        /\ (answer.of.kind = "pointer") = (t.stars > 0)
            /\ answer.kind = "pointer" => t.stars > 0

\* A page holds the items it is asked for, and pages taken one after the other
\* from one iterator neither skip nor repeat an item: what was skipped, the page
\* and what is left make up the whole.
PagesTile ==
    asked.fn = "page" /\ answer.kind = "page" =>
        LET s == asked.items
            o == asked.offset
            l == asked.limit
        IN  /\ SubSeq(s, 1, Least(o, Len(s))) \o answer.page \o answer.rest = s
            /\ Len(answer.page) = IF l = NoLimit THEN Most(0, Len(s) - o)
                                  ELSE Least(Most(0, l), Most(0, Len(s) - o))
=============================================================================
