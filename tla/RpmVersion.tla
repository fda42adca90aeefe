----------------------------- MODULE RpmVersion -----------------------------
(***************************************************************************)
(* Package versions as the client reads and compares them                  *)
(* (cmd/dirq/rpm.go), on texts of letters, digits and other signs.         *)
(***************************************************************************)
EXTENDS Integers, Sequences

Ordered == "0123456789ABCDEFGHIJKLMNOPQRSTUVWXYZabcdefghijklmnopqrstuvwxyz"
At(text, i) == IF i \in 1..Len(text) THEN SubSeq(text, i, i) ELSE ""
Rank == [c \in {At(Ordered, i) : i \in 1..Len(Ordered)} |-> CHOOSE i \in 1..Len(Ordered) : At(Ordered, i) = c]
Alnum == DOMAIN Rank
Numeral == {c \in Alnum : Rank[c] <= 10}
Alpha == Alnum \ Numeral

\* The places of c in text; strings.Index and strings.LastIndex are their ends.
Places(text, c) == {i \in 1..Len(text) : At(text, i) = c}
FirstOf(S) == CHOOSE i \in S : \A j \in S : i <= j
LastOf(S) == CHOOSE i \in S : \A j \in S : j <= i
\* The first place from i on with no character of the set.
EndOfSpan(text, i, set) == FirstOf({j \in i..(Len(text) + 1) : At(text, j) \notin set})
Before(text, i) == SubSeq(text, 1, i - 1)
After(text, i) == SubSeq(text, i + 1, Len(text))
From(text, i) == SubSeq(text, i, Len(text))
\* The first letter or digit from i on, or the end.
SkipOther(text, i) == FirstOf({j \in i..(Len(text) + 1) : At(text, j) \in Alnum \cup {""}})

\* Go's < on strings.
TextLess(a, b) ==
  \E i \in 1..Len(b) :
    /\ i <= Len(a) + 1 /\ Before(a, i) = Before(b, i)
    /\ i <= Len(a) => Rank[At(a, i)] < Rank[At(b, i)]
Sign(less, greater) == IF less THEN -1 ELSE IF greater THEN 1 ELSE 0

\* The runs of digits and of letters, in order.
EndOfSegment(v, i) == EndOfSpan(v, i, IF At(v, i) \in Numeral THEN Numeral ELSE Alpha)
RpmSegments(v) ==
  LET from[i \in 1..(Len(v) + 1)] ==
        IF i > Len(v) THEN <<>>
        ELSE LET end == EndOfSegment(v, i) IN <<SubSeq(v, i, end - 1)>> \o from[SkipOther(v, end)]
  IN  from[SkipOther(v, 1)]

IsNumber(s) == s # "" /\ EndOfSpan(s, 1, Numeral) = Len(s) + 1
TrimZeros(s) == From(s, EndOfSpan(s, 1, {"0"}))

\* Mutant of CompareSegments: numbers are compared as text.
CompareSegmentsAsText(sa, sb) == Sign(TextLess(sa, sb), TextLess(sb, sa))

CompareNumerals(a, b) ==
  IF Len(a) # Len(b) THEN Sign(Len(a) < Len(b), TRUE) ELSE Sign(TextLess(a, b), TextLess(b, a))

\* Numbers by value, a number after a word, words as text.
CompareSegments(sa, sb) ==
  CASE IsNumber(sa) /\ IsNumber(sb) -> CompareNumerals(TrimZeros(sa), TrimZeros(sb))
    [] IsNumber(sa) # IsNumber(sb) -> Sign(IsNumber(sb), TRUE)
    [] OTHER -> Sign(TextLess(sa, sb), TextLess(sb, sa))

\* By the first segments that differ, or else by how many there are.
CompareLists(sa, sb) ==
  LET signs == [i \in {k \in 1..Len(sa) : k <= Len(sb)} |-> CompareSegments(sa[i], sb[i])]
      differ == {i \in DOMAIN signs : signs[i] # 0}
  IN  IF differ # {} THEN signs[FirstOf(differ)] ELSE Sign(Len(sa) < Len(sb), Len(sa) > Len(sb))
RpmVerCmp(a, b) == CompareLists(RpmSegments(a), RpmSegments(b))

\* fmt.Sscanf's %d: the number a text begins with, or what was there before.
Value(digits) ==
  LET upTo[n \in 0..Len(digits)] == IF n = 0 THEN 0 ELSE 10 * upTo[n - 1] + Rank[At(digits, n)] - 1
  IN  upTo[Len(digits)]
SplitEpoch(v) ==
  LET colons == Places(v, ":")
      at == FirstOf(colons)
  IN  IF colons = {} THEN [epoch |-> 0, rest |-> v]
      ELSE [epoch |-> Value(Before(v, EndOfSpan(v, 1, Numeral))), rest |-> After(v, at)]

CompareEpochs(a, b) ==
  IF a.epoch # b.epoch THEN Sign(a.epoch < b.epoch, TRUE) ELSE RpmVerCmp(a.rest, b.rest)
RpmVersionCompare(a, b) == CompareEpochs(SplitEpoch(a), SplitEpoch(b))

\* A package's name and version, around the dash before the epoch, or else the last dash
\* but one.
ParseRPMNEVRA(nevra) ==
  LET dashes == Places(nevra, "-")
      colons == Places(nevra, ":")
      ahead == {d \in dashes : d < FirstOf(colons)}
      last == LastOf(dashes)
      cut == IF colons # {} THEN LastOf(ahead) ELSE IF dashes = {last} THEN last ELSE LastOf(dashes \ {last})
  IN  IF dashes = {} \/ (colons # {} /\ ahead = {}) THEN [name |-> "", version |-> ""]
      ELSE [name |-> Before(nevra, cut), version |-> After(nevra, cut)]

\* The texts between the separators.
SplitText(text, sep) ==
  LET from[i \in 1..(Len(text) + 1)] ==
        LET ahead == {j \in Places(text, sep) : j >= i}
            at == FirstOf(ahead)
        IN  IF ahead = {} THEN <<From(text, i)>> ELSE <<SubSeq(text, i, at - 1)>> \o from[at + 1]
  IN  from[1]

\* "cpe:/o:redhat:enterprise_linux:8::baseos" is of RHEL 8.
ExtractRHELVersion(cpe) ==
  LET parts == SplitText(cpe, ":")
      found == {i \in 1..(Len(parts) - 1) : parts[i] = "enterprise_linux"}
  IN  IF found = {} THEN "" ELSE SplitText(parts[FirstOf(found) + 1], ".")[1]

\* The digits after ".el", or what is before the first point.
DetectRHELMajor(version) ==
  LET els == {i \in 1..(Len(version) - 2) : SubSeq(version, i, i + 2) = ".el"}
      from == FirstOf(els) + 3
      digits == SubSeq(version, from, EndOfSpan(version, from, Numeral) - 1)
  IN  IF els # {} /\ digits # "" THEN digits
      ELSE IF Places(version, ".") = {} THEN "" ELSE SplitText(version, ".")[1]

-----------------------------------------------------------------------------
(***************************************************************************)
(* The comparison of the RPM package manager itself: of epochs, then of    *)
(* versions, then of releases, each walked on its own, "~" and "^" left    *)
(* out.                                                                    *)
(***************************************************************************)
RpmCompares(one, two) ==
  LET walk[at \in (1..(Len(one) + 1)) \X (1..(Len(two) + 1))] ==
        LET numeric == At(one, at[1]) \in Numeral
            End(text, i) == EndOfSpan(text, i, IF numeric THEN Numeral ELSE Alpha)
            a == SubSeq(one, at[1], End(one, at[1]) - 1)
            b == SubSeq(two, at[2], End(two, at[2]) - 1)
            Earlier(x, y) == IF numeric THEN Value(x) < Value(y) ELSE TextLess(x, y)
        IN
        CASE at[1] > Len(one) \/ at[2] > Len(two) -> Sign(at[1] > Len(one) /\ at[2] <= Len(two), at[1] <= Len(one))
          [] at[1] <= Len(one) /\ at[2] <= Len(two) /\ b = "" -> IF numeric THEN 1 ELSE -1
          [] OTHER -> IF Earlier(a, b) THEN -1 ELSE IF Earlier(b, a) THEN 1
                      ELSE walk[<<SkipOther(one, End(one, at[1])), SkipOther(two, End(two, at[2]))>>]
  IN  walk[<<SkipOther(one, 1), SkipOther(two, 1)>>]

VersionOf(text) == LET dashes == Places(text, "-") IN IF dashes = {} THEN text ELSE Before(text, LastOf(dashes))
ReleaseOf(text) == LET dashes == Places(text, "-") IN IF dashes = {} THEN "" ELSE After(text, LastOf(dashes))

\* Of two packages [epoch, rest], rest being version-release.
RpmOlder(p, q) ==
  LET v == RpmCompares(VersionOf(p.rest), VersionOf(q.rest)) IN
  \/ p.epoch < q.epoch
  \/ p.epoch = q.epoch /\ (v = -1 \/ (v = 0 /\ RpmCompares(ReleaseOf(p.rest), ReleaseOf(q.rest)) = -1))

\* One version goes on where the other ends, as 1.1.1k does after 1.1.1.
Inside(text, i) == \E run \in {Numeral, Alpha} : At(text, i - 1) \in run /\ At(text, i) \in run
Leads(v, w) == RpmCompares(v, w) # 0 /\ \E i \in 1..Len(w) : ~Inside(w, i) /\ RpmCompares(v, Before(w, i)) = 0
GoesOn(v, w) == Leads(VersionOf(v), VersionOf(w)) \/ Leads(VersionOf(w), VersionOf(v))
=============================================================================
