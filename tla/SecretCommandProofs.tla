------------------------- MODULE SecretCommandProofs -------------------------
(***************************************************************************)
(* What a command that runs with a secret may print, for every set of      *)
(* patterns, every output and every way to cut it into chunks.  Scan is a  *)
(* recursive function, so nothing can be shown of it by induction over its *)
(* data.  Instead, a scan's TRACE names the position of the text behind    *)
(* every symbol that goes out.  ScanDefined shows that the function exists *)
(* (by a least counterexample, LeastNumber) and ScanTraced that what it    *)
(* computes has a trace.  From a trace alone follows the rest: what has    *)
(* one shows no pattern (TraceShowsNothing), it is unique                  *)
(* (TracesAgree), and the traces of one push after another are one trace   *)
(* (TraceJoin), because no decision is taken before the bytes it could     *)
(* need have come.                                                         *)
(***************************************************************************)
EXTENDS SecretCommand, FiniteSetTheorems, SequenceTheorems, TLAPS

\* What goes out.
Output == Symbols \cup {Marker}

-----------------------------------------------------------------------------
(* Numbers and sets of them.                                               *)

\* A set of numbers with a member has a least one.
LEMMA LeastNumber ==
    ASSUME NEW S \in SUBSET Nat, S # {}
    PROVE  \E m \in S : \A n \in S : m <= n
<1>1. PICK m \in S : \A n \in S : <<n, m>> \notin OpToRel(<, Nat)
  BY WFMin, NatLessThanWellFounded, Zenon
<1>2. \A n \in S : ~(n < m)
  BY <1>1, Zenon DEF OpToRel
<1> QED  BY <1>2

\* Max finds the greatest member of a bounded set of numbers.
LEMMA GreatestNumber ==
    ASSUME NEW S \in SUBSET Nat, S # {}, \E b \in Nat : \A n \in S : n <= b
    PROVE  Max(S) \in S /\ \A n \in S : n <= Max(S)
<1>0. PICK b \in Nat : \A n \in S : n <= b
  OBVIOUS
<1> DEFINE D == {d \in Nat : b - d \in S}
<1>1. PICK s \in S : TRUE
  OBVIOUS
<1>2. b - s \in D
  BY <1>0, <1>1
<1>3. PICK d \in D : \A e \in D : d <= e
  BY <1>2, LeastNumber
<1>4. \A n \in S : b - n \in D
  BY <1>0
<1>5. b - d \in S /\ \A n \in S : n <= b - d
  BY <1>3, <1>4
<1> QED  BY <1>5 DEF Max

\* A set that is finite is bounded.
LEMMA LengthsBounded == \E b \in Nat : \A p \in Patterns : Len(p) <= b
<1>a. PICK n \in Nat : ExistsBijection(1..n, Patterns)
  BY PatternsAssumption, FS_NatBijection
<1>1. PICK f \in Bijection(1..n, Patterns) : TRUE
  BY <1>a DEF ExistsBijection
<1>2. \A p \in Patterns : \E i \in 1..n : f[i] = p
  BY <1>1 DEF Bijection, Surjection
<1>3. \A i \in 1..n : f[i] \in Patterns /\ Len(f[i]) \in Nat
  BY <1>1, PatternsAssumption DEF Bijection, Injection
<1> DEFINE Open == {k \in Nat : k <= n /\ \E b \in Nat : \A i \in 1..n : i > k => Len(f[i]) <= b}
<1>4. n \in Open
  OBVIOUS
<1>5. PICK k \in Open : \A j \in Open : k <= j
  BY <1>4, LeastNumber
<1>6. PICK b \in Nat : \A i \in 1..n : i > k => Len(f[i]) <= b
  BY <1>5
<1>7. k = 0
  <2> SUFFICES ASSUME k # 0 PROVE FALSE
    OBVIOUS
  <2>1. k \in 1..n /\ k - 1 \in Nat
    BY <1>5
  <2>2. PICK c \in Nat : b <= c /\ Len(f[k]) <= c
    <3> DEFINE c == IF b <= Len(f[k]) THEN Len(f[k]) ELSE b
    <3>1. c \in Nat /\ b <= c /\ Len(f[k]) <= c
      BY <1>3, <2>1
    <3> QED  BY <3>1
  <2>3. \A i \in 1..n : i > k - 1 => Len(f[i]) <= c
    <3> TAKE i \in 1..n
    <3> HAVE i > k - 1
    <3>1. CASE i = k  BY <3>1, <2>2
    <3>2. CASE i > k  BY <3>2, <2>2, <1>6, <1>3
    <3> QED  BY <3>1, <3>2, <2>1
  <2>4. k - 1 \in Open
    BY <2>1, <2>3
  <2> HIDE DEF Open
  <2>5. k \in Int /\ k <= k - 1
    BY <2>1, <2>4, <1>5
  <2> QED  BY <2>5
<1>8. \A i \in 1..n : Len(f[i]) <= b
  BY <1>6, <1>7
<1> QED  BY <1>2, <1>8

\* Longest is a number, and no pattern is longer.
LEMMA LongestType == Longest \in Nat /\ Longest >= 1 /\ \A p \in Patterns : Len(p) <= Longest
<1> DEFINE L == {Len(p) : p \in Patterns} \cup {1}
<1>1. PICK b \in Nat : \A p \in Patterns : Len(p) <= b
  BY LengthsBounded
<1>2. L \in SUBSET Nat
  BY PatternsAssumption
<1>3. \E c \in Nat : \A n \in L : n <= c
  <2>1. b + 1 \in Nat /\ \A n \in L : n <= b + 1
    BY <1>1, <1>2
  <2> QED  BY <2>1
<1>4. Max(L) \in L /\ \A n \in L : n <= Max(L)
  <2>1. L # {}
    OBVIOUS
  <2> HIDE DEF L
  <2> QED  BY <1>2, <1>3, <2>1, GreatestNumber
<1> QED  BY <1>2, <1>4 DEF Longest

-----------------------------------------------------------------------------
(* What a match is.                                                        *)

Matches(text, at, p) == /\ at + Len(p) - 1 <= Len(text)
                        /\ SubSeq(text, at, at + Len(p) - 1) = p

\* MatchAt finds the longest pattern that matches at a position, if any does.
LEMMA MatchFound ==
    ASSUME NEW text \in Seq(Symbols), NEW at \in 1..(Len(text) + 1)
    PROVE  /\ MatchAt(text, at) \in 0..(Len(text) - at + 1)
           /\ MatchAt(text, at) <= Longest
           /\ \A p \in Patterns : Matches(text, at, p) => 0 < Len(p) /\ Len(p) <= MatchAt(text, at)
           /\ MatchAt(text, at) # 0 =>
                \E p \in Patterns : Matches(text, at, p) /\ Len(p) = MatchAt(text, at)
<1> DEFINE M == {p \in Patterns : Matches(text, at, p)}
           L == {Len(p) : p \in M} \cup {0}
<1>1. L \in SUBSET Nat
  BY PatternsAssumption
<1>2. \A n \in L : n <= Len(text) - at + 1
  BY PatternsAssumption DEF Matches
<1>3. MatchAt(text, at) = Max(L)
  BY DEF MatchAt, Matches
<1>4. Max(L) \in L /\ \A n \in L : n <= Max(L)
  <2>1. L # {} /\ Len(text) - at + 1 \in Nat
    OBVIOUS
  <2> HIDE DEF L
  <2> QED  BY <1>1, <1>2, <2>1, GreatestNumber
<1>5. \A p \in Patterns : 0 < Len(p)
  BY PatternsAssumption
<1>6. \A p \in Patterns : Matches(text, at, p) => Len(p) \in L
  OBVIOUS
<1>7. \A n \in L : n <= Longest
  BY LongestType
<1> HIDE DEF L
<1>8. Max(L) \in Nat /\ Max(L) <= Longest /\ Max(L) <= Len(text) - at + 1
  BY <1>1, <1>2, <1>4, <1>7
<1>9. Max(L) # 0 => \E p \in M : Len(p) = Max(L)
  BY <1>4 DEF L
<1> QED  BY <1>3, <1>4, <1>5, <1>6, <1>8, <1>9

-----------------------------------------------------------------------------
(* What a scan computes.                                                   *)

\* At one position: what goes out, and how far the scan moves.
Shown(text, at) == IF MatchAt(text, at) = 0 THEN text[at] ELSE Marker
Width(text, at) == IF MatchAt(text, at) = 0 THEN 1 ELSE MatchAt(text, at)

ScanStep(text, limit, f, at) ==
    IF at > limit THEN [out |-> <<>>, next |-> at]
    ELSE LET rest == f[at + Width(text, at)]
         IN [out |-> <<Shown(text, at)>> \o rest.out, next |-> rest.next]

\* A scan moves on, by no more than what is left of the text.
LEMMA WidthFits ==
    ASSUME NEW text \in Seq(Symbols), NEW at \in 1..Len(text)
    PROVE  /\ Width(text, at) \in Nat \ {0} /\ at + Width(text, at) \in 1..(Len(text) + 1)
           /\ Shown(text, at) \in Output
<1>1. MatchAt(text, at) \in 0..(Len(text) - at + 1)
  BY MatchFound
<1> QED  BY <1>1 DEF Width, Shown, Output

\* The recursive function of Scan exists.
LEMMA ScanDefined ==
    ASSUME NEW text \in Seq(Symbols), NEW limit \in 0..Len(text)
    PROVE  \E f : /\ f = [at \in 1..(Len(text) + 1) |-> ScanStep(text, limit, f, at)]
                  /\ Scan(text, limit) = f[1]
<1> DEFINE P == 1..(Len(text) + 1)
           Solves(f, k) == f = [at \in P |-> IF at > k THEN ScanStep(text, limit, f, at) ELSE 0]
           Solved == {k \in Nat : k <= Len(text) + 1 /\ \E f : Solves(f, k)}
<1>1. Len(text) + 1 \in Solved
  <2> DEFINE z == [at \in P |-> 0]
  <2>1. Solves(z, Len(text) + 1)
    OBVIOUS
  <2> QED  BY <2>1
<1>2. PICK k \in Solved : \A j \in Solved : k <= j
  BY <1>1, LeastNumber
<1>3. k = 0
  <2> SUFFICES ASSUME k # 0 PROVE FALSE
    OBVIOUS
  <2>1. k \in P /\ k - 1 \in Nat
    BY <1>2
  <2>2. PICK f : Solves(f, k)
    BY <1>2
  <2> DEFINE g == [at \in P |-> IF at = k THEN ScanStep(text, limit, f, k) ELSE f[at]]
  <2>3. \A at \in P : at >= k => ScanStep(text, limit, g, at) = ScanStep(text, limit, f, at)
    <3> TAKE at \in P
    <3> HAVE at >= k
    <3>1. CASE at > limit
      BY <3>1 DEF ScanStep
    <3>2. CASE at <= limit
      <4>1. at + Width(text, at) \in P /\ at + Width(text, at) # k
        <5>1. at \in 1..Len(text)
          BY <3>2
        <5>2. Width(text, at) \in Nat \ {0} /\ at + Width(text, at) \in P
          BY <5>1, WidthFits
        <5> QED  BY <5>2, <2>1
      <4>2. g[at + Width(text, at)] = f[at + Width(text, at)]
        BY <4>1
      <4> QED  BY <4>2 DEF ScanStep
    <3> QED  BY <3>1, <3>2, <2>1
  <2>4. \A at \in P : g[at] = IF at > k - 1 THEN ScanStep(text, limit, g, at) ELSE 0
    <3> TAKE at \in P
    <3>1. CASE at = k  BY <3>1, <2>3, <2>1
    <3>2. CASE at > k
      <4>1. g[at] = f[at] /\ f[at] = ScanStep(text, limit, f, at)
        BY <3>2, <2>1, <2>2
      <4> QED  BY <4>1, <3>2, <2>1, <2>3
    <3>3. CASE at < k
      <4>1. g[at] = f[at] /\ f[at] = 0
        BY <3>3, <2>1, <2>2
      <4> QED  BY <4>1, <3>3, <2>1
    <3> QED  BY <3>1, <3>2, <3>3, <2>1
  <2>5. Solves(g, k - 1)
    BY <2>4, Zenon
  <2>6. k - 1 \in Solved
    <3>1. k - 1 <= Len(text) + 1
      BY <2>1
    <3>2. \E h : Solves(h, k - 1)
      BY <2>5, Zenon
    <3> HIDE DEF Solves
    <3> QED  BY <2>1, <3>1, <3>2
  <2> HIDE DEF Solved
  <2>7. k \in Int /\ k <= k - 1
    BY <2>1, <2>6, <1>2
  <2> QED  BY <2>7
<1>4. PICK f : Solves(f, 0)
  BY <1>2, <1>3
<1> DEFINE step == CHOOSE g : g = [at \in P |-> ScanStep(text, limit, g, at)]
<1>5. f = [at \in P |-> ScanStep(text, limit, f, at)]
  BY <1>4
<1>6. step = [at \in P |-> ScanStep(text, limit, step, at)]
  BY <1>5, Zenon
<1>7. Scan(text, limit) = step[1]
  BY DEF Scan, ScanStep, Shown, Width
<1> QED  BY <1>6, <1>7

\* A scan's trace: the position in the text behind every symbol that goes out.
Trace(text, out, pos, from) ==
    /\ pos \in [1..(Len(out) + 1) -> 1..(Len(text) + 1)]
    /\ pos[1] = from
    /\ \A i \in 1..Len(out) : /\ pos[i] <= Len(text)
                              /\ out[i] = Shown(text, pos[i])
                              /\ pos[i + 1] = pos[i] + Width(text, pos[i])

\* One more symbol in front of a trace.
LEMMA TraceCons ==
    ASSUME NEW text \in Seq(Symbols), NEW at \in 1..Len(text),
           NEW out \in Seq(Output), NEW pos, Trace(text, out, pos, at + Width(text, at))
    PROVE  LET more == [i \in 1..(Len(out) + 2) |-> IF i = 1 THEN at ELSE pos[i - 1]]
               all  == <<Shown(text, at)>> \o out
           IN /\ all \in Seq(Output) /\ Len(all) = Len(out) + 1
              /\ Trace(text, all, more, at)
              /\ more[Len(all) + 1] = pos[Len(out) + 1]
<1> DEFINE more == [i \in 1..(Len(out) + 2) |-> IF i = 1 THEN at ELSE pos[i - 1]]
           all  == <<Shown(text, at)>> \o out
<1>1. /\ all \in Seq(Output) /\ Len(all) = Len(out) + 1
      /\ \A i \in 1..(Len(out) + 1) : all[i] = IF i = 1 THEN Shown(text, at) ELSE out[i - 1]
  <2>1. <<Shown(text, at)>> \in Seq(Output) /\ Len(<<Shown(text, at)>>) = 1
    BY WidthFits
  <2> HIDE DEF Output
  <2> QED  BY <2>1, ConcatProperties
<1> HIDE DEF all
<1>2. more \in [1..(Len(all) + 1) -> 1..(Len(text) + 1)] /\ more[1] = at
  BY <1>1 DEF Trace
<1>3. \A i \in 1..Len(all) : /\ more[i] <= Len(text)
                             /\ all[i] = Shown(text, more[i])
                             /\ more[i + 1] = more[i] + Width(text, more[i])
  <2> TAKE i \in 1..Len(all)
  <2>1. CASE i = 1
    <3>1. more[1] = at /\ more[2] = pos[1]
      BY <1>1
    <3> QED  BY <2>1, <3>1, <1>1 DEF Trace
  <2>2. CASE i # 1
    <3>1. i - 1 \in 1..Len(out) /\ more[i] = pos[i - 1] /\ more[i + 1] = pos[(i - 1) + 1]
      BY <2>2, <1>1
    <3>2. all[i] = out[i - 1]
      BY <2>2, <1>1
    <3> QED  BY <3>1, <3>2 DEF Trace
  <2> QED  BY <2>1, <2>2
<1>4. more[Len(all) + 1] = pos[Len(out) + 1]
  BY <1>1
<1> QED  BY <1>1, <1>2, <1>3, <1>4 DEF Trace, all

\* What comes out of a scan has a trace, which ends just beyond the limit.
LEMMA ScanTraced ==
    ASSUME NEW text \in Seq(Symbols), NEW limit \in 0..Len(text)
    PROVE  LET scan == Scan(text, limit)
           IN /\ scan.out \in Seq(Output)
              /\ scan.next \in (limit + 1)..(Len(text) + 1)
              /\ \E pos : /\ Trace(text, scan.out, pos, 1)
                          /\ pos[Len(scan.out) + 1] = scan.next
                          /\ \A i \in 1..Len(scan.out) : pos[i] <= limit
<1> DEFINE P == 1..(Len(text) + 1)
<1>1. PICK f : /\ f = [at \in P |-> ScanStep(text, limit, f, at)]
               /\ Scan(text, limit) = f[1]
  BY ScanDefined
<1> DEFINE Traced(at) ==
             /\ f[at].out \in Seq(Output)
             /\ f[at].next \in (limit + 1)..(Len(text) + 1)
             /\ \E pos : /\ Trace(text, f[at].out, pos, at)
                         /\ pos[Len(f[at].out) + 1] = f[at].next
                         /\ \A i \in 1..Len(f[at].out) : pos[i] <= limit
           Good == {k \in Nat : k <= Len(text) + 1 /\ \A at \in P : at > k => Traced(at)}
<1>2. Len(text) + 1 \in Good
  <2>1. \A at \in P : ~(at > Len(text) + 1)
    OBVIOUS
  <2> HIDE DEF Traced
  <2> QED  BY <2>1
<1>3. PICK k \in Good : \A j \in Good : k <= j
  <2> HIDE DEF Good
  <2>1. Good \in SUBSET Nat
    BY DEF Good
  <2> QED  BY <1>2, <2>1, LeastNumber
<1>4. k = 0
  <2> SUFFICES ASSUME k # 0 PROVE FALSE
    OBVIOUS
  <2>1. k \in P /\ k - 1 \in Nat /\ \A at \in P : at > k => Traced(at)
    <3> HIDE DEF Traced
    <3> QED  BY <1>3
  <2>2. Traced(k)
    <3>1. f[k] = ScanStep(text, limit, f, k)
      BY <1>1, <2>1
    <3>2. CASE k > limit
      <4> DEFINE pos == [i \in 1..1 |-> k]
      <4>1. f[k] = [out |-> <<>>, next |-> k]
        BY <3>1, <3>2 DEF ScanStep
      <4>2. <<>> \in Seq(Output) /\ Len(<<>>) = 0
        OBVIOUS
      <4>3. Trace(text, <<>>, pos, k) /\ pos[1] = k
        BY <2>1 DEF Trace
      <4>4. k \in (limit + 1)..(Len(text) + 1)
        BY <2>1, <3>2
      <4>5. f[k].out = <<>> /\ f[k].next = k
        BY <4>1
      <4> HIDE DEF pos
      <4> QED  BY <4>2, <4>3, <4>4, <4>5
    <3>3. CASE k <= limit
      <4> DEFINE next == k + Width(text, k)
      <4>1. k \in 1..Len(text)
        BY <2>1, <3>3
      <4>2. next \in P /\ next > k
        BY <4>1, WidthFits
      <4>3. Traced(next)
        <5> HIDE DEF Traced
        <5> QED  BY <4>2, <2>1
      <4>4. /\ f[k].out = <<Shown(text, k)>> \o f[next].out
            /\ f[k].next = f[next].next
        BY <3>1, <3>3, <2>1 DEF ScanStep
      <4>5. PICK pos : /\ Trace(text, f[next].out, pos, next)
                       /\ pos[Len(f[next].out) + 1] = f[next].next
                       /\ \A i \in 1..Len(f[next].out) : pos[i] <= limit
        BY <4>3
      <4> DEFINE out  == f[next].out
                 more == [i \in 1..(Len(out) + 2) |-> IF i = 1 THEN k ELSE pos[i - 1]]
      <4>6. out \in Seq(Output)
        BY <4>3
      <4>7. /\ f[k].out \in Seq(Output) /\ Len(f[k].out) = Len(out) + 1
            /\ Trace(text, f[k].out, more, k)
            /\ more[Len(f[k].out) + 1] = pos[Len(out) + 1]
        BY <4>1, <4>4, <4>5, <4>6, TraceCons
      <4>8. \A i \in 1..Len(f[k].out) : more[i] <= limit
        <5> TAKE i \in 1..Len(f[k].out)
        <5>1. CASE i = 1  BY <5>1, <3>3, <4>7, <4>6
        <5>2. CASE i # 1
          <6>1. i - 1 \in 1..Len(out) /\ more[i] = pos[i - 1]
            BY <5>2, <4>7, <4>6
          <6> QED  BY <6>1, <4>5
        <5> QED  BY <5>1, <5>2
      <4>9. more[Len(f[k].out) + 1] = f[k].next
        BY <4>4, <4>5, <4>7
      <4>10. f[k].next \in (limit + 1)..(Len(text) + 1)
        BY <4>3, <4>4
      <4> HIDE DEF more, out, next
      <4> QED  BY <4>7, <4>8, <4>9, <4>10
    <3> QED  BY <3>2, <3>3, <2>1
  <2>3. k - 1 \in Good
    <3> HIDE DEF Traced
    <3> QED  BY <2>1, <2>2, <1>3
  <2> HIDE DEF Good, Traced
  <2>4. k \in Int /\ k <= k - 1
    BY <2>1, <2>3, <1>3
  <2> QED  BY <2>4
<1>5. Traced(1)
  <2> HIDE DEF Traced
  <2> QED  BY <1>3, <1>4
<1> QED  BY <1>1, <1>5

-----------------------------------------------------------------------------
(* What a trace shows.                                                     *)

\* Counting up: what holds of 0 and is passed on holds up to n.
LEMMA UpTo ==
    ASSUME NEW S, NEW n \in Nat, 0 \in S, \A j \in 0..(n - 1) : j \in S => j + 1 \in S
    PROVE  \A j \in 0..n : j \in S
<1> DEFINE Missing == {j \in 0..n : j \notin S}
<1> SUFFICES ASSUME Missing # {} PROVE FALSE
  OBVIOUS
<1>1. PICK m \in Missing : \A j \in Missing : m <= j
  <2>1. Missing \in SUBSET Nat
    OBVIOUS
  <2> HIDE DEF Missing
  <2> QED  BY <2>1, LeastNumber
<1>2. m # 0 /\ m - 1 \in 0..(n - 1) /\ m - 1 \in 0..n
  BY <1>1
<1>3. m - 1 \in S
  BY <1>1, <1>2
<1> QED  BY <1>1, <1>2, <1>3

\* A match, byte by byte.
LEMMA MatchesMeans ==
    ASSUME NEW text \in Seq(Symbols), NEW at \in 1..(Len(text) + 1), NEW p \in Patterns
    PROVE  Matches(text, at, p) <=> /\ at + Len(p) - 1 <= Len(text)
                                    /\ \A j \in 1..Len(p) : text[at + j - 1] = p[j]
<1>1. p \in Seq(Symbols) /\ Len(p) \in Nat /\ Len(p) >= 1
  BY PatternsAssumption
<1> SUFFICES ASSUME at + Len(p) - 1 <= Len(text)
             PROVE  SubSeq(text, at, at + Len(p) - 1) = p
                      <=> \A j \in 1..Len(p) : text[at + j - 1] = p[j]
  BY DEF Matches
<1> DEFINE cut == SubSeq(text, at, at + Len(p) - 1)
<1>2. /\ cut \in Seq(Symbols) /\ Len(cut) = Len(p)
      /\ \A j \in 1..Len(p) : cut[j] = text[at + j - 1]
  <2>1. \A i \in at..(at + Len(p) - 1) : text[i] \in Symbols
    BY <1>1
  <2>2. at \in Int /\ at + Len(p) - 1 \in Int /\ at <= at + Len(p) - 1
    BY <1>1
  <2>3. (at + Len(p) - 1) - at + 1 = Len(p)
    BY <1>1
  <2> QED  BY <2>1, <2>2, <2>3, SubSeqProperties
<1> HIDE DEF cut
<1>3. (\A j \in 1..Len(p) : cut[j] = p[j]) => cut = p
  BY <1>1, <1>2, SeqEqual
<1> QED  BY <1>1, <1>2, <1>3 DEF cut

\* A part of a sequence, symbol by symbol.
IsCut(cut, s, first, last) == /\ Len(cut) = last - first + 1
                              /\ \A j \in 1..Len(cut) : cut[j] = s[first + j - 1]

\* SubSeq cuts a part out.
LEMMA CutOut ==
    ASSUME NEW S, NEW s, NEW first \in Int, NEW last \in Int, first <= last,
           \A i \in first..last : s[i] \in S
    PROVE  SubSeq(s, first, last) \in Seq(S) /\ IsCut(SubSeq(s, first, last), s, first, last)
  BY SubSeqProperties DEF IsCut

\* No pattern is shown by what has a trace.
LEMMA TraceShowsNothing ==
    ASSUME NEW text \in Seq(Symbols), NEW out \in Seq(Output), NEW pos, Trace(text, out, pos, 1),
           NEW p \in Patterns
    PROVE  ~Shows(out, p)
<1> SUFFICES ASSUME NEW k \in 1..Len(out), k + Len(p) - 1 <= Len(out),
                    SubSeq(out, k, k + Len(p) - 1) = p
             PROVE  FALSE
  BY DEF Shows
<1> DEFINE m == Len(p)
<1>1. p \in Seq(Symbols) /\ m \in Nat /\ m >= 1
  BY PatternsAssumption
<1>2. \A j \in 1..m : out[k + j - 1] = p[j]
  <2>1. \A i \in k..(k + m - 1) : out[i] \in Output
    BY <1>1
  <2>2. k \in Int /\ k + m - 1 \in Int /\ k <= k + m - 1
    BY <1>1
  <2>3. IsCut(SubSeq(out, k, k + m - 1), out, k, k + m - 1)
    BY <2>1, <2>2, CutOut, Zenon
  <2> QED  BY <2>3 DEF IsCut
<1>3. \A j \in 0..(m - 1) :
         /\ k + j \in 1..Len(out) /\ pos[k + j] \in 1..Len(text)
         /\ MatchAt(text, pos[k + j]) = 0 /\ out[k + j] = text[pos[k + j]]
         /\ out[k + j] = p[j + 1]
         /\ pos[k + j + 1] = pos[k + j] + 1
  <2> TAKE j \in 0..(m - 1)
  <2>1. k + j \in 1..Len(out) /\ j + 1 \in 1..m
    BY <1>1
  <2>2. out[k + j] = p[j + 1]
    <3>1. k + (j + 1) - 1 = k + j
      BY <2>1
    <3> QED  BY <1>2, <2>1, <3>1
  <2>3. out[k + j] # Marker
    BY <2>1, <2>2, <1>1, PatternsAssumption
  <2>4. /\ pos[k + j] \in 1..Len(text) /\ out[k + j] = Shown(text, pos[k + j])
        /\ pos[(k + j) + 1] = pos[k + j] + Width(text, pos[k + j])
    <3> DEFINE i == k + j
    <3>1. i \in 1..Len(out) /\ i \in 1..(Len(out) + 1) /\ Len(text) \in Nat
      BY <2>1
    <3> HIDE DEF i
    <3>2. pos[i] \in 1..(Len(text) + 1) /\ pos[i] <= Len(text)
          /\ out[i] = Shown(text, pos[i]) /\ pos[i + 1] = pos[i] + Width(text, pos[i])
      BY <3>1 DEF Trace
    <3>3. pos[i] \in 1..Len(text)
      BY <3>1, <3>2
    <3> QED  BY <3>2, <3>3, Zenon DEF i
  <2>5. MatchAt(text, pos[k + j]) = 0
    BY <2>3, <2>4 DEF Shown
  <2> QED  BY <2>1, <2>2, <2>4, <2>5 DEF Shown, Width
<1>4. \A j \in 0..(m - 1) : pos[k + j] = pos[k] + j
  <2> DEFINE S == {j \in Nat : pos[k + j] = pos[k] + j}
  <2>1. m - 1 \in Nat
    BY <1>1
  <2>2. 0 \in S
    <3>1. k + 0 = k /\ pos[k] \in Nat
      BY <1>1, <1>3
    <3> QED  BY <3>1
  <2>3. \A j \in 0..((m - 1) - 1) : j \in S => j + 1 \in S
    <3> TAKE j \in 0..((m - 1) - 1)
    <3> HAVE j \in S
    <3>1. j \in 0..(m - 1) /\ j + 1 \in Nat /\ k + (j + 1) = k + j + 1
      BY <1>1
    <3>2. 0 \in 0..(m - 1) /\ k + 0 = k
      BY <1>1
    <3>3. pos[k + j] = pos[k] + j /\ pos[k] \in Int
      BY <1>3, <3>2
    <3>4. pos[k + j + 1] = pos[k + j] + 1
      BY <1>3, <3>1
    <3>5. pos[k + (j + 1)] = pos[k + j + 1]
      BY <3>1
    <3>6. pos[k + (j + 1)] = (pos[k] + j) + 1
      BY <3>3, <3>4, <3>5
    <3>7. (pos[k] + j) + 1 = pos[k] + (j + 1)
      <4>1. j \in Int
        BY <1>1
      <4>2. \A a, b \in Int : (a + b) + 1 = a + (b + 1)
        OBVIOUS
      <4> QED  BY <4>1, <4>2, <3>3, Zenon
    <3> QED  BY <3>1, <3>6, <3>7
  <2> HIDE DEF S
  <2>4. \A j \in 0..(m - 1) : j \in S
    BY <2>1, <2>2, <2>3, UpTo
  <2> QED  BY <2>4 DEF S
<1>5. pos[k] \in 1..Len(text) /\ pos[k] + m - 1 <= Len(text)
  <2>1. 0 \in 0..(m - 1) /\ m - 1 \in 0..(m - 1) /\ k + 0 = k
    BY <1>1
  <2>2. pos[k] \in 1..Len(text)
    BY <2>1, <1>3
  <2>3. pos[k + (m - 1)] \in 1..Len(text) /\ pos[k + (m - 1)] = pos[k] + (m - 1)
    BY <2>1, <1>3, <1>4
  <2> QED  BY <2>2, <2>3, <1>1
<1>6. \A j \in 1..m : text[pos[k] + j - 1] = p[j]
  <2> TAKE j \in 1..m
  <2>1. j - 1 \in 0..(m - 1) /\ (j - 1) + 1 = j
    BY <1>1
  <2>2. out[k + (j - 1)] = text[pos[k + (j - 1)]] /\ out[k + (j - 1)] = p[j]
    BY <2>1, <1>3
  <2>3. pos[k + (j - 1)] = pos[k] + (j - 1)
    BY <2>1, <1>4
  <2>4. pos[k] + (j - 1) = pos[k] + j - 1
    BY <1>5
  <2> QED  BY <2>2, <2>3, <2>4
<1>7. Matches(text, pos[k], p)
  <2>1. pos[k] \in 1..(Len(text) + 1) /\ pos[k] + Len(p) - 1 <= Len(text)
    BY <1>5
  <2> QED  BY <2>1, <1>6, MatchesMeans
<1>8. MatchAt(text, pos[k]) # 0
  <2>1. 0 < Len(p) /\ Len(p) <= MatchAt(text, pos[k]) /\ pos[k] \in 1..(Len(text) + 1)
    BY <1>5, <1>7, MatchFound
  <2> QED  BY <2>1
<1>9. 0 \in 0..(m - 1) /\ k + 0 = k
  BY <1>1
<1> QED  BY <1>3, <1>8, <1>9

\* A text has one trace to its end.
LEMMA TracesAgree ==
    ASSUME NEW text \in Seq(Symbols),
           NEW a \in Seq(Output), NEW p, Trace(text, a, p, 1), p[Len(a) + 1] = Len(text) + 1,
           NEW b \in Seq(Output), NEW q, Trace(text, b, q, 1), q[Len(b) + 1] = Len(text) + 1
    PROVE  a = b
<1> DEFINE n == IF Len(a) <= Len(b) THEN Len(a) ELSE Len(b)
           S == {i \in Nat : p[i + 1] = q[i + 1]}
<1>1. n \in Nat /\ n <= Len(a) /\ n <= Len(b) /\ (n = Len(a) \/ n = Len(b))
  OBVIOUS
<1> HIDE DEF n
<1>2. 0 \in S
  BY DEF Trace
<1>3. \A i \in 0..(n - 1) : i \in S => i + 1 \in S
  <2> TAKE i \in 0..(n - 1)
  <2> HAVE i \in S
  <2>1. i + 1 \in 1..Len(a) /\ i + 1 \in 1..Len(b) /\ p[i + 1] = q[i + 1]
    BY <1>1
  <2>2. /\ p[(i + 1) + 1] = p[i + 1] + Width(text, p[i + 1])
        /\ q[(i + 1) + 1] = q[i + 1] + Width(text, q[i + 1])
    BY <2>1 DEF Trace
  <2> QED  BY <2>1, <2>2
<1> HIDE DEF S
<1>4. \A i \in 0..n : i \in S
  BY <1>1, <1>2, <1>3, UpTo
<1>5. \A i \in 0..n : p[i + 1] = q[i + 1]
  BY <1>4 DEF S
<1>6. Len(a) = Len(b)
  <2>1. n \in 0..n /\ p[n + 1] = q[n + 1]
    BY <1>1, <1>5
  <2>2. ~(Len(a) < Len(b))
    <3> SUFFICES ASSUME Len(a) < Len(b) PROVE FALSE
      OBVIOUS
    <3>1. n + 1 \in 1..Len(b) /\ p[n + 1] = Len(text) + 1
      BY <1>1
    <3>2. q[n + 1] <= Len(text)
      BY <3>1 DEF Trace
    <3> QED  BY <3>1, <3>2, <2>1
  <2>3. ~(Len(b) < Len(a))
    <3> SUFFICES ASSUME Len(b) < Len(a) PROVE FALSE
      OBVIOUS
    <3>1. n + 1 \in 1..Len(a) /\ q[n + 1] = Len(text) + 1
      BY <1>1
    <3>2. p[n + 1] <= Len(text)
      BY <3>1 DEF Trace
    <3> QED  BY <3>1, <3>2, <2>1
  <2> QED  BY <2>2, <2>3
<1>7. \A i \in 1..Len(a) : a[i] = b[i]
  <2> TAKE i \in 1..Len(a)
  <2>1. i - 1 \in 0..n /\ (i - 1) + 1 = i
    BY <1>1, <1>6
  <2>2. p[i] = q[i]
    BY <2>1, <1>5
  <2> QED  BY <2>2, <1>6 DEF Trace
<1> HIDE DEF Output
<1> QED  BY <1>6, <1>7, SeqEqual

-----------------------------------------------------------------------------
(* One push after another.                                                 *)

\* Whether a pattern matches depends on the bytes it could need alone.
LEMMA SameMatch ==
    ASSUME NEW s \in Seq(Symbols), NEW a \in 1..Len(s),
           NEW t \in Seq(Symbols), NEW b \in 1..Len(t),
           \A p \in Patterns : Matches(s, a, p) <=> Matches(t, b, p),
           s[a] = t[b]
    PROVE  Shown(s, a) = Shown(t, b) /\ Width(s, a) = Width(t, b)
<1>1. {p \in Patterns : Matches(s, a, p)} = {p \in Patterns : Matches(t, b, p)}
  OBVIOUS
<1>2. MatchAt(s, a) = MatchAt(t, b)
  BY <1>1, Zenon DEF MatchAt, Matches
<1> QED  BY <1>2 DEF Shown, Width

\* A decision taken with as many bytes as the longest pattern stands
\* when more bytes follow.
LEMMA MatchInLonger ==
    ASSUME NEW s \in Seq(Symbols), NEW bytes \in Seq(Symbols), NEW at \in 1..Len(s),
           at + Longest - 1 <= Len(s)
    PROVE  /\ Shown(s, at) = Shown(s \o bytes, at)
           /\ Width(s, at) = Width(s \o bytes, at)
<1> DEFINE t == s \o bytes
<1>1. /\ t \in Seq(Symbols) /\ Len(t) = Len(s) + Len(bytes)
      /\ \A i \in 1..Len(s) : t[i] = s[i]
  BY ConcatProperties
<1> HIDE DEF t
<1>2. \A p \in Patterns : Matches(s, at, p) <=> Matches(t, at, p)
  <2> TAKE p \in Patterns
  <2>1. Len(p) \in Nat /\ at + Len(p) - 1 <= Len(s)
    BY LongestType, PatternsAssumption
  <2>2. \A j \in 1..Len(p) : t[at + j - 1] = s[at + j - 1]
    BY <1>1, <2>1
  <2>3. at \in 1..(Len(s) + 1) /\ at \in 1..(Len(t) + 1) /\ at + Len(p) - 1 <= Len(t)
    BY <1>1, <2>1
  <2>4. Matches(s, at, p) <=> \A j \in 1..Len(p) : s[at + j - 1] = p[j]
    BY <2>1, <2>3, MatchesMeans
  <2>5. Matches(t, at, p) <=> \A j \in 1..Len(p) : t[at + j - 1] = p[j]
    BY <1>1, <2>3, MatchesMeans
  <2> QED  BY <2>2, <2>4, <2>5
<1>3. at \in 1..Len(t) /\ s[at] = t[at]
  BY <1>1
<1>4. Shown(s, at) = Shown(t, at) /\ Width(s, at) = Width(t, at)
  BY <1>1, <1>2, <1>3, SameMatch
<1> QED  BY <1>4 DEF t

\* What is held back: all from a position on.
HeldBack(held, seen, from) == /\ Len(held) = Len(seen) - from + 1
                              /\ \A i \in 1..Len(held) : held[i] = seen[i + from - 1]

\* A decision in what was held back is the one in all the bytes, further on.
LEMMA MatchInSuffix ==
    ASSUME NEW s \in Seq(Symbols), NEW from \in 1..(Len(s) + 1), NEW t \in Seq(Symbols),
           HeldBack(t, s, from),
           NEW at \in 1..Len(t)
    PROVE  /\ Shown(t, at) = Shown(s, at + from - 1)
           /\ Width(t, at) = Width(s, at + from - 1)
<1> DEFINE b == at + from - 1
<1>1. b \in 1..Len(s) /\ t[at] = s[b]
  BY DEF HeldBack
<1>2. \A p \in Patterns : Matches(t, at, p) <=> Matches(s, b, p)
  <2> TAKE p \in Patterns
  <2>1. Len(p) \in Nat
    BY PatternsAssumption
  <2>2. at \in 1..(Len(t) + 1) /\ b \in 1..(Len(s) + 1)
    BY <1>1
  <2>3. at + Len(p) - 1 <= Len(t) <=> b + Len(p) - 1 <= Len(s)
    BY <2>1 DEF HeldBack
  <2>4. at + Len(p) - 1 <= Len(t) => \A j \in 1..Len(p) : t[at + j - 1] = s[b + j - 1]
    <3> HAVE at + Len(p) - 1 <= Len(t)
    <3> TAKE j \in 1..Len(p)
    <3>1. at + j - 1 \in 1..Len(t) /\ (at + j - 1) + from - 1 = b + j - 1
      BY <2>1
    <3>2. t[at + j - 1] = s[(at + j - 1) + from - 1]
      BY <3>1 DEF HeldBack
    <3> QED  BY <3>1, <3>2
  <2>5. Matches(t, at, p) <=> /\ at + Len(p) - 1 <= Len(t)
                              /\ \A j \in 1..Len(p) : t[at + j - 1] = p[j]
    BY <2>2, MatchesMeans
  <2>6. Matches(s, b, p) <=> /\ b + Len(p) - 1 <= Len(s)
                             /\ \A j \in 1..Len(p) : s[b + j - 1] = p[j]
    BY <2>2, MatchesMeans
  <2> QED  BY <2>3, <2>4, <2>5, <2>6
<1> HIDE DEF b
<1>3. Shown(t, at) = Shown(s, b) /\ Width(t, at) = Width(s, b)
  BY <1>1, <1>2, SameMatch
<1> QED  BY <1>3 DEF b

\* Two sequences joined, symbol by symbol.
LEMMA Joined ==
    ASSUME NEW S, NEW a \in Seq(S), NEW b \in Seq(S)
    PROVE  /\ a \o b \in Seq(S) /\ Len(a) \in Nat /\ Len(b) \in Nat
           /\ Len(a \o b) = Len(a) + Len(b)
           /\ \A i \in 1..Len(a \o b) : (a \o b)[i] = IF i <= Len(a) THEN a[i] ELSE b[i - Len(a)]
  BY ConcatProperties

\* Each decision of a trace was taken with all the bytes a pattern could need.
Decided(seen, out, p) == \A i \in 1..Len(out) : p[i] + Longest - 1 <= Len(seen)

\* What is held back and the new bytes are the end of all bytes.
LEMMA HeldIsSuffix ==
    ASSUME NEW seen \in Seq(Symbols), NEW bytes \in Seq(Symbols),
           NEW from \in 1..(Len(seen) + 1), NEW held \in Seq(Symbols), HeldBack(held, seen, from)
    PROVE  /\ held \o bytes \in Seq(Symbols) /\ seen \o bytes \in Seq(Symbols)
           /\ Len(seen \o bytes) = Len(seen) + Len(bytes)
           /\ HeldBack(held \o bytes, seen \o bytes, from)
<1> DEFINE text == held \o bytes
           all  == seen \o bytes
<1>1. /\ all \in Seq(Symbols) /\ Len(all) = Len(seen) + Len(bytes)
      /\ \A i \in 1..Len(all) : all[i] = IF i <= Len(seen) THEN seen[i] ELSE bytes[i - Len(seen)]
  BY Joined, Zenon
<1>2. /\ text \in Seq(Symbols) /\ Len(text) = Len(held) + Len(bytes)
      /\ \A i \in 1..Len(text) : text[i] = IF i <= Len(held) THEN held[i] ELSE bytes[i - Len(held)]
  BY Joined, Zenon
<1>3. Len(seen) \in Nat /\ Len(bytes) \in Nat /\ Len(held) = Len(seen) - from + 1
  BY DEF HeldBack
<1> HIDE DEF all, text
<1>4. Len(text) = Len(all) - from + 1
  BY <1>1, <1>2, <1>3
<1>5. \A i \in 1..Len(text) : text[i] = all[i + from - 1]
  <2> TAKE i \in 1..Len(text)
  <2>1. i + from - 1 \in 1..Len(all) /\ i \in Int
    BY <1>1, <1>2, <1>3
  <2>2. CASE i <= Len(held)
    <3>1. i \in 1..Len(held) /\ i + from - 1 <= Len(seen)
      BY <2>2, <1>3
    <3>2. text[i] = held[i] /\ all[i + from - 1] = seen[i + from - 1]
      BY <2>1, <2>2, <3>1, <1>1, <1>2
    <3> QED  BY <3>1, <3>2 DEF HeldBack
  <2>3. CASE i > Len(held)
    <3>1. /\ ~(i + from - 1 <= Len(seen)) /\ i - Len(held) = (i + from - 1) - Len(seen)
          /\ ~(i <= Len(held))
      BY <2>1, <2>3, <1>3
    <3>2. text[i] = bytes[i - Len(held)]
      BY <3>1, <1>2
    <3>3. all[i + from - 1] = bytes[(i + from - 1) - Len(seen)]
      BY <2>1, <3>1, <1>1
    <3> QED  BY <3>1, <3>2, <3>3
  <2> QED  BY <2>1, <2>2, <2>3, <1>3
<1>6. HeldBack(text, all, from)
  BY <1>4, <1>5 DEF HeldBack
<1> QED  BY <1>1, <1>2, <1>6 DEF all, text

\* More bytes change nothing that was decided with all the bytes it could need.
LEMMA TraceInLonger ==
    ASSUME NEW seen \in Seq(Symbols), NEW bytes \in Seq(Symbols), NEW out \in Seq(Output),
           NEW p, Trace(seen, out, p, 1), Decided(seen, out, p)
    PROVE  Trace(seen \o bytes, out, p, 1)
<1> DEFINE all == seen \o bytes
<1>1. all \in Seq(Symbols) /\ Len(seen) \in Nat /\ Len(all) \in Nat /\ Len(seen) <= Len(all)
  BY Joined
<1>2. /\ p \in [1..(Len(out) + 1) -> 1..(Len(seen) + 1)] /\ p[1] = 1
      /\ \A i \in 1..Len(out) : /\ p[i] <= Len(seen)
                                /\ out[i] = Shown(seen, p[i])
                                /\ p[i + 1] = p[i] + Width(seen, p[i])
  BY DEF Trace
<1>3. p \in [1..(Len(out) + 1) -> 1..(Len(all) + 1)]
  <2> HIDE DEF all
  <2>1. 1..(Len(seen) + 1) \subseteq 1..(Len(all) + 1)
    BY <1>1
  <2> QED  BY <1>2, <2>1
<1>4. \A i \in 1..Len(out) : /\ p[i] <= Len(all)
                             /\ out[i] = Shown(all, p[i])
                             /\ p[i + 1] = p[i] + Width(all, p[i])
  <2> TAKE i \in 1..Len(out)
  <2>1. p[i] \in 1..Len(seen) /\ p[i] + Longest - 1 <= Len(seen)
    <3>1. i \in 1..(Len(out) + 1)
      OBVIOUS
    <3>2. p[i] \in 1..(Len(seen) + 1) /\ p[i] <= Len(seen)
      BY <1>2, <3>1
    <3>3. p[i] + Longest - 1 <= Len(seen)
      BY DEF Decided
    <3> QED  BY <3>2, <3>3, <1>1
  <2>2. Shown(seen, p[i]) = Shown(all, p[i]) /\ Width(seen, p[i]) = Width(all, p[i])
    BY <2>1, MatchInLonger
  <2>3. p[i] <= Len(all)
    <3> HIDE DEF all
    <3> QED  BY <2>1, <1>1
  <2> HIDE DEF all
  <2> QED  BY <1>2, <2>2, <2>3, Zenon
<1> HIDE DEF all
<1>5. Trace(all, out, p, 1)
  BY <1>2, <1>3, <1>4, Zenon DEF Trace
<1> QED  BY <1>5 DEF all

\* A trace of the end of a text is one of the text, further on.
LEMMA TraceInSuffix ==
    ASSUME NEW all \in Seq(Symbols), NEW from \in 1..(Len(all) + 1), NEW text \in Seq(Symbols),
           HeldBack(text, all, from), NEW more \in Seq(Output), NEW q, Trace(text, more, q, 1)
    PROVE  Trace(all, more, [i \in 1..(Len(more) + 1) |-> q[i] + from - 1], from)
<1> DEFINE s == [i \in 1..(Len(more) + 1) |-> q[i] + from - 1]
<1>1. /\ q \in [1..(Len(more) + 1) -> 1..(Len(text) + 1)] /\ q[1] = 1
      /\ \A i \in 1..Len(more) : /\ q[i] <= Len(text)
                                 /\ more[i] = Shown(text, q[i])
                                 /\ q[i + 1] = q[i] + Width(text, q[i])
  BY DEF Trace
<1>2. Len(all) \in Nat /\ Len(more) \in Nat /\ Len(text) \in Nat
  OBVIOUS
<1>b. Len(text) = Len(all) - from + 1 /\ \A i \in 1..Len(text) : text[i] = all[i + from - 1]
  BY DEF HeldBack
<1>3. \A i \in 1..Len(more) :
         /\ Shown(text, q[i]) = Shown(all, q[i] + from - 1)
         /\ Width(text, q[i]) = Width(all, q[i] + from - 1)
         /\ Width(text, q[i]) \in Nat
  <2> TAKE i \in 1..Len(more)
  <2>1. q[i] \in 1..Len(text)
    <3>1. i \in 1..(Len(more) + 1)
      BY <1>2
    <3>2. q[i] \in 1..(Len(text) + 1) /\ q[i] <= Len(text)
      BY <1>1, <3>1
    <3> QED  BY <3>2, <1>2
  <2> QED  BY <2>1, MatchInSuffix, WidthFits
<1> SUFFICES /\ s \in [1..(Len(more) + 1) -> 1..(Len(all) + 1)] /\ s[1] = from
             /\ \A i \in 1..Len(more) : /\ s[i] <= Len(all)
                                        /\ more[i] = Shown(all, s[i])
                                        /\ s[i + 1] = s[i] + Width(all, s[i])
  BY DEF Trace
<1>4. \A i \in 1..(Len(more) + 1) : q[i] \in 1..(Len(text) + 1)
  BY <1>1
<1>5. s \in [1..(Len(more) + 1) -> 1..(Len(all) + 1)]
  BY <1>2, <1>4, <1>b
<1>6. s[1] = from
  BY <1>1, <1>2
<1>7. ASSUME NEW i \in 1..Len(more)
      PROVE  /\ s[i] <= Len(all)
             /\ more[i] = Shown(all, s[i])
             /\ s[i + 1] = s[i] + Width(all, s[i])
  <2>1. /\ i \in 1..(Len(more) + 1) /\ i + 1 \in 1..(Len(more) + 1)
    BY <1>2
  <2>2. s[i] = q[i] + from - 1 /\ s[i + 1] = q[i + 1] + from - 1
    BY <2>1
  <2>3. q[i] <= Len(text) /\ q[i] \in Int /\ q[i + 1] = q[i] + Width(text, q[i])
    BY <1>1, <1>4, <2>1
  <2>4. Width(text, q[i]) \in Nat /\ Width(text, q[i]) = Width(all, s[i])
        /\ Shown(text, q[i]) = Shown(all, s[i])
    BY <1>3, <2>2
  <2>5. more[i] = Shown(text, q[i])
    BY <1>1
  <2> HIDE DEF s
  <2>6. s[i] <= Len(all) /\ s[i + 1] = s[i] + Width(text, q[i])
    BY <2>2, <2>3, <2>4, <1>2, <1>b
  <2> QED  BY <2>4, <2>5, <2>6
<1> QED  BY <1>5, <1>6, <1>7

\* The positions behind what went out before, and then those behind what follows.
Joins(r, out, p, more, s) ==
    /\ r[Len(out \o more) + 1] = s[Len(more) + 1]
    /\ \A i \in 1..Len(out) : r[i] = p[i]
    /\ \A j \in 1..Len(more) : r[Len(out) + j] = s[j]

\* A trace that begins where another ends continues it.
LEMMA TraceThen ==
    ASSUME NEW all \in Seq(Symbols), NEW out \in Seq(Output), NEW more \in Seq(Output),
           NEW p, NEW s, Trace(all, out, p, 1), Trace(all, more, s, p[Len(out) + 1])
    PROVE  \E r : Trace(all, out \o more, r, 1) /\ Joins(r, out, p, more, s)
<1> DEFINE r == [i \in 1..(Len(out) + Len(more) + 1) |->
                    IF i <= Len(out) THEN p[i] ELSE s[i - Len(out)]]
           sum == out \o more
<1>1. /\ p \in [1..(Len(out) + 1) -> 1..(Len(all) + 1)] /\ p[1] = 1
      /\ \A i \in 1..Len(out) : /\ p[i] <= Len(all)
                                /\ out[i] = Shown(all, p[i])
                                /\ p[i + 1] = p[i] + Width(all, p[i])
  BY DEF Trace
<1>2. /\ s \in [1..(Len(more) + 1) -> 1..(Len(all) + 1)] /\ s[1] = p[Len(out) + 1]
      /\ \A i \in 1..Len(more) : /\ s[i] <= Len(all)
                                 /\ more[i] = Shown(all, s[i])
                                 /\ s[i + 1] = s[i] + Width(all, s[i])
  BY DEF Trace
<1>3. /\ sum \in Seq(Output) /\ Len(sum) = Len(out) + Len(more)
      /\ \A i \in 1..Len(sum) : sum[i] = IF i <= Len(out) THEN out[i] ELSE more[i - Len(out)]
      /\ Len(out) \in Nat /\ Len(more) \in Nat
  BY Joined
<1> HIDE DEF sum
<1>4. \A i \in 1..Len(out) : r[i] = p[i] /\ r[i + 1] = p[i + 1]
  <2> TAKE i \in 1..Len(out)
  <2>1. i \in 1..(Len(out) + Len(more) + 1) /\ i <= Len(out)
        /\ i + 1 \in 1..(Len(out) + Len(more) + 1) /\ i \in Int
    BY <1>3
  <2>2. r[i] = p[i]
    BY <2>1
  <2>3. r[i + 1] = p[i + 1]
    <3>1. CASE i + 1 <= Len(out)
      BY <2>1, <3>1
    <3>2. CASE ~(i + 1 <= Len(out))
      <4>1. i = Len(out) /\ (i + 1) - Len(out) = 1
        BY <2>1, <3>2, <1>3
      <4>2. r[i + 1] = s[(i + 1) - Len(out)]
        BY <2>1, <3>2
      <4> QED  BY <4>1, <4>2, <1>2
    <3> QED  BY <3>1, <3>2
  <2> QED  BY <2>2, <2>3
<1>5. \A j \in 1..(Len(more) + 1) : r[Len(out) + j] = s[j]
  <2> TAKE j \in 1..(Len(more) + 1)
  <2>1. /\ Len(out) + j \in 1..(Len(out) + Len(more) + 1) /\ ~(Len(out) + j <= Len(out))
        /\ (Len(out) + j) - Len(out) = j
    BY <1>3
  <2> QED  BY <2>1
<1>6. r \in [1..(Len(sum) + 1) -> 1..(Len(all) + 1)]
  <2>1. ASSUME NEW i \in 1..(Len(out) + Len(more) + 1)
        PROVE  r[i] \in 1..(Len(all) + 1)
    <3>1. CASE i <= Len(out)
      <4>1. i \in 1..Len(out) /\ i \in 1..(Len(out) + 1)
        BY <3>1, <1>3
      <4>2. r[i] = p[i]
        BY <4>1, <1>4
      <4> QED  BY <4>1, <4>2, <1>1
    <3>2. CASE ~(i <= Len(out))
      <4>1. i - Len(out) \in 1..(Len(more) + 1) /\ Len(out) + (i - Len(out)) = i
        BY <3>2, <1>3
      <4>2. r[i] = s[i - Len(out)]
        BY <3>2
      <4> QED  BY <4>1, <4>2, <1>2
    <3> QED  BY <3>1, <3>2
  <2>2. 1..(Len(sum) + 1) = 1..(Len(out) + Len(more) + 1)
    BY <1>3
  <2>3. r = [i \in 1..(Len(sum) + 1) |-> r[i]]
    BY <2>2
  <2> HIDE DEF r
  <2> QED  BY <2>1, <2>2, <2>3
<1>7. r[1] = 1
  <2>1. CASE Len(out) = 0
    <3>1. Len(out) + 1 = 1 /\ 1 \in 1..(Len(more) + 1)
      BY <2>1, <1>3
    <3>2. r[Len(out) + 1] = s[1]
      BY <3>1, <1>5
    <3> HIDE DEF r
    <3> QED  BY <3>1, <3>2, <1>1, <1>2
  <2>2. CASE Len(out) # 0
    <3>1. 1 \in 1..Len(out)
      BY <2>2, <1>3
    <3> HIDE DEF r
    <3> QED  BY <3>1, <1>1, <1>4
  <2> QED  BY <2>1, <2>2
<1>8. r[Len(sum) + 1] = s[Len(more) + 1]
  <2>1. Len(more) + 1 \in 1..(Len(more) + 1) /\ Len(sum) + 1 = Len(out) + (Len(more) + 1)
    BY <1>3
  <2> HIDE DEF r
  <2> QED  BY <2>1, <1>5
<1> HIDE DEF r
<1>9. ASSUME NEW i \in 1..Len(sum)
      PROVE  /\ r[i] <= Len(all)
             /\ sum[i] = Shown(all, r[i])
             /\ r[i + 1] = r[i] + Width(all, r[i])
  <2>1. CASE i <= Len(out)
    <3>1. i \in 1..Len(out) /\ sum[i] = out[i]
      BY <2>1, <1>3
    <3>2. r[i] = p[i] /\ r[i + 1] = p[i + 1]
      BY <3>1, <1>4
    <3> QED  BY <3>1, <3>2, <1>1
  <2>2. CASE ~(i <= Len(out))
    <3> DEFINE j == i - Len(out)
    <3>1. /\ j \in 1..Len(more) /\ j \in 1..(Len(more) + 1) /\ j + 1 \in 1..(Len(more) + 1)
          /\ Len(out) + j = i /\ Len(out) + (j + 1) = i + 1
      BY <2>2, <1>3
    <3>2. sum[i] = more[j]
      BY <2>2, <1>3
    <3> HIDE DEF j
    <3>3. r[i] = s[j] /\ r[i + 1] = s[j + 1]
      BY <3>1, <1>5
    <3> QED  BY <3>1, <3>2, <3>3, <1>2
  <2> QED  BY <2>1, <2>2
<1>10. Trace(all, sum, r, 1)
  BY <1>6, <1>7, <1>9, Zenon DEF Trace
<1>11. Joins(r, out, p, more, s)
  <2>1. \A j \in 1..Len(more) : r[Len(out) + j] = s[j]
    BY <1>3, <1>5
  <2> QED  BY <1>4, <1>8, <2>1 DEF Joins, sum
<1> QED  BY <1>10, <1>11, Zenon DEF sum

\* A trace that continues one by another of what was held back.
Continues(r, out, p, more, q) ==
    /\ r[Len(out \o more) + 1] = q[Len(more) + 1] + p[Len(out) + 1] - 1
    /\ \A i \in 1..Len(out) : r[i] = p[i]
    /\ \A j \in 1..Len(more) : r[Len(out) + j] = q[j] + p[Len(out) + 1] - 1

\* The trace of what was pushed before, and the one of this push on what was held
\* back with the new bytes, are one trace of all.
LEMMA TraceJoin ==
    ASSUME NEW seen \in Seq(Symbols), NEW bytes \in Seq(Symbols), NEW out \in Seq(Output),
           NEW p, Trace(seen, out, p, 1), Decided(seen, out, p),
           NEW held \in Seq(Symbols), HeldBack(held, seen, p[Len(out) + 1]),
           NEW more \in Seq(Output), NEW q, Trace(held \o bytes, more, q, 1)
    PROVE  \E r : /\ Trace(seen \o bytes, out \o more, r, 1)
                  /\ Continues(r, out, p, more, q)
<1> DEFINE from == p[Len(out) + 1]
           s == [i \in 1..(Len(more) + 1) |-> q[i] + from - 1]
           all == seen \o bytes
<1>1. from \in 1..(Len(seen) + 1)
  <2>1. Len(out) + 1 \in 1..(Len(out) + 1)
    OBVIOUS
  <2>2. p \in [1..(Len(out) + 1) -> 1..(Len(seen) + 1)]
    BY DEF Trace
  <2> QED  BY <2>1, <2>2
<1>2. /\ held \o bytes \in Seq(Symbols) /\ all \in Seq(Symbols)
      /\ Len(all) = Len(seen) + Len(bytes)
      /\ HeldBack(held \o bytes, all, from)
  <2>1. HeldBack(held, seen, from)
    OBVIOUS
  <2> HIDE DEF from
  <2> QED  BY <1>1, <2>1, HeldIsSuffix, Zenon
<1>3. Trace(all, out, p, 1)
  BY TraceInLonger
<1> HIDE DEF all
<1>4. from \in 1..(Len(all) + 1)
  <2>1. Len(seen) \in Nat /\ Len(bytes) \in Nat
    OBVIOUS
  <2> HIDE DEF from
  <2> QED  BY <1>1, <1>2, <2>1
<1>5. Trace(all, more, s, from)
  <2> HIDE DEF from
  <2> QED  BY <1>2, <1>4, TraceInSuffix
<1>6. Trace(all, more, s, p[Len(out) + 1])
  BY <1>5
<1> HIDE DEF s, from
<1>7. PICK r : Trace(all, out \o more, r, 1) /\ Joins(r, out, p, more, s)
  BY <1>2, <1>3, <1>6, TraceThen, Zenon
<1>8. \A j \in 1..(Len(more) + 1) : s[j] = q[j] + from - 1
  BY DEF s
<1>9. Continues(r, out, p, more, q)
  <2>1. Len(more) + 1 \in 1..(Len(more) + 1) /\ \A j \in 1..Len(more) : j \in 1..(Len(more) + 1)
    OBVIOUS
  <2>2. s[Len(more) + 1] = q[Len(more) + 1] + from - 1
    BY <1>8, <2>1
  <2>3. \A j \in 1..Len(more) : s[j] = q[j] + from - 1
    BY <1>8, <2>1
  <2> QED  BY <1>7, <2>2, <2>3, Zenon DEF Continues, Joins, from
<1>10. \E x : Trace(all, out \o more, x, 1) /\ Continues(x, out, p, more, q)
  BY <1>7, <1>9, Zenon
<1> QED  BY <1>10 DEF all

\* Max of two numbers.
LEMMA MaxOfTwo ==
    ASSUME NEW a \in Int, NEW b \in Int
    PROVE  /\ Max({a, b}) \in {a, b} /\ Max({a, b}) >= a /\ Max({a, b}) >= b
<1>1. \E x \in {a, b} : \A y \in {a, b} : x >= y
  <2>1. CASE a >= b
    BY <2>1
  <2>2. CASE ~(a >= b)
    BY <2>2
  <2> QED  BY <2>1, <2>2
<1> QED  BY <1>1 DEF Max

\* How far a push looks for matches: all the way in the last one, and one byte
\* less than the longest pattern from the end in the others.
LEMMA LimitFits ==
    ASSUME NEW text \in Seq(Symbols)
    PROVE  /\ Limit(text, TRUE) = Len(text)
           /\ Limit(text, FALSE) \in 0..Len(text)
           /\ Limit(text, FALSE) >= Len(text) - (Longest - 1)
           /\ Limit(text, FALSE) # 0 => Limit(text, FALSE) = Len(text) - (Longest - 1)
<1>1. Longest \in Nat /\ Longest >= 1 /\ Len(text) \in Nat
  BY LongestType
<1> DEFINE least == Len(text) - (Longest - 1)
           m == Max({0, least})
<1>2. least \in Int /\ least <= Len(text)
  <2> HIDE DEF Longest
  <2> QED  BY <1>1
<1>3. Limit(text, FALSE) = m
  BY DEF Limit
<1>4. Limit(text, TRUE) = Len(text)
  BY DEF Limit
<1> HIDE DEF least
<1>5. m \in {0, least} /\ m >= 0 /\ m >= least
  <2>1. 0 \in Int /\ least \in Int
    BY <1>2
  <2> QED  BY <2>1, MaxOfTwo, Zenon
<1> HIDE DEF m
<1>6. m \in 0..Len(text) /\ m >= least /\ (m # 0 => m = least)
  BY <1>1, <1>2, <1>5
<1> QED  BY <1>3, <1>4, <1>6 DEF least

\* What went out has a trace, and each decision was taken before, or as far from the
\* end of all bytes as the limit is from the end of the text.
Scanned(seen, all, sum, rest, limit, slack) ==
    /\ Len(rest) <= slack
    /\ \E r : /\ Trace(all, sum, r, 1)
              /\ HeldBack(rest, all, r[Len(sum) + 1])
              /\ \A i \in 1..Len(sum) :
                    \/ r[i] + Longest - 1 <= Len(seen)
                    \/ limit # 0 /\ r[i] + slack <= Len(all)

\* What a chunk's scan adds to what went out before, and what it holds back.
LEMMA ScanJoin ==
    ASSUME NEW seen \in Seq(Symbols), NEW bytes \in Seq(Symbols), NEW out \in Seq(Output),
           NEW p, Trace(seen, out, p, 1), Decided(seen, out, p),
           NEW held \in Seq(Symbols), HeldBack(held, seen, p[Len(out) + 1]),
           NEW limit \in 0..Len(held \o bytes)
    PROVE  LET text == held \o bytes
               scan == Scan(text, limit)
               sum  == out \o scan.out
               rest == SubSeq(text, scan.next, Len(text))
           IN  /\ sum \in Seq(Output) /\ rest \in Seq(Symbols)
               /\ Scanned(seen, seen \o bytes, sum, rest, limit, Len(text) - limit)
<1> DEFINE text == held \o bytes
           all  == seen \o bytes
           scan == Scan(text, limit)
           sum  == out \o scan.out
           rest == SubSeq(text, scan.next, Len(text))
           from == p[Len(out) + 1]
<1>1. from \in 1..(Len(seen) + 1)
  <2>1. Len(out) + 1 \in 1..(Len(out) + 1)
    OBVIOUS
  <2>2. p \in [1..(Len(out) + 1) -> 1..(Len(seen) + 1)]
    BY DEF Trace
  <2> QED  BY <2>1, <2>2
<1>2. /\ text \in Seq(Symbols) /\ all \in Seq(Symbols)
      /\ Len(all) = Len(seen) + Len(bytes) /\ Len(text) = Len(all) - from + 1
      /\ \A i \in 1..Len(text) : text[i] = all[i + from - 1]
  <2>1. HeldBack(held, seen, from)
    OBVIOUS
  <2> HIDE DEF from
  <2>2. /\ text \in Seq(Symbols) /\ all \in Seq(Symbols)
        /\ Len(all) = Len(seen) + Len(bytes) /\ HeldBack(text, all, from)
    BY <1>1, <2>1, HeldIsSuffix, Zenon
  <2> HIDE DEF text, all
  <2> QED  BY <2>2 DEF HeldBack
<1>3. /\ scan.out \in Seq(Output)
      /\ scan.next \in (limit + 1)..(Len(text) + 1)
      /\ \E q : /\ Trace(text, scan.out, q, 1)
                /\ q[Len(scan.out) + 1] = scan.next
                /\ \A i \in 1..Len(scan.out) : q[i] <= limit
  <2> HIDE DEF text
  <2>1. limit \in 0..Len(text)
    BY DEF text
  <2> QED  BY <1>2, <2>1, ScanTraced
<1>4. PICK q : /\ Trace(text, scan.out, q, 1)
               /\ q[Len(scan.out) + 1] = scan.next
               /\ \A i \in 1..Len(scan.out) : q[i] <= limit
  BY <1>3
<1> HIDE DEF scan
<1>5. PICK r : /\ Trace(all, sum, r, 1)
               /\ r[Len(sum) + 1] = q[Len(scan.out) + 1] + from - 1
               /\ \A i \in 1..Len(out) : r[i] = p[i]
               /\ \A j \in 1..Len(scan.out) : r[Len(out) + j] = q[j] + from - 1
  <2>1. PICK r : Trace(all, sum, r, 1) /\ Continues(r, out, p, scan.out, q)
    BY <1>3, <1>4, TraceJoin, Zenon
  <2> QED  BY <2>1 DEF Continues
<1>6. sum \in Seq(Output) /\ Len(sum) = Len(out) + Len(scan.out)
      /\ Len(out) \in Nat /\ Len(scan.out) \in Nat /\ Len(seen) \in Nat /\ Len(bytes) \in Nat
  BY <1>3, Joined
<1>t. limit \in Nat /\ Len(text) \in Nat /\ limit <= Len(text)
  <2>1. Len(text) \in Nat
    BY <1>2
  <2>2. limit \in 0..Len(text)
    OBVIOUS
  <2> HIDE DEF text
  <2> QED  BY <2>1, <2>2
<1>7. /\ rest \in Seq(Symbols) /\ Len(rest) = Len(text) - scan.next + 1
      /\ \A i \in 1..Len(rest) : rest[i] = text[i + scan.next - 1]
  <2> HIDE DEF text
  <2>1. scan.next \in Int /\ scan.next >= 1 /\ scan.next <= Len(text) + 1
    BY <1>3, <1>t
  <2>2. \A i \in scan.next..Len(text) : text[i] \in Symbols
    BY <1>2, <2>1
  <2>3. CASE scan.next <= Len(text)
    <3>0. scan.next \in Int /\ Len(text) \in Int
      BY <2>1, <1>t
    <3>1. rest \in Seq(Symbols) /\ IsCut(rest, text, scan.next, Len(text))
      BY <3>0, <2>2, <2>3, CutOut, Zenon
    <3> HIDE DEF rest
    <3>2. \A i \in 1..Len(rest) : scan.next + i - 1 = i + scan.next - 1
      BY <2>1, <3>1
    <3> QED  BY <3>1, <3>2 DEF IsCut
  <2>4. CASE scan.next = Len(text) + 1
    <3>1. rest = <<>>
      BY <2>4, <1>2, <1>t
    <3> HIDE DEF rest
    <3> QED  BY <3>1, <2>4, <1>t
  <2> QED  BY <2>1, <2>3, <2>4, <1>t
<1>8. Len(rest) <= Len(text) - limit
  <2> HIDE DEF rest, text
  <2> QED  BY <1>3, <1>7, <1>t
<1>9. HeldBack(rest, all, r[Len(sum) + 1])
  <2> HIDE DEF rest, text, all, from, sum
  <2>n. scan.next \in Int /\ scan.next >= 1
    BY <1>3, <1>t
  <2>f. from \in Int /\ from >= 1
    BY <1>1, <1>6
  <2>0. scan.next \in Int /\ scan.next >= 1 /\ from \in Int /\ from >= 1
    BY <2>n, <2>f
  <2>1. r[Len(sum) + 1] = scan.next + from - 1 /\ scan.next \in Int /\ scan.next >= 1
        /\ from \in Int /\ from >= 1 /\ Len(all) \in Nat
    <3>1. r[Len(sum) + 1] = scan.next + from - 1
      BY <1>4, <1>5
    <3>2. Len(all) \in Nat
      BY <1>2, <1>6
    <3> QED  BY <2>0, <3>1, <3>2, Zenon
  <2>2. Len(rest) = Len(all) - r[Len(sum) + 1] + 1
    BY <2>1, <1>2, <1>7
  <2>3. \A i \in 1..Len(rest) : rest[i] = all[i + r[Len(sum) + 1] - 1]
    <3> TAKE i \in 1..Len(rest)
    <3>1. /\ i + scan.next - 1 \in 1..Len(text)
          /\ (i + scan.next - 1) + from - 1 = i + (scan.next + from - 1) - 1
      <4> DEFINE n == scan.next
                 l == Len(text)
      <4>1. n \in Int /\ n >= 1 /\ l \in Int /\ i \in 1..(l - n + 1) /\ from \in Int
        BY <2>1, <1>7, <1>t
      <4> HIDE DEF n, l
      <4>2. i + n - 1 \in 1..l /\ (i + n - 1) + from - 1 = i + (n + from - 1) - 1
        BY <4>1
      <4> QED  BY <4>2 DEF n, l
    <3>2. rest[i] = text[i + scan.next - 1]
      BY <1>7
    <3>3. text[i + scan.next - 1] = all[(i + scan.next - 1) + from - 1]
      BY <1>2, <3>1
    <3> QED  BY <2>1, <3>1, <3>2, <3>3
  <2> QED  BY <2>2, <2>3 DEF HeldBack
<1>10. ASSUME NEW i \in 1..Len(sum)
       PROVE  \/ r[i] + Longest - 1 <= Len(seen)
              \/ limit # 0 /\ r[i] + (Len(text) - limit) <= Len(all)
  <2> HIDE DEF rest, text, all, from, sum
  <2>1. CASE i <= Len(out)
    <3>1. i \in 1..Len(out)
      BY <2>1, <1>6
    <3> QED  BY <3>1, <1>5 DEF Decided
  <2>2. CASE ~(i <= Len(out))
    <3> DEFINE j == i - Len(out)
    <3>1. j \in 1..Len(scan.out) /\ Len(out) + j = i
      BY <2>2, <1>6
    <3> HIDE DEF j
    <3>2. r[i] = q[j] + from - 1 /\ q[j] <= limit
      BY <3>1, <1>4, <1>5
    <3>3. q[j] \in Int /\ q[j] >= 1
      <4>1. q \in [1..(Len(scan.out) + 1) -> 1..(Len(text) + 1)]
        BY <1>4 DEF Trace
      <4>2. j \in 1..(Len(scan.out) + 1)
        BY <3>1, <1>6
      <4> QED  BY <4>1, <4>2, <1>t
    <3>4. from \in Int /\ Len(all) \in Int /\ Len(text) = Len(all) - from + 1
      BY <1>1, <1>2, <1>6
    <3>5. limit # 0 /\ r[i] + (Len(text) - limit) <= Len(all)
      BY <3>2, <3>3, <3>4, <1>t
    <3> QED  BY <3>5
  <2> QED  BY <2>1, <2>2
<1> HIDE DEF sum, rest, from, text, all
<1>11. Scanned(seen, all, sum, rest, limit, Len(text) - limit)
  <2>1. \A i \in 1..Len(sum) :
           \/ r[i] + Longest - 1 <= Len(seen)
           \/ limit # 0 /\ r[i] + (Len(text) - limit) <= Len(all)
    BY <1>10
  <2>2. \E x : /\ Trace(all, sum, x, 1)
               /\ HeldBack(rest, all, x[Len(sum) + 1])
               /\ \A i \in 1..Len(sum) :
                     \/ x[i] + Longest - 1 <= Len(seen)
                     \/ limit # 0 /\ x[i] + (Len(text) - limit) <= Len(all)
    BY <2>1, <1>5, <1>9
  <2> QED  BY <2>2, <1>8 DEF Scanned
<1> QED  BY <1>6, <1>7, <1>11 DEF sum, rest, text, all, scan

\* What was pushed so far went out, but for what is held back.
Streamed(seen, out, held) ==
    /\ Len(held) < Longest
    /\ \E p : /\ Trace(seen, out, p, 1) /\ Decided(seen, out, p)
              /\ HeldBack(held, seen, p[Len(out) + 1])
\* All of it went out.
Ended(seen, out, held) ==
    held = <<>> /\ \E p : Trace(seen, out, p, 1) /\ p[Len(out) + 1] = Len(seen) + 1

\* OutputRedactor::new.
LEMMA NothingStreamed == Streamed(<<>>, <<>>, <<>>)
<1> DEFINE p == [i \in 1..1 |-> 1]
<1>1. Longest >= 1 /\ Longest \in Nat
  BY LongestType
<1>2. Trace(<<>>, <<>>, p, 1) /\ Decided(<<>>, <<>>, p) /\ HeldBack(<<>>, <<>>, p[Len(<<>>) + 1])
  BY DEF Trace, Decided, HeldBack
<1> HIDE DEF p
<1> QED  BY <1>1, <1>2 DEF Streamed

\* A push of a chunk that is not the last.
LEMMA PushStreams ==
    ASSUME NEW seen \in Seq(Symbols), NEW bytes \in Seq(Symbols), NEW out \in Seq(Output),
           NEW held \in Seq(Symbols), Streamed(seen, out, held)
    PROVE  LET text == held \o bytes
               scan == Scan(text, Limit(text, FALSE))
               rest == SubSeq(text, scan.next, Len(text))
           IN  /\ out \o scan.out \in Seq(Output) /\ rest \in Seq(Symbols)
               /\ Streamed(seen \o bytes, out \o scan.out, rest)
<1> DEFINE text == held \o bytes
           limit == Limit(text, FALSE)
           scan == Scan(text, limit)
           sum  == out \o scan.out
           rest == SubSeq(text, scan.next, Len(text))
           all  == seen \o bytes
<1>1. PICK p : /\ Trace(seen, out, p, 1) /\ Decided(seen, out, p)
               /\ HeldBack(held, seen, p[Len(out) + 1])
  BY DEF Streamed
<1>2. /\ text \in Seq(Symbols) /\ Len(text) \in Nat
      /\ all \in Seq(Symbols) /\ Len(seen) <= Len(all) /\ Len(seen) \in Nat /\ Len(all) \in Nat
  BY Joined
<1>3. /\ limit \in 0..Len(text) /\ limit >= Len(text) - (Longest - 1)
      /\ limit # 0 => limit = Len(text) - (Longest - 1)
  <2> HIDE DEF text
  <2> QED  BY <1>2, LimitFits
<1> HIDE DEF limit
<1>s. /\ sum \in Seq(Output) /\ rest \in Seq(Symbols)
      /\ Scanned(seen, all, sum, rest, limit, Len(text) - limit)
  BY <1>1, <1>3, ScanJoin, Zenon
<1> HIDE DEF sum, rest, text, all, scan
<1>4. sum \in Seq(Output) /\ rest \in Seq(Symbols) /\ Len(rest) <= Len(text) - limit
  BY <1>s DEF Scanned
<1>5. PICK r : /\ Trace(all, sum, r, 1)
               /\ HeldBack(rest, all, r[Len(sum) + 1])
               /\ \A i \in 1..Len(sum) :
                     \/ r[i] + Longest - 1 <= Len(seen)
                     \/ limit # 0 /\ r[i] + (Len(text) - limit) <= Len(all)
  BY <1>s DEF Scanned
<1>6. Decided(all, sum, r)
  <2> SUFFICES ASSUME NEW i \in 1..Len(sum) PROVE r[i] + Longest - 1 <= Len(all)
    BY DEF Decided
  <2>1. r[i] \in Int /\ Longest \in Int
    <3>1. r \in [1..(Len(sum) + 1) -> 1..(Len(all) + 1)]
      BY <1>5 DEF Trace
    <3>2. i \in 1..(Len(sum) + 1)
      BY <1>4
    <3> QED  BY <3>1, <3>2, <1>2, LongestType
  <2>2. \/ r[i] + Longest - 1 <= Len(seen)
        \/ limit # 0 /\ r[i] + (Len(text) - limit) <= Len(all)
    BY <1>5
  <2> QED  BY <2>1, <2>2, <1>2, <1>3
<1>7. Len(rest) < Longest
  <2>1. Len(rest) \in Nat /\ Longest \in Nat
    BY <1>4, LongestType
  <2> QED  BY <2>1, <1>2, <1>3, <1>4
<1>8. Streamed(all, sum, rest)
  BY <1>5, <1>6, <1>7, Zenon DEF Streamed
<1> QED  BY <1>4, <1>8 DEF sum, rest, text, all, scan, limit

\* The last push.
LEMMA PushEnds ==
    ASSUME NEW seen \in Seq(Symbols), NEW out \in Seq(Output),
           NEW held \in Seq(Symbols), Streamed(seen, out, held)
    PROVE  LET text == held \o <<>>
               scan == Scan(text, Limit(text, TRUE))
               rest == SubSeq(text, scan.next, Len(text))
           IN  /\ out \o scan.out \in Seq(Output)
               /\ Ended(seen, out \o scan.out, rest)
<1>e. <<>> \in Seq(Symbols)
  OBVIOUS
<1>0. PICK bytes \in Seq(Symbols) : bytes = <<>>
  BY <1>e, Zenon
<1> DEFINE text == held \o bytes
           limit == Limit(text, TRUE)
           scan == Scan(text, limit)
           sum  == out \o scan.out
           rest == SubSeq(text, scan.next, Len(text))
           all  == seen \o bytes
<1>1. PICK p : /\ Trace(seen, out, p, 1) /\ Decided(seen, out, p)
               /\ HeldBack(held, seen, p[Len(out) + 1])
  BY DEF Streamed
<1>2. /\ text \in Seq(Symbols) /\ Len(text) \in Nat
      /\ all = seen /\ Len(seen) \in Nat
  BY <1>0
<1>3. limit = Len(text) /\ limit \in 0..Len(text)
  <2> HIDE DEF text
  <2>1. limit = Len(text)
    BY DEF Limit
  <2> HIDE DEF limit
  <2> QED  BY <1>2, <2>1
<1> HIDE DEF limit
<1>s. /\ sum \in Seq(Output) /\ rest \in Seq(Symbols)
      /\ Scanned(seen, all, sum, rest, limit, Len(text) - limit)
  BY <1>1, <1>2, <1>3, ScanJoin, Zenon
<1> HIDE DEF sum, rest, text, all, scan
<1>4. sum \in Seq(Output) /\ rest \in Seq(Symbols) /\ Len(rest) <= Len(text) - limit
  BY <1>s DEF Scanned
<1>5. PICK r : Trace(seen, sum, r, 1) /\ HeldBack(rest, seen, r[Len(sum) + 1])
  BY <1>2, <1>s DEF Scanned
<1>6. rest = <<>> /\ Len(rest) = 0
  <2>1. Len(rest) \in Nat
    BY <1>4
  <2>2. Len(rest) = 0
    BY <2>1, <1>2, <1>3, <1>4
  <2> QED  BY <2>2, <1>4
<1>7. r[Len(sum) + 1] = Len(seen) + 1
  <2>1. 0 = Len(seen) - r[Len(sum) + 1] + 1
    BY <1>5, <1>6 DEF HeldBack
  <2>2. r[Len(sum) + 1] \in Int
    <3>1. r \in [1..(Len(sum) + 1) -> 1..(Len(seen) + 1)]
      BY <1>5 DEF Trace
    <3>2. Len(sum) + 1 \in 1..(Len(sum) + 1)
      BY <1>4
    <3>3. r[Len(sum) + 1] \in 1..(Len(seen) + 1)
      BY <3>1, <3>2, Zenon
    <3> QED  BY <3>3, <1>2
  <2> QED  BY <2>1, <2>2, <1>2
<1>8. Ended(seen, sum, rest)
  BY <1>5, <1>6, <1>7, Zenon DEF Ended
<1> QED  BY <1>0, <1>4, <1>8 DEF sum, rest, text, scan, limit

\* However the output was cut into chunks, what went out is what redacting all of
\* it at once shows.
LEMMA EndedRedacts ==
    ASSUME NEW seen \in Seq(Symbols), NEW out \in Seq(Output), NEW held,
           Ended(seen, out, held)
    PROVE  out = Redacted(seen)
<1>1. PICK p : Trace(seen, out, p, 1) /\ p[Len(out) + 1] = Len(seen) + 1
  BY DEF Ended
<1> DEFINE scan == Scan(seen, Len(seen))
<1>2. Len(seen) \in Nat /\ Len(seen) \in 0..Len(seen)
  OBVIOUS
<1>3. /\ scan.out \in Seq(Output)
      /\ scan.next \in (Len(seen) + 1)..(Len(seen) + 1)
      /\ \E q : /\ Trace(seen, scan.out, q, 1)
                /\ q[Len(scan.out) + 1] = scan.next
                /\ \A i \in 1..Len(scan.out) : q[i] <= Len(seen)
  BY <1>2, ScanTraced
<1> HIDE DEF scan
<1>4. scan.next = Len(seen) + 1
  BY <1>2, <1>3
<1>5. PICK q : Trace(seen, scan.out, q, 1) /\ q[Len(scan.out) + 1] = Len(seen) + 1
  BY <1>3, <1>4
<1>6. out = scan.out
  BY <1>1, <1>3, <1>5, TracesAgree
<1> QED  BY <1>6 DEF Redacted, scan

-----------------------------------------------------------------------------
(* The chunks between the readers and the task.                            *)

\* The output read so far is what was pushed and then the queued chunks, in order.
Queued(seen, all, queue) ==
    /\ \A i \in 1..Len(seen) : seen[i] = all[i]
    /\ \E cuts \in [1..(Len(queue) + 1) -> 0..Len(all)] :
          /\ cuts[1] = Len(seen) /\ cuts[Len(queue) + 1] = Len(all)
          /\ \A k \in 1..Len(queue) :
                /\ cuts[k + 1] = cuts[k] + Len(queue[k])
                /\ \A i \in 1..Len(queue[k]) : queue[k][i] = all[cuts[k] + i]

\* A new channel.
LEMMA NothingQueued == Queued(<<>>, <<>>, <<>>)
<1> DEFINE cuts == [k \in 1..1 |-> 0]
<1>1. /\ cuts \in [1..(Len(<<>>) + 1) -> 0..Len(<<>>)]
      /\ cuts[1] = Len(<<>>) /\ cuts[Len(<<>>) + 1] = Len(<<>>)
  OBVIOUS
<1> HIDE DEF cuts
<1> QED  BY <1>1 DEF Queued

\* With an empty channel, all that was read was pushed.
LEMMA QueueEmpty ==
    ASSUME NEW seen \in Seq(Symbols), NEW all \in Seq(Symbols), Queued(seen, all, <<>>)
    PROVE  seen = all
<1>1. Len(seen) = Len(all) /\ \A i \in 1..Len(seen) : seen[i] = all[i]
  BY DEF Queued
<1> QED  BY <1>1, SeqEqual

\* The task takes the first chunk.
LEMMA QueueTakes ==
    ASSUME NEW seen \in Seq(Symbols), NEW all \in Seq(Symbols), NEW queue \in Seq(Seq(Symbols)),
           queue # <<>>, Queued(seen, all, queue)
    PROVE  Queued(seen \o Head(queue), all, Tail(queue))
<1> DEFINE first == Head(queue)
           rest  == Tail(queue)
           sum   == seen \o first
<1>1. PICK cuts \in [1..(Len(queue) + 1) -> 0..Len(all)] :
         /\ cuts[1] = Len(seen) /\ cuts[Len(queue) + 1] = Len(all)
         /\ \A k \in 1..Len(queue) :
               /\ cuts[k + 1] = cuts[k] + Len(queue[k])
               /\ \A i \in 1..Len(queue[k]) : queue[k][i] = all[cuts[k] + i]
  BY DEF Queued
<1>2. /\ rest \in Seq(Seq(Symbols)) /\ Len(queue) \in Nat /\ Len(queue) >= 1
      /\ Len(rest) = Len(queue) - 1
      /\ \A k \in 1..Len(rest) : rest[k] = queue[k + 1]
      /\ first = queue[1] /\ first \in Seq(Symbols)
  OBVIOUS
<1>3. /\ sum \in Seq(Symbols) /\ Len(sum) = Len(seen) + Len(first)
      /\ \A i \in 1..Len(sum) : sum[i] = IF i <= Len(seen) THEN seen[i] ELSE first[i - Len(seen)]
      /\ Len(seen) \in Nat /\ Len(first) \in Nat
  BY <1>2, Joined, Zenon
<1> HIDE DEF sum, rest, first
<1>4. \A i \in 1..Len(sum) : sum[i] = all[i]
  <2> TAKE i \in 1..Len(sum)
  <2>1. CASE i <= Len(seen)
    <3>1. i \in 1..Len(seen) /\ sum[i] = seen[i]
      BY <2>1, <1>3
    <3> QED  BY <3>1 DEF Queued
  <2>2. CASE ~(i <= Len(seen))
    <3>1. i - Len(seen) \in 1..Len(first) /\ sum[i] = first[i - Len(seen)]
          /\ Len(seen) + (i - Len(seen)) = i
      BY <2>2, <1>3
    <3>2. 1 \in 1..Len(queue)
      BY <1>2
    <3>3. \A j \in 1..Len(first) : first[j] = all[Len(seen) + j]
      BY <3>2, <1>1, <1>2
    <3> QED  BY <3>1, <3>3
  <2> QED  BY <2>1, <2>2
<1> DEFINE later == [k \in 1..(Len(rest) + 1) |-> cuts[k + 1]]
<1>5. \A k \in 1..(Len(rest) + 1) : k + 1 \in 1..(Len(queue) + 1) /\ later[k] = cuts[k + 1]
  BY <1>2
<1>6. later \in [1..(Len(rest) + 1) -> 0..Len(all)]
  BY <1>1, <1>5
<1>7. later[1] = Len(sum) /\ later[Len(rest) + 1] = Len(all)
  <2>1. 1 \in 1..Len(queue) /\ 1 \in 1..(Len(rest) + 1) /\ Len(rest) + 1 \in 1..(Len(rest) + 1)
        /\ (Len(rest) + 1) + 1 = Len(queue) + 1
    BY <1>2
  <2>2. cuts[1 + 1] = Len(seen) + Len(first)
    BY <2>1, <1>1, <1>2
  <2> HIDE DEF later
  <2>3. later[1] = cuts[1 + 1] /\ later[Len(rest) + 1] = cuts[(Len(rest) + 1) + 1]
    BY <2>1, <1>5
  <2> QED  BY <2>1, <2>2, <2>3, <1>1, <1>3
<1>8. \A k \in 1..Len(rest) :
         /\ later[k + 1] = later[k] + Len(rest[k])
         /\ \A i \in 1..Len(rest[k]) : rest[k][i] = all[later[k] + i]
  <2> HIDE DEF later
  <2> TAKE k \in 1..Len(rest)
  <2>1. /\ k \in 1..(Len(rest) + 1) /\ k + 1 \in 1..(Len(rest) + 1) /\ k + 1 \in 1..Len(queue)
    BY <1>2
  <2>2. later[k] = cuts[k + 1] /\ later[k + 1] = cuts[(k + 1) + 1] /\ rest[k] = queue[k + 1]
    BY <2>1, <1>2, <1>5
  <2>3. /\ cuts[(k + 1) + 1] = cuts[k + 1] + Len(queue[k + 1])
        /\ \A i \in 1..Len(queue[k + 1]) : queue[k + 1][i] = all[cuts[k + 1] + i]
    BY <2>1, <1>1
  <2> QED  BY <2>2, <2>3, Zenon
<1> HIDE DEF later
<1>9. Queued(sum, all, rest)
  BY <1>4, <1>6, <1>7, <1>8, Zenon DEF Queued
<1> QED  BY <1>9 DEF sum, rest, first

\* The readers add one.
LEMMA QueueGrows ==
    ASSUME NEW seen \in Seq(Symbols), NEW all \in Seq(Symbols), NEW queue \in Seq(Seq(Symbols)),
           Queued(seen, all, queue), NEW bytes \in Seq(Symbols)
    PROVE  Queued(seen, all \o bytes, Append(queue, bytes))
<1> DEFINE more == all \o bytes
           grown == Append(queue, bytes)
<1>1. PICK cuts \in [1..(Len(queue) + 1) -> 0..Len(all)] :
         /\ cuts[1] = Len(seen) /\ cuts[Len(queue) + 1] = Len(all)
         /\ \A k \in 1..Len(queue) :
               /\ cuts[k + 1] = cuts[k] + Len(queue[k])
               /\ \A i \in 1..Len(queue[k]) : queue[k][i] = all[cuts[k] + i]
  BY DEF Queued
<1>2. /\ grown \in Seq(Seq(Symbols)) /\ Len(grown) = Len(queue) + 1 /\ Len(queue) \in Nat
      /\ \A k \in 1..Len(queue) : grown[k] = queue[k] /\ queue[k] \in Seq(Symbols)
      /\ grown[Len(queue) + 1] = bytes
  OBVIOUS
<1>3. /\ more \in Seq(Symbols) /\ Len(more) = Len(all) + Len(bytes)
      /\ \A i \in 1..Len(more) : more[i] = IF i <= Len(all) THEN all[i] ELSE bytes[i - Len(all)]
      /\ Len(all) \in Nat /\ Len(bytes) \in Nat
  BY Joined, Zenon
<1> HIDE DEF more, grown
<1>4. \A i \in 1..Len(all) : i \in 1..Len(more) /\ more[i] = all[i]
  BY <1>3
<1>5. \A i \in 1..Len(bytes) : more[Len(all) + i] = bytes[i]
  <2> TAKE i \in 1..Len(bytes)
  <2>1. /\ Len(all) + i \in 1..Len(more) /\ ~(Len(all) + i <= Len(all))
        /\ (Len(all) + i) - Len(all) = i
    BY <1>3
  <2>2. more[Len(all) + i] = bytes[(Len(all) + i) - Len(all)]
    BY <2>1, <1>3
  <2> QED  BY <2>1, <2>2
<1>6. \A i \in 1..Len(seen) : seen[i] = more[i]
  <2>1. Len(seen) \in Nat /\ Len(seen) <= Len(all)
    <3>1. 1 \in 1..(Len(queue) + 1)
      BY <1>2
    <3>2. cuts[1] \in 0..Len(all)
      BY <1>1, <3>1
    <3> QED  BY <1>1, <1>3, <3>2
  <2>2. \A i \in 1..Len(seen) : i \in 1..Len(all) /\ seen[i] = all[i]
    BY <2>1, <1>3 DEF Queued
  <2> QED  BY <2>2, <1>4
<1> DEFINE c == [k \in 1..(Len(grown) + 1) |-> IF k <= Len(queue) + 1 THEN cuts[k] ELSE Len(more)]
<1>7. /\ \A k \in 1..(Len(queue) + 1) : c[k] = cuts[k]
      /\ c[(Len(queue) + 1) + 1] = Len(more) /\ c[Len(grown) + 1] = Len(more)
  <2>1. \A k \in 1..(Len(queue) + 1) : k \in 1..(Len(grown) + 1) /\ k <= Len(queue) + 1
    BY <1>2
  <2>2. /\ (Len(queue) + 1) + 1 \in 1..(Len(grown) + 1) /\ ~((Len(queue) + 1) + 1 <= Len(queue) + 1)
        /\ Len(grown) + 1 = (Len(queue) + 1) + 1
    BY <1>2
  <2>3. \A k \in 1..(Len(queue) + 1) : c[k] = cuts[k]
    BY <2>1
  <2>4. c[(Len(queue) + 1) + 1] = Len(more)
    BY <2>2
  <2> HIDE DEF c
  <2> QED  BY <2>2, <2>3, <2>4
<1>8. c \in [1..(Len(grown) + 1) -> 0..Len(more)]
  <2>1. ASSUME NEW k \in 1..(Len(grown) + 1) PROVE c[k] \in 0..Len(more)
    <3>1. CASE k <= Len(queue) + 1
      <4>1. k \in 1..(Len(queue) + 1)
        BY <3>1, <1>2
      <4>2. cuts[k] \in 0..Len(all) /\ c[k] = cuts[k]
        BY <4>1, <1>1, <1>7
      <4> HIDE DEF c
      <4> QED  BY <4>2, <1>3
    <3>2. CASE ~(k <= Len(queue) + 1)
      <4>1. c[k] = Len(more)
        BY <3>2
      <4> HIDE DEF c
      <4> QED  BY <4>1, <1>3
    <3> QED  BY <3>1, <3>2
  <2>2. c = [k \in 1..(Len(grown) + 1) |-> c[k]]
    OBVIOUS
  <2> HIDE DEF c
  <2> QED  BY <2>1, <2>2
<1> HIDE DEF c
<1>9. c[1] = Len(seen)
  <2>1. 1 \in 1..(Len(queue) + 1)
    BY <1>2
  <2> QED  BY <2>1, <1>1, <1>7
<1>10. ASSUME NEW k \in 1..Len(grown)
       PROVE  /\ c[k + 1] = c[k] + Len(grown[k])
              /\ \A i \in 1..Len(grown[k]) : grown[k][i] = more[c[k] + i]
  <2>1. CASE k <= Len(queue)
    <3>1. k \in 1..Len(queue) /\ k \in 1..(Len(queue) + 1) /\ k + 1 \in 1..(Len(queue) + 1)
      BY <2>1, <1>2
    <3>2. c[k] = cuts[k] /\ c[k + 1] = cuts[k + 1] /\ grown[k] = queue[k]
      BY <3>1, <1>2, <1>7
    <3>3. /\ cuts[k] \in Nat /\ cuts[k + 1] <= Len(all) /\ Len(queue[k]) \in Nat
          /\ cuts[k + 1] = cuts[k] + Len(queue[k])
      <4>1. cuts[k] \in 0..Len(all) /\ cuts[k + 1] \in 0..Len(all)
        BY <1>1, <3>1
      <4>2. Len(queue[k]) \in Nat
        BY <1>2, <3>1
      <4>3. cuts[k + 1] = cuts[k] + Len(queue[k])
        BY <1>1, <3>1
      <4> QED  BY <4>1, <4>2, <4>3, <1>3
    <3>4. \A i \in 1..Len(queue[k]) : queue[k][i] = more[cuts[k] + i]
      <4> TAKE i \in 1..Len(queue[k])
      <4>1. queue[k][i] = all[cuts[k] + i]
        BY <1>1, <3>1
      <4>2. cuts[k] + i \in 1..Len(all)
        <5> DEFINE a == cuts[k]
                   l == Len(queue[k])
        <5>1. a \in Nat /\ l \in Nat /\ i \in 1..l /\ a + l <= Len(all) /\ Len(all) \in Nat
          BY <3>3, <1>3
        <5> HIDE DEF a, l
        <5>2. a + i \in 1..Len(all)
          BY <5>1
        <5> QED  BY <5>2 DEF a
      <4> QED  BY <4>1, <4>2, <1>4
    <3> QED  BY <3>2, <3>3, <3>4, Zenon
  <2>2. CASE ~(k <= Len(queue))
    <3>1. k = Len(queue) + 1 /\ Len(queue) + 1 \in 1..(Len(queue) + 1)
      BY <2>2, <1>2
    <3>2. c[k] = Len(all) /\ c[k + 1] = Len(more) /\ grown[k] = bytes
      BY <3>1, <1>1, <1>2, <1>7
    <3> QED  BY <3>2, <1>3, <1>5
  <2> QED  BY <2>1, <2>2
<1>11. Queued(seen, more, grown)
  BY <1>6, <1>7, <1>8, <1>9, <1>10, Zenon DEF Queued
<1> QED  BY <1>11 DEF more, grown

-----------------------------------------------------------------------------
(* The invariant.                                                          *)

Types ==
    /\ task \in {"spawning", "delivering", "streaming", "waiting", "done"}
    /\ process \in {"none", "running", "exited", "killed"}
    /\ outputOpen \in BOOLEAN /\ canceled \in BOOLEAN
    /\ verdict \in {"none", "completed", "failed"}
    /\ input \in Seq(Symbols) /\ emitted \in Seq(Output) /\ pending \in Seq(Symbols)
    /\ channel \in Seq(Seq(Symbols)) /\ Len(channel) <= QueueSize

\* How far the task, its child and the verdict are.
Phases ==
    /\ process = "none" => task \in {"spawning", "done"}
    /\ task = "spawning" => process = "none"
    /\ process = "killed" => task = "done"
    /\ task = "done" => process # "running"
    /\ verdict # "none" => task = "done"
    /\ verdict = "completed" => process = "exited"

Over == task = "waiting" \/ verdict = "completed"

\* What went out, what is held back and what is queued make up what was read.
Flow ==
    /\ Over => ~outputOpen /\ Ended(input, emitted, pending)
    /\ ~Over => \E seen \in Seq(Symbols) : /\ Queued(seen, input, channel)
                                           /\ Streamed(seen, emitted, pending)

Inv == Types /\ Phases /\ Flow

\* The invariant holds before the task starts.
LEMMA InitInv == Init => Inv
<1> SUFFICES ASSUME Init PROVE Inv
  OBVIOUS
<1>1. Types
  <2>1. /\ <<>> \in Seq(Symbols) /\ <<>> \in Seq(Output) /\ <<>> \in Seq(Seq(Symbols))
        /\ Len(<<>>) <= QueueSize
    BY SizesAssumption
  <2> QED  BY <2>1 DEF Init, Types
<1>2. Phases /\ ~Over
  BY DEF Init, Phases, Over
<1>3. <<>> \in Seq(Symbols)
  OBVIOUS
<1>4. Flow
  BY <1>2, <1>3, NothingQueued, NothingStreamed, Zenon DEF Init, Flow
<1> QED  BY <1>1, <1>2, <1>4 DEF Inv

\* A step that leaves the output alone keeps the flow.
LEMMA FlowKept ==
    ASSUME Flow, UNCHANGED <<input, channel, pending, emitted>>, ~Over, ~Over'
    PROVE  Flow'
  BY Zenon DEF Flow

\* A chunk of the channel that is pushed keeps it.
LEMMA ForwardKeeps ==
    ASSUME Inv, Forward
    PROVE  Inv'
<1> DEFINE first == Head(channel)
           text == pending \o first
           scan == Scan(text, Limit(text, FALSE))
           rest == SubSeq(text, scan.next, Len(text))
<1>1. /\ task = "streaming" /\ channel # <<>> /\ channel' = Tail(channel)
      /\ emitted' = emitted \o scan.out /\ pending' = rest
      /\ UNCHANGED <<task, process, outputOpen, input, canceled, verdict>>
  BY DEF Forward, Push
<1>2. /\ channel \in Seq(Seq(Symbols)) /\ Len(channel) <= QueueSize
      /\ input \in Seq(Symbols) /\ emitted \in Seq(Output) /\ pending \in Seq(Symbols)
  BY DEF Inv, Types
<1>3. /\ first \in Seq(Symbols) /\ Tail(channel) \in Seq(Seq(Symbols))
      /\ Len(Tail(channel)) = Len(channel) - 1 /\ Len(channel) \in Nat
  BY <1>1, <1>2
<1>4. Phases /\ ~Over
  BY <1>1 DEF Inv, Phases, Over
<1>5. PICK seen \in Seq(Symbols) : Queued(seen, input, channel) /\ Streamed(seen, emitted, pending)
  BY <1>4 DEF Inv, Flow
<1>6. Queued(seen \o first, input, Tail(channel))
  BY <1>1, <1>2, <1>5, QueueTakes, Zenon
<1> HIDE DEF first
<1>7. /\ emitted \o scan.out \in Seq(Output) /\ rest \in Seq(Symbols)
      /\ Streamed(seen \o first, emitted \o scan.out, rest)
  BY <1>2, <1>3, <1>5, PushStreams, Zenon
<1>8. seen \o first \in Seq(Symbols)
  BY <1>3
<1> HIDE DEF scan, rest, text
<1>9. Types'
  <2>1. Len(Tail(channel)) <= QueueSize
    BY <1>2, <1>3, SizesAssumption
  <2> QED  BY <2>1, <1>1, <1>3, <1>7, Zenon DEF Inv, Types
<1>10. Phases' /\ ~Over'
  BY <1>1, <1>4 DEF Phases, Over
<1>11. Flow'
  BY <1>1, <1>6, <1>7, <1>8, <1>10, Zenon DEF Flow
<1> QED  BY <1>9, <1>10, <1>11 DEF Inv

\* So does the last push: nothing is queued any more, and nothing is held back after.
LEMMA OutputEndsKeeps ==
    ASSUME Inv, OutputEnds
    PROVE  Inv'
<1> DEFINE text == pending \o <<>>
           scan == Scan(text, Limit(text, TRUE))
           rest == SubSeq(text, scan.next, Len(text))
<1>1. /\ task = "streaming" /\ ~outputOpen /\ channel = <<>> /\ task' = "waiting"
      /\ emitted' = emitted \o scan.out /\ pending' = rest
      /\ UNCHANGED <<process, outputOpen, input, channel, canceled, verdict>>
  BY DEF OutputEnds, Push
<1>2. /\ channel \in Seq(Seq(Symbols)) /\ Len(channel) <= QueueSize
      /\ input \in Seq(Symbols) /\ emitted \in Seq(Output) /\ pending \in Seq(Symbols)
  BY DEF Inv, Types
<1>4. Phases /\ ~Over
  BY <1>1 DEF Inv, Phases, Over
<1>5. PICK seen \in Seq(Symbols) : Queued(seen, input, channel) /\ Streamed(seen, emitted, pending)
  BY <1>4 DEF Inv, Flow
<1>6. seen = input
  BY <1>1, <1>2, <1>5, QueueEmpty
<1>7. /\ emitted \o scan.out \in Seq(Output)
      /\ Ended(seen, emitted \o scan.out, rest)
  BY <1>2, <1>5, PushEnds, Zenon
<1> HIDE DEF scan, rest, text
<1>8. rest \in Seq(Symbols)
  <2>1. rest = <<>>
    BY <1>7 DEF Ended
  <2> QED  BY <2>1
<1>9. Types'
  BY <1>1, <1>2, <1>7, <1>8, Zenon DEF Inv, Types
<1>10. Phases' /\ Over'
  BY <1>1, <1>4 DEF Phases, Over
<1>11. Flow'
  BY <1>1, <1>6, <1>7, <1>10, Zenon DEF Flow
<1> QED  BY <1>9, <1>10, <1>11 DEF Inv

\* So does a read of the pipes.
LEMMA WriteKeeps ==
    ASSUME Inv, Write
    PROVE  Inv'
<1>1. /\ outputOpen /\ task = "streaming" /\ Len(channel) < QueueSize
      /\ UNCHANGED <<task, process, outputOpen, canceled, verdict, pending, emitted>>
  BY DEF Write, redactor
<1>2. PICK n \in 1..MaxChunk : \E bytes \in [1..n -> Symbols] :
         input' = input \o bytes /\ channel' = Append(channel, bytes)
  BY DEF Write
<1>3. PICK bytes \in [1..n -> Symbols] :
         input' = input \o bytes /\ channel' = Append(channel, bytes)
  BY <1>2
<1>4. bytes \in Seq(Symbols)
  <2>1. n \in Nat
    BY SizesAssumption
  <2> QED  BY <2>1
<1>5. /\ channel \in Seq(Seq(Symbols)) /\ Len(channel) <= QueueSize
      /\ input \in Seq(Symbols) /\ emitted \in Seq(Output) /\ pending \in Seq(Symbols)
  BY DEF Inv, Types
<1>6. Phases /\ ~Over
  BY <1>1 DEF Inv, Phases, Over
<1>7. PICK seen \in Seq(Symbols) : Queued(seen, input, channel) /\ Streamed(seen, emitted, pending)
  BY <1>6 DEF Inv, Flow
<1>8. Queued(seen, input', channel')
  BY <1>3, <1>4, <1>5, <1>7, QueueGrows
<1>9. Types'
  <2>1. input' \in Seq(Symbols) /\ channel' \in Seq(Seq(Symbols))
    BY <1>3, <1>4, <1>5
  <2>2. Len(channel') <= QueueSize
    <3>1. Len(channel') = Len(channel) + 1 /\ Len(channel) \in Nat
      BY <1>3, <1>5
    <3> QED  BY <3>1, <1>1, SizesAssumption
  <2> QED  BY <2>1, <2>2, <1>1, <1>5, Zenon DEF Inv, Types
<1>10. Phases' /\ ~Over'
  BY <1>1, <1>6 DEF Phases, Over
<1>11. Flow'
  BY <1>1, <1>7, <1>8, <1>10, Zenon DEF Flow
<1> QED  BY <1>9, <1>10, <1>11 DEF Inv

\* The other steps move the task, the child and the pipes alone.
Others == \/ Spawn \/ SpawnFails \/ Delivered \/ DeliveryFails \/ Reap
          \/ KillOnCancel \/ CloseOutput \/ Exit \/ Cancel \/ Done

\* So do the steps that leave the output alone.
LEMMA OthersKeep ==
    ASSUME Inv, Others
    PROVE  Inv'
<1>1. UNCHANGED <<input, channel, pending, emitted>>
  BY DEF Others, Spawn, SpawnFails, Delivered, DeliveryFails, Reap, KillOnCancel,
         CloseOutput, Exit, Cancel, Done, vars, redactor
<1>2. /\ task \in {"spawning", "delivering", "streaming", "waiting", "done"}
      /\ process \in {"none", "running", "exited", "killed"}
      /\ outputOpen \in BOOLEAN /\ canceled \in BOOLEAN
      /\ verdict \in {"none", "completed", "failed"} /\ Phases
  BY DEF Inv, Types
<1>3. /\ task' \in {"spawning", "delivering", "streaming", "waiting", "done"}
      /\ process' \in {"none", "running", "exited", "killed"}
      /\ outputOpen' \in BOOLEAN /\ canceled' \in BOOLEAN
      /\ verdict' \in {"none", "completed", "failed"}
  BY <1>2 DEF Others, Spawn, SpawnFails, Delivered, DeliveryFails, Reap, KillOnCancel,
         CloseOutput, Exit, Cancel, Done, vars
<1>4. Types'
  BY <1>1, <1>3, Zenon DEF Inv, Types
<1>5. Phases' /\ (Over <=> Over') /\ (Over => (outputOpen' => outputOpen))
  <2>1. CASE Spawn
    BY <2>1, <1>2 DEF Spawn, Phases, Over
  <2>2. CASE SpawnFails
    BY <2>2, <1>2 DEF SpawnFails, Phases, Over
  <2>3. CASE Delivered
    BY <2>3, <1>2 DEF Delivered, Phases, Over
  <2>4. CASE DeliveryFails
    BY <2>4, <1>2 DEF DeliveryFails, Phases, Over
  <2>5. CASE Reap
    BY <2>5, <1>2 DEF Reap, Phases, Over
  <2>6. CASE KillOnCancel
    BY <2>6, <1>2 DEF KillOnCancel, Phases, Over
  <2>7. CASE CloseOutput
    BY <2>7, <1>2 DEF CloseOutput, Phases, Over
  <2>8. CASE Exit
    <3>1. outputOpen' => outputOpen
      BY <2>8, Zenon DEF Exit
    <3>2. /\ process = "running" /\ process' = "exited"
          /\ task' = task /\ verdict' = verdict
      BY <2>8 DEF Exit
    <3>3. Phases' /\ (Over <=> Over')
      BY <3>2, <1>2 DEF Phases, Over
    <3> QED  BY <3>1, <3>3, Zenon
  <2>9. CASE Cancel
    BY <2>9, <1>2 DEF Cancel, Phases, Over
  <2>10. CASE Done
    BY <2>10, <1>2 DEF Done, vars, Phases, Over
  <2> QED  BY <2>1, <2>2, <2>3, <2>4, <2>5, <2>6, <2>7, <2>8, <2>9, <2>10, Zenon DEF Others
<1>7. Flow'
  <2>1. CASE Over
    BY <2>1, <1>1, <1>5, Zenon DEF Inv, Flow
  <2>2. CASE ~Over
    BY <2>2, <1>1, <1>5, FlowKept, Zenon DEF Inv
  <2> QED  BY <2>1, <2>2
<1> QED  BY <1>4, <1>5, <1>7 DEF Inv

\* So does every step of the task, of the command and of whoever cancels it.
LEMMA NextKeeps == Inv /\ [Next]_vars => Inv'
<1> SUFFICES ASSUME Inv, [Next]_vars PROVE Inv'
  OBVIOUS
<1>1. CASE Forward
  BY <1>1, ForwardKeeps
<1>2. CASE OutputEnds
  BY <1>2, OutputEndsKeeps
<1>3. CASE Write
  BY <1>3, WriteKeeps
<1>4. CASE Others
  BY <1>4, OthersKeep
<1>5. CASE UNCHANGED vars
  BY <1>5, Zenon DEF vars, Inv, Types, Phases, Flow, Over
<1> QED  BY <1>1, <1>2, <1>3, <1>4, <1>5, Zenon DEF Next, TaskStep, CommandStep, Others

\* Whatever the command writes, however its reads cut it and whenever it is
\* canceled, what was sent, what the redactor holds back and what is queued make up
\* what was read (run_secret_command, OutputRedactor::push).
THEOREM Invariance == Spec => []Inv
  BY InitInv, NextKeeps, PTL DEF Spec

\* The state keeps its types, and the channel its capacity.
THEOREM TypeCorrect == Spec => []TypeOK
<1>1. Inv => TypeOK
  BY DEF Inv, Types, TypeOK
<1> QED  BY <1>1, Invariance, PTL

\* No form of the secret is ever sent; less than one pattern is held back; Completed
\* comes after the exit and after all of the output, redacted as if it had come at
\* once; and the task outlives its child (OutputRedactor::push, stream_child).
THEOREM OutputHolds == Spec => []OutputSound
<1>1. Inv => OutputSound
  <2> SUFFICES ASSUME Inv PROVE OutputSound
    OBVIOUS
  <2>1. NoChildOutlivesTask
    BY DEF Inv, Phases, NoChildOutlivesTask
  <2>2. CompletedAfterAllOutput
    <3> SUFFICES ASSUME verdict = "completed"
                 PROVE  process = "exited" /\ ~outputOpen /\ emitted = Redacted(input)
      BY DEF CompletedAfterAllOutput
    <3>1. process = "exited" /\ Over
      BY DEF Inv, Phases, Over
    <3>2. ~outputOpen /\ Ended(input, emitted, pending)
      BY <3>1 DEF Inv, Flow
    <3>3. input \in Seq(Symbols) /\ emitted \in Seq(Output)
      BY DEF Inv, Types
    <3>4. emitted = Redacted(input)
      BY <3>2, <3>3, EndedRedacts, Zenon
    <3> QED  BY <3>1, <3>2, <3>4
  <2>3. /\ Len(pending) < Longest
        /\ \E seen \in Seq(Symbols) : \E p : Trace(seen, emitted, p, 1)
    <3>1. CASE Over
      <4>1. Ended(input, emitted, pending) /\ input \in Seq(Symbols)
        BY <3>1 DEF Inv, Flow, Types
      <4>2. Len(pending) = 0
        BY <4>1 DEF Ended
      <4> QED  BY <4>1, <4>2, LongestType DEF Ended
    <3>2. CASE ~Over
      <4>1. PICK seen \in Seq(Symbols) : Streamed(seen, emitted, pending)
        BY <3>2 DEF Inv, Flow
      <4> QED  BY <4>1 DEF Streamed
    <3> QED  BY <3>1, <3>2
  <2>4. NothingLeaks
    <3> SUFFICES ASSUME NEW pattern \in Patterns PROVE ~Shows(emitted, pattern)
      BY DEF NothingLeaks
    <3>0. PICK seen \in Seq(Symbols) : \E p : Trace(seen, emitted, p, 1)
      BY <2>3
    <3>1. PICK p : Trace(seen, emitted, p, 1)
      BY <3>0
    <3>2. emitted \in Seq(Output)
      BY DEF Inv, Types
    <3> QED  BY <3>1, <3>2, TraceShowsNothing, Zenon
  <2> QED  BY <2>1, <2>2, <2>3, <2>4
           DEF OutputSound, TaskEndsLast, Redacts, HeldBackBounded
<1> QED  BY <1>1, Invariance, PTL
=============================================================================
