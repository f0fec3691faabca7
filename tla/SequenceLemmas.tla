--------------------------- MODULE SequenceLemmas --------------------------
(***************************************************************************)
(* What the operators of SequencesExt that the specifications are built    *)
(* from do to a sequence: erasing an entry of a vector (RemoveAt), the     *)
(* position a search returns (Min of the positions that match), prefixes   *)
(* and appended entries, what a loop computes step by step, and joining    *)
(* many sequences into one (FlattenSeq).                                   *)
(***************************************************************************)
EXTENDS Integers, SequencesExt, SequenceTheorems, WellFoundedInduction, TLAPS

-----------------------------------------------------------------------------
\* A set of natural numbers that is not empty has a least member, so the Min
\* of FiniteSetsExt is a member, and no member is below it.
LEMMA MinOfNaturals ==
  ASSUME NEW S \in SUBSET Nat, S # {}
  PROVE  /\ Min(S) \in S
         /\ \A j \in S : Min(S) <= j
<1>. DEFINE Less == OpToRel(<, Nat)
<1>1. \E i \in S : \A j \in S : <<j, i>> \notin Less
  <2>1. IsWellFoundedOn(Less, Nat)
    BY NatLessThanWellFounded
  <2>. QED
    BY <2>1, WFMin
<1>2. \A i, j \in S : <<j, i>> \notin Less => i <= j
  BY DEF OpToRel
<1>. QED
  BY <1>1, <1>2 DEF Min

\* Induction over a set in place of a formula: what holds 0 and the successor of
\* each number it holds is all of Nat.
LEMMA Everything ==
  ASSUME NEW G, 0 \in G, \A n \in Nat : n \in G => n + 1 \in G
  PROVE  Nat \subseteq G
<1>. DEFINE B == {n \in Nat : n \notin G}
<1>. SUFFICES ASSUME B # {} PROVE FALSE
  OBVIOUS
<1>1. PICK k \in B : \A j \in B : k <= j
  <2>1. B \in SUBSET Nat
    OBVIOUS
  <2>. HIDE DEF B
  <2>. QED
    BY <2>1, MinOfNaturals
<1>2. k \in Nat /\ k \notin G /\ k # 0
  OBVIOUS
<1>3. k - 1 \in Nat /\ (k - 1) + 1 = k /\ ~(k <= k - 1)
  BY <1>2
<1>4. k - 1 \notin B
  BY <1>1, <1>3
<1>. QED
  BY <1>2, <1>3, <1>4

\* What erase(iterator) leaves: the entries in front keep their positions and
\* those behind move one position to the front.
LEMMA RemoveAtProperties ==
  ASSUME NEW S, NEW s \in Seq(S), NEW i \in 1 .. Len(s)
  PROVE  /\ RemoveAt(s, i) \in Seq(S)
         /\ Len(RemoveAt(s, i)) = Len(s) - 1
         /\ \A j \in 1 .. Len(s) - 1 :
              RemoveAt(s, i)[j] = IF j < i THEN s[j] ELSE s[j + 1]
<1>. DEFINE before == SubSeq(s, 1, i - 1)
            behind == SubSeq(s, i + 1, Len(s))
<1>0. Len(s) \in Nat /\ i \in Nat
  BY LenProperties
<1>1. \A j \in 1 .. Len(s) : s[j] \in S
  BY ElementOfSeq
<1>2. /\ before \in Seq(S) /\ Len(before) = i - 1
      /\ \A j \in 1 .. i - 1 : before[j] = s[j]
  <2>1. \A j \in 1 .. i - 1 : s[j] \in S
    BY <1>0, <1>1
  <2>. QED
    BY <2>1, <1>0, SubSeqProperties
<1>3. /\ behind \in Seq(S) /\ Len(behind) = Len(s) - i
      /\ \A j \in 1 .. Len(s) - i : behind[j] = s[i + j]
  <2>1. \A j \in i + 1 .. Len(s) : s[j] \in S
    BY <1>0, <1>1
  <2>2. /\ behind \in Seq(S)
        /\ Len(behind) = IF i + 1 <= Len(s) THEN Len(s) - (i + 1) + 1 ELSE 0
        /\ \A j \in 1 .. Len(s) - (i + 1) + 1 : behind[j] = s[(i + 1) + j - 1]
    BY <2>1, <1>0, SubSeqProperties
  <2>. HIDE DEF behind
  <2>3. (IF i + 1 <= Len(s) THEN Len(s) - (i + 1) + 1 ELSE 0) = Len(s) - i
    BY <1>0
  <2>4. ASSUME NEW j \in 1 .. Len(s) - i
        PROVE  behind[j] = s[i + j]
    <3>1. j \in 1 .. Len(s) - (i + 1) + 1 /\ (i + 1) + j - 1 = i + j
      BY <1>0
    <3>2. behind[j] = s[(i + 1) + j - 1]
      BY <2>2, <3>1
    <3>. QED
      BY <3>1, <3>2
  <2>. QED
    BY <2>2, <2>3, <2>4
<1>4. RemoveAt(s, i) = before \o behind
  BY DEF RemoveAt
<1>. HIDE DEF before, behind
<1>5. /\ before \o behind \in Seq(S)
      /\ Len(before \o behind) = Len(before) + Len(behind)
      /\ \A j \in 1 .. Len(before) + Len(behind) : (before \o behind)[j] =
           IF j <= Len(before) THEN before[j] ELSE behind[j - Len(before)]
  BY <1>2, <1>3, ConcatProperties
<1>6. Len(before) + Len(behind) = Len(s) - 1
  BY <1>0, <1>2, <1>3
<1>7. ASSUME NEW j \in 1 .. Len(s) - 1
      PROVE  RemoveAt(s, i)[j] = IF j < i THEN s[j] ELSE s[j + 1]
  <2>1. CASE j < i
    <3>1. j <= Len(before) /\ j \in 1 .. i - 1
      BY <1>0, <1>2, <2>1
    <3>. QED
      BY <1>2, <1>4, <1>5, <1>6, <2>1, <3>1
  <2>2. CASE ~(j < i)
    <3>1. /\ ~(j <= Len(before)) /\ j - Len(before) \in 1 .. Len(s) - i
          /\ i + (j - Len(before)) = j + 1
      BY <1>0, <1>2, <2>2
    <3>2. behind[j - Len(before)] = s[j + 1]
      BY <1>3, <3>1
    <3>3. (before \o behind)[j] = behind[j - Len(before)]
      BY <1>5, <1>6, <3>1
    <3>. QED
      BY <1>4, <2>2, <3>2, <3>3
  <2>. QED
    BY <2>1, <2>2
<1>. QED
  BY <1>4, <1>5, <1>6, <1>7

\* The same as sets of entries: nothing new comes in, and only the erased
\* position is lost.
LEMMA RemoveAtKeepsOthers ==
  ASSUME NEW S, NEW s \in Seq(S), NEW i \in 1 .. Len(s)
  PROVE  /\ ToSet(RemoveAt(s, i)) \subseteq ToSet(s)
         /\ \A j \in 1 .. Len(s) : j # i => s[j] \in ToSet(RemoveAt(s, i))
         /\ \A x \in ToSet(s) : x # s[i] => x \in ToSet(RemoveAt(s, i))
<1>. DEFINE r == RemoveAt(s, i)
<1>0. /\ Len(s) \in Nat /\ DOMAIN s = 1 .. Len(s)
      /\ r \in Seq(S) /\ DOMAIN r = 1 .. Len(s) - 1
      /\ \A j \in 1 .. Len(s) - 1 : r[j] = IF j < i THEN s[j] ELSE s[j + 1]
  BY RemoveAtProperties, LenProperties
<1>. HIDE DEF r
<1>1. \A j \in 1 .. Len(s) - 1 : \E k \in 1 .. Len(s) : r[j] = s[k]
  <2>. TAKE j \in 1 .. Len(s) - 1
  <2>1. CASE j < i
    BY <1>0, <2>1
  <2>2. CASE ~(j < i)
    BY <1>0, <2>2
  <2>. QED
    BY <2>1, <2>2
<1>2. \A j \in 1 .. Len(s) : j # i => \E k \in 1 .. Len(s) - 1 : r[k] = s[j]
  <2>. SUFFICES ASSUME NEW j \in 1 .. Len(s), j # i
                PROVE  \E k \in 1 .. Len(s) - 1 : r[k] = s[j]
    OBVIOUS
  <2>1. CASE j < i
    BY <1>0, <2>1
  <2>2. CASE i < j
    <3>1. j - 1 \in 1 .. Len(s) - 1 /\ ~(j - 1 < i) /\ (j - 1) + 1 = j
      BY <1>0, <2>2
    <3>. QED
      BY <1>0, <3>1
  <2>. QED
    BY <1>0, <2>1, <2>2
<1>3. ToSet(r) = {r[k] : k \in 1 .. Len(s) - 1} /\ ToSet(s) = {s[k] : k \in 1 .. Len(s)}
  BY <1>0 DEF ToSet
<1>. QED
  BY <1>1, <1>2, <1>3 DEF r

\* A queue as a set: what Append puts in, and what Head and Tail take out.
LEMMA AppendToSet ==
  ASSUME NEW S, NEW s \in Seq(S), NEW x \in S
  PROVE  ToSet(Append(s, x)) = ToSet(s) \cup {x}
<1>1. /\ Append(s, x) \in Seq(S) /\ Len(Append(s, x)) = Len(s) + 1
      /\ \A j \in 1 .. Len(s) : Append(s, x)[j] = s[j]
      /\ Append(s, x)[Len(s) + 1] = x
      /\ Len(s) \in Nat
  BY AppendProperties, LenProperties
<1>2. /\ ToSet(s) = {s[j] : j \in 1 .. Len(s)}
      /\ ToSet(Append(s, x)) = {Append(s, x)[j] : j \in 1 .. Len(s) + 1}
  BY <1>1, LenProperties DEF ToSet
<1>3. 1 .. Len(s) + 1 = (1 .. Len(s)) \cup {Len(s) + 1}
  BY <1>1
<1>. QED
  BY <1>1, <1>2, <1>3

LEMMA HeadTailToSet ==
  ASSUME NEW S, NEW s \in Seq(S), s # <<>>
  PROVE  /\ Head(s) = s[1] /\ Len(s) \in Nat /\ Len(s) >= 1
         /\ ToSet(s) = {Head(s)} \cup ToSet(Tail(s))
<1>1. /\ Tail(s) \in Seq(S) /\ Len(Tail(s)) = Len(s) - 1
      /\ \A j \in 1 .. Len(Tail(s)) : Tail(s)[j] = s[j + 1]
      /\ Len(s) \in Nat /\ Len(s) >= 1
  BY HeadTailProperties, EmptySeq
<1>2. Head(s) = s[1]
  OBVIOUS
<1>3. /\ ToSet(s) = {s[j] : j \in 1 .. Len(s)}
      /\ ToSet(Tail(s)) = {s[j + 1] : j \in 1 .. Len(s) - 1}
  BY <1>1, LenProperties DEF ToSet
<1>4. \A j \in 1 .. Len(s) : j = 1 \/ (j - 1 \in 1 .. Len(s) - 1 /\ (j - 1) + 1 = j)
  BY <1>1
<1>5. \A j \in 1 .. Len(s) - 1 : j + 1 \in 1 .. Len(s)
  BY <1>1
<1>6. 1 \in 1 .. Len(s)
  BY <1>1
<1>7. ASSUME NEW x \in ToSet(s) PROVE x = s[1] \/ x \in ToSet(Tail(s))
  BY <1>3, <1>4
<1>8. ASSUME NEW x \in ToSet(Tail(s)) PROVE x \in ToSet(s)
  BY <1>3, <1>5
<1>9. s[1] \in ToSet(s)
  BY <1>3, <1>6
<1>. QED
  BY <1>1, <1>2, <1>7, <1>8, <1>9

\* The first k entries of a sequence, by SubSeq, which is what Front takes.
LEMMA PrefixProperties ==
  ASSUME NEW S, NEW s \in Seq(S), NEW k \in 0 .. Len(s)
  PROVE  /\ SubSeq(s, 1, k) \in Seq(S)
         /\ Len(SubSeq(s, 1, k)) = k
         /\ \A i \in 1 .. k : SubSeq(s, 1, k)[i] = s[i]
<1>0. Len(s) \in Nat /\ k \in Nat
  BY LenProperties
<1>1. \A i \in 1 .. k : s[i] \in S
  BY <1>0, ElementOfSeq
<1>2. /\ SubSeq(s, 1, k) \in Seq(S)
      /\ Len(SubSeq(s, 1, k)) = IF 1 <= k THEN k - 1 + 1 ELSE 0
      /\ \A i \in 1 .. k - 1 + 1 : SubSeq(s, 1, k)[i] = s[1 + i - 1]
  BY <1>0, <1>1, SubSeqProperties
<1>3. (IF 1 <= k THEN k - 1 + 1 ELSE 0) = k /\ k - 1 + 1 = k
  BY <1>0
<1>4. \A i \in 1 .. k : SubSeq(s, 1, k)[i] = s[i]
  <2>. TAKE i \in 1 .. k
  <2>1. i \in 1 .. k - 1 + 1 /\ 1 + i - 1 = i
    BY <1>0
  <2>. QED
    BY <1>2, <2>1
<1>. QED
  BY <1>2, <1>3, <1>4

\* A prefix that ends in the second of two sequences takes a prefix of it.
LEMMA PrefixOfConcat ==
  ASSUME NEW S, NEW s \in Seq(S), NEW t \in Seq(S), NEW k \in 0 .. Len(t)
  PROVE  SubSeq(s \o t, 1, Len(s) + k) = s \o SubSeq(t, 1, k)
<1>. DEFINE u == s \o t
            a == SubSeq(u, 1, Len(s) + k)
            p == SubSeq(t, 1, k)
            b == s \o p
<1>0. Len(s) \in Nat /\ Len(t) \in Nat /\ k \in Nat /\ k <= Len(t)
  BY LenProperties
<1>1. /\ u \in Seq(S) /\ Len(u) = Len(s) + Len(t)
      /\ \A i \in 1 .. Len(s) + Len(t) : u[i] = IF i <= Len(s) THEN s[i] ELSE t[i - Len(s)]
  BY ConcatProperties
<1>2. p \in Seq(S) /\ Len(p) = k /\ \A i \in 1 .. k : p[i] = t[i]
  BY PrefixProperties
<1>. HIDE DEF u, p
<1>3. Len(s) + k \in 0 .. Len(u)
  BY <1>0, <1>1
<1>4. a \in Seq(S) /\ Len(a) = Len(s) + k /\ \A i \in 1 .. Len(s) + k : a[i] = u[i]
  BY <1>1, <1>3, PrefixProperties
<1>5. /\ b \in Seq(S) /\ Len(b) = Len(s) + Len(p)
      /\ \A i \in 1 .. Len(s) + Len(p) : b[i] = IF i <= Len(s) THEN s[i] ELSE p[i - Len(s)]
  BY <1>2, ConcatProperties
<1>. HIDE DEF a, b
<1>6. ASSUME NEW i \in 1 .. Len(s) + k
      PROVE  a[i] = b[i]
  <2>1. i \in 1 .. Len(s) + Len(t) /\ i \in 1 .. Len(s) + Len(p)
    BY <1>0, <1>2
  <2>2. CASE i <= Len(s)
    BY <1>1, <1>4, <1>5, <2>1, <2>2
  <2>3. CASE ~(i <= Len(s))
    <3>1. i - Len(s) \in 1 .. k
      BY <1>0, <2>3
    <3>. QED
      BY <1>1, <1>2, <1>4, <1>5, <2>1, <2>3, <3>1
  <2>. QED
    BY <2>2, <2>3
<1>7. a = b
  BY <1>2, <1>4, <1>5, <1>6, SeqEqual
<1>. QED
  BY <1>7 DEF a, b, p, u

-----------------------------------------------------------------------------
\* What holds of 1 and of the successor of each number it holds of, holds up
\* to the end.
LEMMA UpTo ==
  ASSUME NEW n \in Nat, NEW G,
         n >= 1 => 1 \in G,
         \A i \in 1 .. n : i # n /\ i \in G => i + 1 \in G
  PROVE  1 .. n \subseteq G
<1>. DEFINE B == {i \in 1 .. n : i \notin G}
<1>. SUFFICES ASSUME B # {} PROVE FALSE
  OBVIOUS
<1>1. PICK k \in B : \A j \in B : k <= j
  <2>1. B \in SUBSET Nat
    OBVIOUS
  <2>. HIDE DEF B
  <2>. QED
    BY <2>1, MinOfNaturals
<1>2. k \in 1 .. n /\ k \notin G /\ k # 1
  OBVIOUS
<1>3. k - 1 \in 1 .. n /\ k - 1 # n /\ (k - 1) + 1 = k /\ ~(k <= k - 1)
  BY <1>2
<1>4. k - 1 \notin B
  BY <1>1, <1>3
<1>. QED
  BY <1>2, <1>3, <1>4

\* f has the state behind each of the n steps of a loop that starts with "start"
\* and whose body is the function "step".
Loops(f, S, n, start, step) ==
  /\ f \in [0 .. n -> S]
  /\ f[0] = start
  /\ \A i \in 1 .. n : f[i] = step[<<f[i - 1], i>>]

LEMMA LoopRuns ==
  ASSUME NEW S, NEW n \in Nat, NEW start \in S, NEW step \in [S \X (1 .. n) -> S]
  PROVE  \E f : Loops(f, S, n, start, step)
<1>. DEFINE G == {m \in Nat : m <= n =>
                    \E f \in [0 .. m -> S] :
                      /\ f[0] = start
                      /\ \A i \in 1 .. m : f[i] = step[<<f[i - 1], i>>]}
<1>1. 0 \in G
  <2>. DEFINE f == [i \in 0 .. 0 |-> start]
  <2>1. f \in [0 .. 0 -> S] /\ f[0] = start /\ 1 .. 0 = {}
    OBVIOUS
  <2>. QED
    BY <2>1
<1>2. ASSUME NEW m \in Nat, m \in G
      PROVE  m + 1 \in G
  <2>. SUFFICES ASSUME m + 1 <= n
                PROVE  \E f \in [0 .. m + 1 -> S] :
                         /\ f[0] = start
                         /\ \A i \in 1 .. m + 1 : f[i] = step[<<f[i - 1], i>>]
    OBVIOUS
  <2>1. PICK f \in [0 .. m -> S] :
          /\ f[0] = start
          /\ \A i \in 1 .. m : f[i] = step[<<f[i - 1], i>>]
    BY <1>2
  <2>. DEFINE last == step[<<f[m], m + 1>>]
              g == [i \in 0 .. m + 1 |-> IF i = m + 1 THEN last ELSE f[i]]
  <2>2. last \in S
    <3>1. f[m] \in S /\ m + 1 \in 1 .. n
      BY <2>1
    <3>. QED
      BY <3>1
  <2>3. \A i \in 0 .. m : g[i] = f[i] /\ f[i] \in S
    BY <2>1
  <2>4. g[m + 1] = last /\ g[0] = start
    BY <2>1
  <2>5. g \in [0 .. m + 1 -> S]
    <3>. HIDE DEF last
    <3>. QED
      BY <2>2, <2>3
  <2>. HIDE DEF g
  <2>6. ASSUME NEW i \in 1 .. m + 1
        PROVE  g[i] = step[<<g[i - 1], i>>]
    <3>1. CASE i = m + 1
      BY <2>3, <2>4, <3>1
    <3>2. CASE i # m + 1
      <4>1. i \in 1 .. m /\ i \in 0 .. m /\ i - 1 \in 0 .. m
        BY <3>2
      <4>. QED
        BY <2>1, <2>3, <4>1
    <3>. QED
      BY <3>1, <3>2
  <2>. QED
    BY <2>4, <2>5, <2>6
<1>. HIDE DEF G
<1>3. n \in G
  BY <1>1, <1>2, Everything
<1>. QED
  BY <1>3 DEF G, Loops

\* Two loops that begin alike and do the same at each step have the same states.
Alike(f, g, n) ==
  /\ f[0] = g[0]
  /\ \A i \in 1 .. n : f[i - 1] = g[i - 1] => f[i] = g[i]

LEMMA LoopsAgree ==
  ASSUME NEW n \in Nat, NEW f, NEW g, Alike(f, g, n)
  PROVE  \A i \in 0 .. n : f[i] = g[i]
<1>0. f[0] = g[0] /\ \A i \in 1 .. n : f[i - 1] = g[i - 1] => f[i] = g[i]
  BY DEF Alike
<1>. DEFINE G == {i \in Nat : i <= n => f[i] = g[i]}
<1>1. 0 \in G
  BY <1>0
<1>2. ASSUME NEW i \in Nat, i \in G PROVE i + 1 \in G
  <2>1. i + 1 <= n => i + 1 \in 1 .. n /\ (i + 1) - 1 = i /\ i <= n
    OBVIOUS
  <2>. QED
    BY <1>0, <1>2, <2>1
<1>. HIDE DEF G
<1>3. Nat \subseteq G
  BY <1>1, <1>2, Everything
<1>. QED
  BY <1>3 DEF G

-----------------------------------------------------------------------------
(* FlattenSeq, which is a recursive function on the positions of its       *)
(* argument.  Facts about it are proved by the least position at which     *)
(* they would fail.                                                        *)

\* f gives, for each of the first n entries, the entries up to it, joined.
Joins(f, ss, n) ==
  f = [i \in 1 .. n |-> IF i = 1 THEN ss[i] ELSE f[i - 1] \o ss[i]]

LEMMA FlattenSeqJoins ==
  ASSUME NEW ss, Len(ss) # 0
  PROVE  FlattenSeq(ss) = (CHOOSE f : Joins(f, ss, Len(ss)))[Len(ss)]
BY DEF FlattenSeq, Joins

\* There is one such f, and its values are sequences.
LEMMA JoinsExists ==
  ASSUME NEW S, NEW ss \in Seq(Seq(S))
  PROVE  \E f \in [1 .. Len(ss) -> Seq(S)] : Joins(f, ss, Len(ss))
<1>0. /\ Len(ss) \in Nat
      /\ \A i \in 1 .. Len(ss) : ss[i] \in Seq(S)
  BY LenProperties, ElementOfSeq
<1>. DEFINE G == {n \in Nat : \E f \in [1 .. n -> Seq(S)] : Joins(f, ss, n)}
<1>1. 0 \in G
  <2>. DEFINE f == [i \in 1 .. 0 |-> <<>>]
  <2>1. 1 .. 0 = {}
    OBVIOUS
  <2>2. f \in [1 .. 0 -> Seq(S)] /\ Joins(f, ss, 0)
    BY <2>1 DEF Joins
  <2>. QED
    BY <2>2
<1>2. ASSUME NEW n \in Nat, n \in G, n + 1 \in 1 .. Len(ss)
      PROVE  n + 1 \in G
  <2>1. PICK f \in [1 .. n -> Seq(S)] : Joins(f, ss, n)
    BY <1>2
  <2>. DEFINE last == IF n = 0 THEN ss[n + 1] ELSE f[n] \o ss[n + 1]
              g == [i \in 1 .. n + 1 |-> IF i = n + 1 THEN last ELSE f[i]]
  <2>2. last \in Seq(S)
    <3>1. CASE n = 0
      BY <1>0, <1>2, <3>1
    <3>2. CASE n # 0
      <4>1. f[n] \in Seq(S) /\ ss[n + 1] \in Seq(S)
        BY <1>0, <1>2, <3>2
      <4>. QED
        BY <4>1, <3>2, ConcatProperties
    <3>. QED
      BY <3>1, <3>2
  <2>3. g \in [1 .. n + 1 -> Seq(S)]
    <3>. HIDE DEF last
    <3>. QED
      BY <2>2
  <2>4. ASSUME NEW i \in 1 .. n + 1
        PROVE  g[i] = IF i = 1 THEN ss[i] ELSE g[i - 1] \o ss[i]
    <3>1. CASE i = n + 1
      <4>1. CASE n = 0
        BY <3>1, <4>1
      <4>2. CASE n # 0
        <5>1. i # 1 /\ i - 1 = n /\ g[n] = f[n] /\ n \in 1 .. n + 1
          BY <3>1, <4>2
        <5>2. g[i] = f[n] \o ss[n + 1]
          BY <3>1, <4>2
        <5>. QED
          BY <3>1, <5>1, <5>2
      <4>. QED
        BY <4>1, <4>2
    <3>2. CASE i # n + 1
      <4>1. i \in 1 .. n /\ g[i] = f[i]
        BY <3>2
      <4>2. f[i] = IF i = 1 THEN ss[i] ELSE f[i - 1] \o ss[i]
        BY <2>1, <4>1 DEF Joins
      <4>3. i # 1 => g[i - 1] = f[i - 1]
        BY <4>1
      <4>. QED
        BY <4>1, <4>2, <4>3
    <3>. QED
      BY <3>1, <3>2
  <2>5. Joins(g, ss, n + 1)
    <3>. HIDE DEF g
    <3>. QED
      BY <2>3, <2>4 DEF Joins
  <2>6. \E h \in [1 .. n + 1 -> Seq(S)] : Joins(h, ss, n + 1)
    <3>. HIDE DEF g
    <3>. QED
      BY <2>3, <2>5
  <2>. QED
    BY <2>6
<1>. HIDE DEF G
<1>3. Len(ss) >= 1 => 1 \in G
  BY <1>0, <1>1, <1>2
<1>4. \A i \in 1 .. Len(ss) : i # Len(ss) /\ i \in G => i + 1 \in G
  BY <1>0, <1>2
<1>5. 1 .. Len(ss) \subseteq G
  BY <1>0, <1>3, <1>4, UpTo
<1>6. Len(ss) \in G
  BY <1>0, <1>1, <1>5
<1>. QED
  BY <1>6 DEF G

\* There is only one such f.
LEMMA JoinsUnique ==
  ASSUME NEW ss, NEW n \in Nat, NEW f, NEW g, Joins(f, ss, n), Joins(g, ss, n)
  PROVE  f = g
<1>. DEFINE G == {i \in 1 .. n : f[i] = g[i]}
<1>1. \A i \in 1 .. n : f[i] = IF i = 1 THEN ss[i] ELSE f[i - 1] \o ss[i]
  BY DEF Joins
<1>2. \A i \in 1 .. n : g[i] = IF i = 1 THEN ss[i] ELSE g[i - 1] \o ss[i]
  BY DEF Joins
<1>3. n >= 1 => 1 \in G
  BY <1>1, <1>2
<1>4. ASSUME NEW i \in 1 .. n, i # n, i \in G
      PROVE  i + 1 \in G
  <2>1. i + 1 \in 1 .. n /\ i + 1 # 1 /\ (i + 1) - 1 = i
    BY <1>4
  <2>2. f[i + 1] = f[i] \o ss[i + 1] /\ g[i + 1] = g[i] \o ss[i + 1]
    BY <1>1, <1>2, <2>1
  <2>. QED
    BY <1>4, <2>1, <2>2
<1>5. 1 .. n \subseteq G
  <2>. HIDE DEF G
  <2>. QED
    BY <1>3, <1>4, UpTo
<1>. QED
  BY <1>5 DEF Joins

\* FlattenSeq of nothing, and of one more sequence at the end.
LEMMA FlattenSeqProperties ==
  ASSUME NEW S
  PROVE  /\ FlattenSeq(<<>>) = <<>>
         /\ \A ss \in Seq(Seq(S)) : FlattenSeq(ss) \in Seq(S)
         /\ \A ss \in Seq(Seq(S)) : \A x \in Seq(S) :
              FlattenSeq(Append(ss, x)) = FlattenSeq(ss) \o x
<1>1. FlattenSeq(<<>>) = <<>>
  BY EmptySeq DEF FlattenSeq
<1>2. ASSUME NEW ss \in Seq(Seq(S)), Len(ss) # 0
      PROVE  \E f \in [1 .. Len(ss) -> Seq(S)] :
               Joins(f, ss, Len(ss)) /\ FlattenSeq(ss) = f[Len(ss)]
  <2>1. PICK f \in [1 .. Len(ss) -> Seq(S)] : Joins(f, ss, Len(ss))
    BY JoinsExists
  <2>. DEFINE c == CHOOSE h : Joins(h, ss, Len(ss))
  <2>2. Joins(c, ss, Len(ss))
    BY <2>1
  <2>3. FlattenSeq(ss) = c[Len(ss)]
    BY <1>2, FlattenSeqJoins
  <2>. HIDE DEF c
  <2>4. Len(ss) \in Nat /\ Len(ss) \in 1 .. Len(ss)
    BY <1>2, LenProperties
  <2>5. c = f
    BY <2>1, <2>2, <2>4, JoinsUnique
  <2>. QED
    BY <2>1, <2>3, <2>5
<1>3. ASSUME NEW ss \in Seq(Seq(S))
      PROVE  FlattenSeq(ss) \in Seq(S)
  <2>1. CASE ss = <<>>
    BY <1>1, <2>1, EmptySeq
  <2>2. CASE ss # <<>>
    <3>1. Len(ss) # 0 /\ Len(ss) \in 1 .. Len(ss)
      BY <2>2, EmptySeq
    <3>. QED
      BY <1>2, <3>1
  <2>. QED
    BY <2>1, <2>2
<1>4. ASSUME NEW ss \in Seq(Seq(S)), NEW x \in Seq(S)
      PROVE  FlattenSeq(Append(ss, x)) = FlattenSeq(ss) \o x
  <2>. DEFINE tt == Append(ss, x)
  <2>1. /\ tt \in Seq(Seq(S)) /\ Len(tt) = Len(ss) + 1
        /\ \A i \in 1 .. Len(ss) : tt[i] = ss[i]
        /\ tt[Len(ss) + 1] = x
        /\ Len(ss) \in Nat
    BY AppendProperties, LenProperties
  <2>. HIDE DEF tt
  <2>2. Len(tt) # 0
    BY <2>1
  <2>3. PICK g \in [1 .. Len(tt) -> Seq(S)] :
          Joins(g, tt, Len(tt)) /\ FlattenSeq(tt) = g[Len(tt)]
    BY <1>2, <2>1, <2>2
  <2>4. FlattenSeq(tt) = IF Len(tt) = 1 THEN x ELSE g[Len(ss)] \o x
    <3>1. Len(tt) \in 1 .. Len(tt) /\ Len(tt) - 1 = Len(ss) /\ tt[Len(tt)] = x
      BY <2>1
    <3>2. g[Len(tt)] = IF Len(tt) = 1 THEN tt[Len(tt)] ELSE g[Len(tt) - 1] \o tt[Len(tt)]
      BY <2>3, <3>1 DEF Joins
    <3>. QED
      BY <2>3, <3>1, <3>2
  <2>5. CASE ss = <<>>
    <3>1. FlattenSeq(tt) = x
      BY <2>1, <2>4, <2>5, EmptySeq
    <3>2. FlattenSeq(ss) \o x = x
      BY <1>1, <2>5, ConcatEmptySeq
    <3>. QED
      BY <3>1, <3>2 DEF tt
  <2>6. CASE ss # <<>>
    <3>1. /\ Len(ss) # 0 /\ Len(tt) # 1 /\ Len(ss) \in 1 .. Len(ss)
          /\ Len(ss) \in Nat /\ Len(tt) \in Nat /\ Len(ss) <= Len(tt)
      BY <2>1, <2>6, EmptySeq
    <3>2. PICK f \in [1 .. Len(ss) -> Seq(S)] :
            Joins(f, ss, Len(ss)) /\ FlattenSeq(ss) = f[Len(ss)]
      BY <1>2, <3>1
    <3>. DEFINE h == [i \in 1 .. Len(ss) |-> g[i]]
    <3>3. Joins(h, ss, Len(ss))
      <4>1. ASSUME NEW i \in 1 .. Len(ss)
            PROVE  h[i] = IF i = 1 THEN ss[i] ELSE h[i - 1] \o ss[i]
        <5>1. i \in 1 .. Len(tt) /\ (i # 1 => i - 1 \in 1 .. Len(ss))
          BY <2>1
        <5>2. g[i] = IF i = 1 THEN tt[i] ELSE g[i - 1] \o tt[i]
          BY <2>3, <5>1 DEF Joins
        <5>3. tt[i] = ss[i]
          BY <2>1
        <5>4. h[i] = g[i] /\ (i # 1 => h[i - 1] = g[i - 1])
          BY <5>1
        <5>. HIDE DEF h
        <5>. QED
          BY <5>2, <5>3, <5>4
      <4>2. h = [i \in 1 .. Len(ss) |-> h[i]]
        OBVIOUS
      <4>. HIDE DEF h
      <4>. QED
        BY <4>1, <4>2 DEF Joins
    <3>4. h[Len(ss)] = g[Len(ss)]
      BY <3>1
    <3>. HIDE DEF h
    <3>5. h = f
      BY <2>1, <3>2, <3>3, JoinsUnique
    <3>. QED
      BY <2>4, <3>1, <3>2, <3>4, <3>5 DEF tt
  <2>. QED
    BY <2>5, <2>6
<1>. QED
  BY <1>1, <1>3, <1>4

-----------------------------------------------------------------------------
\* Induction over sequences: a set that has the empty sequence and with each
\* sequence all that are one entry longer has all sequences.
LEMMA AllSequences ==
  ASSUME NEW S, NEW G, <<>> \in G,
         \A s \in Seq(S) : \A x \in S : s \in G => Append(s, x) \in G
  PROVE  Seq(S) \subseteq G
<1>. DEFINE H == {n \in Nat : \A s \in Seq(S) : Len(s) = n => s \in G}
<1>1. 0 \in H
  BY EmptySeq
<1>2. ASSUME NEW n \in Nat, n \in H
      PROVE  n + 1 \in H
  <2>. SUFFICES ASSUME NEW s \in Seq(S), Len(s) = n + 1 PROVE s \in G
    OBVIOUS
  <2>1. s # <<>>
    BY EmptySeq
  <2>2. PICK r \in Seq(S), x \in S : s = Append(r, x)
    BY <2>1, SequenceEmptyOrAppend
  <2>3. Len(s) = Len(r) + 1 /\ Len(r) \in Nat
    BY <2>2, AppendProperties, LenProperties
  <2>4. r \in G
    BY <1>2, <2>3
  <2>. QED
    BY <2>2, <2>4
<1>. HIDE DEF H
<1>3. Nat \subseteq H
  BY <1>1, <1>2, Everything
<1>4. \A s \in Seq(S) : Len(s) \in H
  BY <1>3, LenProperties
<1>. QED
  BY <1>4 DEF H

\* Five sequences joined from the right, and from the left.
LEMMA FiveJoined ==
  ASSUME NEW S, NEW a \in Seq(S), NEW b \in Seq(S), NEW c \in Seq(S), NEW d \in Seq(S)
  PROVE  a \o (((b \o c) \o d) \o c) = (((a \o b) \o c) \o d) \o c
<1>. DEFINE p == b \o c
            q == p \o d
<1>1. p \in Seq(S) /\ q \in Seq(S)
  OBVIOUS
<1>2. (a \o b) \o c = a \o p
  OBVIOUS
<1>. HIDE DEF p
<1>3. (a \o p) \o d = a \o q
  BY <1>1
<1>. HIDE DEF q
<1>4. (a \o q) \o c = a \o (q \o c)
  BY <1>1
<1>. QED
  BY <1>2, <1>3, <1>4 DEF p, q

\* Two elements in a row are the second appended to the first, or joined to it.
LEMMA PairOfOnes ==
  ASSUME NEW S, NEW x \in S, NEW y \in S
  PROVE  /\ <<x>> \in Seq(S) /\ <<x, y>> \in Seq(S)
         /\ <<x, y>> = Append(<<x>>, y)
         /\ <<x, y>> = <<x>> \o <<y>>
<1>1. /\ <<x>> \in Seq(S) /\ <<y>> \in Seq(S) /\ <<x, y>> \in Seq(S)
      /\ Len(<<x>>) = 1 /\ Len(<<y>>) = 1 /\ Len(<<x, y>>) = 2
      /\ <<x>>[1] = x /\ <<y>>[1] = y /\ <<x, y>>[1] = x /\ <<x, y>>[2] = y
  OBVIOUS
<1>. DEFINE a == Append(<<x>>, y)
            b == <<x>> \o <<y>>
<1>2. a \in Seq(S) /\ Len(a) = 2 /\ a[1] = x /\ a[2] = y
  BY <1>1, AppendProperties
<1>3. b \in Seq(S) /\ Len(b) = 2 /\ b[1] = x /\ b[2] = y
  BY <1>1, ConcatProperties
<1>. HIDE DEF a, b
<1>. DEFINE c == <<x, y>>
<1>4. c \in Seq(S) /\ Len(c) = 2 /\ c[1] = x /\ c[2] = y
  BY <1>1
<1>. HIDE DEF c
<1>5. \A i \in 1 .. 2 : i = 1 \/ i = 2
  OBVIOUS
<1>6. c = a
  BY <1>2, <1>4, <1>5, SeqEqual
<1>7. c = b
  BY <1>3, <1>4, <1>5, SeqEqual
<1>. QED
  BY <1>1, <1>6, <1>7 DEF a, b, c

LEMMA ConcatAppend ==
  ASSUME NEW S, NEW s \in Seq(S), NEW t \in Seq(S), NEW x \in S
  PROVE  s \o Append(t, x) = Append(s \o t, x)
<1>1. s \o t \in Seq(S) /\ <<x>> \in Seq(S)
  BY ConcatProperties
<1>2. Append(t, x) = t \o <<x>> /\ Append(s \o t, x) = (s \o t) \o <<x>>
  BY <1>1, AppendIsConcat
<1>3. \A a, b, c \in Seq(S) : (a \o b) \o c = a \o (b \o c)
  BY ConcatAssociative
<1>4. (s \o t) \o <<x>> = s \o (t \o <<x>>)
  BY <1>1, <1>3, Zenon
<1>. QED
  BY <1>2, <1>4

\* The entries of s, each written as g says, and these one behind the other.
Mapped(g, s) == [i \in DOMAIN s |-> g[s[i]]]

Joined(g, s) == FlattenSeq(Mapped(g, s))

LEMMA MapType ==
  ASSUME NEW S, NEW T, NEW g, \A y \in S : g[y] \in T, NEW s \in Seq(S)
  PROVE  Mapped(g, s) \in Seq(T) /\ Len(Mapped(g, s)) = Len(s)
<1>1. /\ Len(s) \in Nat /\ DOMAIN s = 1 .. Len(s)
      /\ \A i \in 1 .. Len(s) : s[i] \in S
  BY LenProperties, ElementOfSeq
<1>. QED
  BY <1>1, IsASeq, LenProperties DEF Mapped

LEMMA MapAppend ==
  ASSUME NEW S, NEW g, NEW s \in Seq(S), NEW x \in S
  PROVE  Mapped(g, Append(s, x)) = Append(Mapped(g, s), g[x])
<1>. DEFINE T == {g[y] : y \in S}
            n == Len(s)
            a == Append(s, x)
            u == [i \in 1 .. n |-> g[s[i]]]
            v == [i \in 1 .. n + 1 |-> g[a[i]]]
            w == Append(u, g[x])
<1>0. /\ n \in Nat /\ DOMAIN s = 1 .. n /\ \A i \in 1 .. n : s[i] \in S
      /\ a \in Seq(S) /\ Len(a) = n + 1 /\ DOMAIN a = 1 .. n + 1
      /\ \A i \in 1 .. n : a[i] = s[i]
      /\ a[n + 1] = x
      /\ g[x] \in T
  BY LenProperties, ElementOfSeq, AppendProperties
<1>1. u \in Seq(T) /\ v \in Seq(T) /\ Len(u) = n /\ Len(v) = n + 1
  <2>1. /\ \A i \in 1 .. n : g[s[i]] \in T
        /\ \A i \in 1 .. n + 1 : g[a[i]] \in T
    BY <1>0, ElementOfSeq
  <2>. HIDE DEF T, a, n
  <2>2. u \in Seq(T) /\ v \in Seq(T)
    BY <1>0, <2>1, IsASeq
  <2>. QED
    BY <1>0, <2>2, LenProperties
<1>. HIDE DEF n, a, T
<1>2. \A i \in 1 .. n : u[i] = g[s[i]]
  OBVIOUS
<1>3. \A i \in 1 .. n + 1 : v[i] = g[a[i]]
  OBVIOUS
<1>. HIDE DEF u, v
<1>4. /\ w \in Seq(T) /\ Len(w) = n + 1
      /\ \A i \in 1 .. n : w[i] = u[i]
      /\ w[n + 1] = g[x]
  BY <1>0, <1>1, AppendProperties
<1>. HIDE DEF w
<1>5. ASSUME NEW i \in 1 .. n + 1
      PROVE  v[i] = w[i]
  <2>1. CASE i = n + 1
    BY <1>0, <1>3, <1>4, <2>1
  <2>2. CASE i # n + 1
    <3>1. i \in 1 .. n
      BY <1>0, <2>2
    <3>. QED
      BY <1>0, <1>2, <1>3, <1>4, <3>1
  <2>. QED
    BY <2>1, <2>2
<1>6. v = w
  BY <1>1, <1>4, <1>5, SeqEqual
<1>. QED
  BY <1>0, <1>6 DEF Mapped, a, u, v, w, n

LEMMA JoinedProperties ==
  ASSUME NEW S, NEW T, NEW g \in [S -> Seq(T)]
  PROVE  /\ Joined(g, <<>>) = <<>>
         /\ \A s \in Seq(S) : Joined(g, s) \in Seq(T)
         /\ \A s \in Seq(S) : \A x \in S : Joined(g, Append(s, x)) = Joined(g, s) \o g[x]
<1>1. Joined(g, <<>>) = <<>>
  <2>1. Mapped(g, <<>>) = <<>>
    BY EmptySeq DEF Mapped
  <2>. QED
    BY <2>1, FlattenSeqProperties DEF Joined
<1>2. ASSUME NEW s \in Seq(S), NEW x \in S
      PROVE  Joined(g, s) \in Seq(T) /\ Joined(g, Append(s, x)) = Joined(g, s) \o g[x]
  <2>1. Mapped(g, Append(s, x)) = Append(Mapped(g, s), g[x])
    BY MapAppend
  <2>2. \A y \in S : g[y] \in Seq(T)
    OBVIOUS
  <2>3. Mapped(g, s) \in Seq(Seq(T))
    BY <2>2, MapType
  <2>. QED
    BY <2>1, <2>2, <2>3, FlattenSeqProperties DEF Joined
<1>3. ASSUME NEW s \in Seq(S)
      PROVE  Joined(g, s) \in Seq(T)
  <2>1. CASE s = <<>>
    BY <1>1, <2>1, EmptySeq
  <2>2. CASE s # <<>>
    <3>1. PICK r \in Seq(S), x \in S : s = Append(r, x)
      BY <2>2, SequenceEmptyOrAppend
    <3>. QED
      BY <1>2, <3>1
  <2>. QED
    BY <2>1, <2>2
<1>. QED
  BY <1>1, <1>2, <1>3

-----------------------------------------------------------------------------
(* One edit of a sequence that ends with c: at the end, or in front of c.  *)

LEMMA SubSeqOfAppend ==
  ASSUME NEW S, NEW u \in Seq(S), NEW c \in S
  PROVE  /\ \A i \in 0 .. Len(u) : /\ SubSeq(Append(u, c), 1, i) = SubSeq(u, 1, i)
                                   /\ SubSeq(u, 1, i) \in Seq(S)
         /\ \A i \in 1 .. Len(u) + 1 :
              /\ SubSeq(Append(u, c), i, Len(u) + 1) = Append(SubSeq(u, i, Len(u)), c)
              /\ SubSeq(u, i, Len(u)) \in Seq(S)
<1>. DEFINE n == Len(u)
            k == Append(u, c)
<1>0. /\ n \in Nat /\ k \in Seq(S) /\ Len(k) = n + 1 /\ k[n + 1] = c
      /\ <<c>> \in Seq(S) /\ k = u \o <<c>>
  BY LenProperties, AppendProperties, AppendIsConcat
<1>1. \A i, j \in 1 .. n : SubSeq(k, i, j) = SubSeq(u, i, j)
  BY <1>0, SubSeqOfConcat1
<1>2. \A j \in 1 .. n : u[j] \in S
  BY ElementOfSeq
<1>. HIDE DEF k
<1>3. ASSUME NEW i \in 0 .. n
      PROVE  SubSeq(k, 1, i) = SubSeq(u, 1, i) /\ SubSeq(u, 1, i) \in Seq(S)
  <2>1. CASE i = 0
    <3>1. SubSeq(k, 1, i) = <<>> /\ SubSeq(u, 1, i) = <<>>
      BY <2>1, SubSeqEmpty
    <3>. QED
      BY <3>1, EmptySeq
  <2>2. CASE i # 0
    <3>1. i \in 1 .. n /\ 1 \in 1 .. n
      BY <1>0, <2>2
    <3>2. \A j \in 1 .. i : u[j] \in S
      BY <1>0, <1>2, <3>1
    <3>3. SubSeq(u, 1, i) \in Seq(S)
      BY <3>2, SubSeqProperties
    <3>. QED
      BY <1>1, <3>1, <3>3
  <2>. QED
    BY <2>1, <2>2
<1>4. ASSUME NEW i \in 1 .. n + 1
      PROVE  /\ SubSeq(k, i, n + 1) = Append(SubSeq(u, i, n), c)
             /\ SubSeq(u, i, n) \in Seq(S)
  <2>1. SubSeq(u, i, n) \in Seq(S)
    <3>1. \A j \in i .. n : u[j] \in S
      BY <1>0, <1>2
    <3>. QED
      BY <1>0, <3>1, SubSeqProperties
  <2>2. SubSeq(k, i, n) = SubSeq(u, i, n)
    <3>1. CASE i = n + 1
      BY <1>0, <3>1, SubSeqEmpty
    <3>2. CASE i # n + 1
      <4>1. i \in 1 .. n /\ n \in 1 .. n
        BY <1>0, <3>2
      <4>. QED
        BY <1>1, <4>1
    <3>. QED
      BY <3>1, <3>2
  <2>3. SubSeq(k, i, n + 1) = SubSeq(k, i, n) \o <<c>>
    <3>1. i \in 1 .. Len(k) /\ n + 1 \in i .. Len(k) /\ (n + 1) - 1 = n
      BY <1>0
    <3>2. SubSeq(k, i, n + 1) = SubSeq(k, i, (n + 1) - 1) \o <<k[n + 1]>>
      BY <1>0, <3>1, SubSeqRecursiveSecond
    <3>. QED
      BY <1>0, <3>1, <3>2
  <2>. QED
    BY <2>1, <2>2, <2>3, AppendIsConcat
<1>. QED
  BY <1>3, <1>4 DEF k

LEMMA RemoveFromAppend ==
  ASSUME NEW S, NEW u \in Seq(S), NEW c \in S
  PROVE  /\ RemoveAt(Append(u, c), Len(u) + 1) = u
         /\ \A i \in 1 .. Len(u) :
              /\ RemoveAt(Append(u, c), i) = Append(RemoveAt(u, i), c)
              /\ RemoveAt(u, i) \in Seq(S)
<1>. DEFINE n == Len(u)
            k == Append(u, c)
<1>0. n \in Nat /\ Len(k) = n + 1
  BY LenProperties, AppendProperties
<1>1. /\ \A i \in 0 .. n : SubSeq(k, 1, i) = SubSeq(u, 1, i) /\ SubSeq(u, 1, i) \in Seq(S)
      /\ \A i \in 1 .. n + 1 : /\ SubSeq(k, i, n + 1) = Append(SubSeq(u, i, n), c)
                               /\ SubSeq(u, i, n) \in Seq(S)
  BY SubSeqOfAppend
<1>. HIDE DEF k
<1>2. RemoveAt(k, n + 1) = u
  <2>1. RemoveAt(k, n + 1) = SubSeq(k, 1, n) \o SubSeq(k, n + 2, n + 1)
    BY <1>0 DEF RemoveAt
  <2>2. SubSeq(k, n + 2, n + 1) = <<>>
    BY <1>0, SubSeqEmpty
  <2>3. SubSeq(k, 1, n) = u
    BY <1>0, <1>1, SubSeqFull
  <2>. QED
    BY <2>1, <2>2, <2>3, ConcatEmptySeq
<1>3. ASSUME NEW i \in 1 .. n
      PROVE  RemoveAt(k, i) = Append(RemoveAt(u, i), c) /\ RemoveAt(u, i) \in Seq(S)
  <2>1. i - 1 \in 0 .. n /\ i + 1 \in 1 .. n + 1
    BY <1>0
  <2>2. PICK p \in Seq(S), q \in Seq(S) : p = SubSeq(u, 1, i - 1) /\ q = SubSeq(u, i + 1, n)
    BY <1>1, <2>1
  <2>3. RemoveAt(k, i) = p \o Append(q, c)
    BY <1>0, <1>1, <2>1, <2>2 DEF RemoveAt
  <2>4. RemoveAt(u, i) = p \o q
    BY <2>2 DEF RemoveAt
  <2>5. p \o Append(q, c) = Append(p \o q, c) /\ p \o q \in Seq(S)
    BY ConcatAppend, ConcatProperties
  <2>. QED
    BY <2>3, <2>4, <2>5
<1>. QED
  BY <1>2, <1>3 DEF k

LEMMA InsertIntoAppend ==
  ASSUME NEW S, NEW u \in Seq(S), NEW c \in S, NEW x \in S
  PROVE  /\ InsertAt(Append(u, c), Len(u) + 2, x) = Append(Append(u, c), x)
         /\ \A i \in 1 .. Len(u) + 1 :
              /\ InsertAt(Append(u, c), i, x) = Append(InsertAt(u, i, x), c)
              /\ InsertAt(u, i, x) \in Seq(S)
<1>. DEFINE n == Len(u)
            k == Append(u, c)
<1>0. /\ n \in Nat /\ Len(k) = n + 1 /\ k \in Seq(S) /\ <<x>> \in Seq(S)
  BY LenProperties, AppendProperties
<1>1. /\ \A i \in 0 .. n : SubSeq(k, 1, i) = SubSeq(u, 1, i) /\ SubSeq(u, 1, i) \in Seq(S)
      /\ \A i \in 1 .. n + 1 : /\ SubSeq(k, i, n + 1) = Append(SubSeq(u, i, n), c)
                               /\ SubSeq(u, i, n) \in Seq(S)
  BY SubSeqOfAppend
<1>. HIDE DEF k
<1>2. InsertAt(k, n + 2, x) = Append(k, x)
  <2>1. InsertAt(k, n + 2, x) = (SubSeq(k, 1, n + 1) \o <<x>>) \o SubSeq(k, n + 2, n + 1)
    BY <1>0 DEF InsertAt
  <2>2. SubSeq(k, n + 2, n + 1) = <<>>
    BY <1>0, SubSeqEmpty
  <2>3. SubSeq(k, 1, n + 1) = k
    BY <1>0, SubSeqFull
  <2>4. k \o <<x>> \in Seq(S) /\ Append(k, x) = k \o <<x>>
    BY <1>0, ConcatProperties, AppendIsConcat
  <2>. QED
    BY <2>1, <2>2, <2>3, <2>4, ConcatEmptySeq
<1>3. ASSUME NEW i \in 1 .. n + 1
      PROVE  InsertAt(k, i, x) = Append(InsertAt(u, i, x), c) /\ InsertAt(u, i, x) \in Seq(S)
  <2>1. i - 1 \in 0 .. n
    BY <1>0
  <2>2. PICK p \in Seq(S), q \in Seq(S) : p = SubSeq(u, 1, i - 1) /\ q = SubSeq(u, i, n)
    BY <1>1, <2>1
  <2>3. InsertAt(k, i, x) = (p \o <<x>>) \o Append(q, c)
    BY <1>0, <1>1, <2>1, <2>2 DEF InsertAt
  <2>4. InsertAt(u, i, x) = (p \o <<x>>) \o q
    BY <2>2 DEF InsertAt
  <2>5. PICK r \in Seq(S) : r = p \o <<x>>
    BY <1>0, ConcatProperties
  <2>6. r \o Append(q, c) = Append(r \o q, c) /\ r \o q \in Seq(S)
    BY ConcatAppend, ConcatProperties
  <2>. QED
    BY <2>3, <2>4, <2>5, <2>6
<1>. QED
  BY <1>2, <1>3 DEF k

LEMMA InsertIntoEmpty ==
  ASSUME NEW S, NEW x \in S
  PROVE  InsertAt(<<>>, 1, x) = <<x>>
<1>1. SubSeq(<<>>, 1, 0) = <<>>
  BY SubSeqEmpty
<1>2. <<x>> \in Seq(S) /\ Len(<<>>) = 0
  BY EmptySeq
<1>3. InsertAt(<<>>, 1, x) = SubSeq(<<>>, 1, 1 - 1) \o <<x>> \o SubSeq(<<>>, 1, Len(<<>>))
  BY DEF InsertAt
<1>4. InsertAt(<<>>, 1, x) = (<<>> \o <<x>>) \o <<>>
  <2>1. 1 - 1 = 0
    OBVIOUS
  <2>. QED
    BY <1>1, <1>2, <1>3, <2>1
<1>. QED
  BY <1>2, <1>4, ConcatEmptySeq

LEMMA ReplaceInAppend ==
  ASSUME NEW S, NEW u \in Seq(S), NEW c \in S, NEW x \in S
  PROVE  /\ ReplaceAt(Append(u, c), Len(u) + 1, x) = Append(u, x)
         /\ \A i \in 1 .. Len(u) :
              /\ ReplaceAt(Append(u, c), i, x) = Append(ReplaceAt(u, i, x), c)
              /\ ReplaceAt(u, i, x) \in Seq(S)
<1>. DEFINE n == Len(u)
            k == Append(u, c)
            e == Append(u, x)
<1>0. /\ n \in Nat /\ Len(k) = n + 1 /\ k \in Seq(S) /\ DOMAIN k = 1 .. n + 1
      /\ \A j \in 1 .. n : k[j] = u[j]
      /\ k[n + 1] = c
      /\ e \in Seq(S) /\ Len(e) = n + 1
      /\ \A j \in 1 .. n : e[j] = u[j]
      /\ e[n + 1] = x
  BY LenProperties, AppendProperties
<1>1. \A s \in Seq(S) : \A i \in 1 .. Len(s) :
        /\ ReplaceAt(s, i, x) \in Seq(S) /\ Len(ReplaceAt(s, i, x)) = Len(s)
        /\ \A j \in 1 .. Len(s) : ReplaceAt(s, i, x)[j] = IF j = i THEN x ELSE s[j]
  BY ExceptSeq DEF ReplaceAt
<1>. HIDE DEF k, e
<1>2. ReplaceAt(k, n + 1, x) = e
  <2>. DEFINE r == ReplaceAt(k, n + 1, x)
  <2>1. /\ r \in Seq(S) /\ Len(r) = n + 1
        /\ \A j \in 1 .. n + 1 : r[j] = IF j = n + 1 THEN x ELSE k[j]
    BY <1>0, <1>1
  <2>. HIDE DEF r
  <2>2. \A j \in 1 .. n + 1 : r[j] = e[j]
    <3>1. \A j \in 1 .. n + 1 : j = n + 1 \/ j \in 1 .. n
      BY <1>0
    <3>. QED
      BY <1>0, <2>1, <3>1
  <2>3. r = e
    BY <1>0, <2>1, <2>2, SeqEqual
  <2>. QED
    BY <2>3 DEF r
<1>3. ASSUME NEW i \in 1 .. n
      PROVE  ReplaceAt(k, i, x) = Append(ReplaceAt(u, i, x), c) /\ ReplaceAt(u, i, x) \in Seq(S)
  <2>. DEFINE r == ReplaceAt(k, i, x)
              v == ReplaceAt(u, i, x)
              a == Append(v, c)
  <2>1. /\ r \in Seq(S) /\ Len(r) = n + 1
        /\ \A j \in 1 .. n + 1 : r[j] = IF j = i THEN x ELSE k[j]
    BY <1>0, <1>1
  <2>2. /\ v \in Seq(S) /\ Len(v) = n
        /\ \A j \in 1 .. n : v[j] = IF j = i THEN x ELSE u[j]
    BY <1>0, <1>1
  <2>. HIDE DEF r, v
  <2>3. /\ a \in Seq(S) /\ Len(a) = n + 1
        /\ \A j \in 1 .. n : a[j] = v[j]
        /\ a[n + 1] = c
    BY <2>2, AppendProperties
  <2>. HIDE DEF a
  <2>4. \A j \in 1 .. n + 1 : r[j] = a[j]
    <3>1. \A j \in 1 .. n + 1 : j = n + 1 \/ j \in 1 .. n
      BY <1>0
    <3>2. i # n + 1
      BY <1>0
    <3>. QED
      BY <1>0, <2>1, <2>2, <2>3, <3>1, <3>2
  <2>5. r = a
    BY <2>1, <2>3, <2>4, SeqEqual
  <2>. QED
    BY <2>2, <2>5 DEF r, v, a
<1>. QED
  BY <1>2, <1>3 DEF k, e

=============================================================================
