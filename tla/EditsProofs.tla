---------------------------- MODULE EditsProofs ----------------------------
(***************************************************************************)
(* For any tabs, documents, trees, labels, names and bounds: block ids     *)
(* name blocks, an operation hits the block its author saw, only a delete  *)
(* takes a block away, the open terms match the text, and drafts rest on   *)
(* the documents that were allowed.                                        *)
(***************************************************************************)
EXTENDS Edits, FiniteSetTheorems, SequenceTheorems, WellFoundedInduction, TLAPS

----------------------------------------------------------------------------
(* Numbers and sequences.                                                  *)

\* A nonempty set of numbers has a least one.
LEMMA Least ==
    ASSUME NEW S, S \subseteq Nat, S # {}
    PROVE  \E k \in S : \A m \in S : k <= m
<1>1. PICK k \in S : \A m \in S : ~(<<m, k>> \in OpToRel(<, Nat))
    BY NatLessThanWellFounded, WFMin
<1>2. ASSUME NEW m \in S, ~(k <= m) PROVE FALSE
  <2>1. m < k /\ m \in Nat /\ k \in Nat
      BY <1>2
  <2>2. <<m, k>> \in {ss \in Nat \X Nat : ss[1] < ss[2]}
      BY <2>1
  <2>. QED  BY <1>1, <2>2 DEF OpToRel
<1>. QED  BY <1>2

\* Counting up: a set with 0 that has the next number of each of its members.
LEMMA Climb ==
    ASSUME NEW m \in Nat, NEW S, 0 \in S, \A n \in 0 .. m - 1 : n \in S => n + 1 \in S
    PROVE  0 .. m \subseteq S
<1>. SUFFICES ASSUME ~(0 .. m \subseteq S) PROVE FALSE
    OBVIOUS
<1>. DEFINE Bad == {n \in 0 .. m : n \notin S}
<1>1. Bad # {} /\ Bad \subseteq Nat
    OBVIOUS
<1>. HIDE DEF Bad
<1>2. PICK k \in Bad : \A n \in Bad : k <= n
    BY <1>1, Least
<1>. USE DEF Bad
<1>3. k \in Nat /\ k > 0 /\ k - 1 \in 0 .. m - 1 /\ k - 1 + 1 = k /\ k - 1 \in 0 .. m
    BY <1>2
<1>4. k - 1 \in S
    BY <1>2, <1>3
<1>. QED  BY <1>2, <1>3, <1>4

\* The payloads of a batch: each is what its operation makes of the one before.
LEMMA PayloadsSteps ==
    ASSUME NEW p, NEW ops, Len(ops) \in Nat
    PROVE  /\ Payloads(p, ops)[0] = p
           /\ \A n \in 1 .. Len(ops) : Payloads(p, ops)[n] =
                  Apply(Payloads(p, ops)[n - 1], ops[n], <<0, commands + 1, n>>)
<1>. DEFINE m == Len(ops)
            Step(q, n) == Apply(q, ops[n], <<0, commands + 1, n>>)
            Upto(k) == \E g : g = [n \in 0 .. k |-> IF n = 0 THEN p ELSE Step(g[n - 1], n)]
            S == {k \in 0 .. m : Upto(k)}
<1>1. Upto(0)
  <2>. DEFINE g == [n \in 0 .. 0 |-> p]
  <2>1. g = [n \in 0 .. 0 |-> IF n = 0 THEN p ELSE Step(g[n - 1], n)]
      OBVIOUS
  <2>. QED  BY <2>1
<1>2. ASSUME NEW k \in 0 .. m - 1, Upto(k) PROVE Upto(k + 1)
  <2>. HIDE DEF Step
  <2>1. PICK g : g = [n \in 0 .. k |-> IF n = 0 THEN p ELSE Step(g[n - 1], n)]
      BY <1>2
  <2>. DEFINE h == [n \in 0 .. k + 1 |-> IF n = k + 1 THEN Step(g[k], n) ELSE g[n]]
  <2>2. \A n \in 0 .. k + 1 : h[n] = IF n = 0 THEN p ELSE Step(h[n - 1], n)
    <3>. TAKE n \in 0 .. k + 1
    <3>1. CASE n = 0
        BY <3>1, <2>1
    <3>2. CASE n = k + 1
        BY <3>2, <2>1
    <3>3. CASE n \in 1 .. k
      <4>1. h[n] = g[n] /\ h[n - 1] = g[n - 1] /\ n \in 0 .. k /\ n # 0
          BY <3>3
      <4>. QED  BY <4>1, <2>1
    <3>. QED  BY <3>1, <3>2, <3>3
  <2>3. h = [n \in 0 .. k + 1 |-> IF n = 0 THEN p ELSE Step(h[n - 1], n)]
      BY <2>2
  <2>. QED  BY <2>3
<1>3. 0 .. m \subseteq S
  <2>1. 0 \in S /\ \A k \in 0 .. m - 1 : k \in S => k + 1 \in S
    <3>. HIDE DEF Upto
    <3>. QED  BY <1>1, <1>2
  <2>. HIDE DEF S
  <2>. QED  BY <2>1, Climb
<1>4. \E g : g = [n \in 0 .. m |-> IF n = 0 THEN p ELSE Step(g[n - 1], n)]
    BY <1>3
<1>5. Payloads(p, ops)
        = [n \in 0 .. m |-> IF n = 0 THEN p ELSE Step(Payloads(p, ops)[n - 1], n)]
    BY <1>4 DEF Payloads
<1>. HIDE DEF Step
<1>6. Payloads(p, ops)[0] = p
           /\ \A n \in 1 .. Len(ops) : Payloads(p, ops)[n] = Step(Payloads(p, ops)[n - 1], n)
    BY <1>5
<1>. QED  BY <1>6 DEF Step

\* Kept goes through the sequence once.
LEMMA KeptSteps ==
    ASSUME NEW s, Len(s) \in Nat, NEW at
    PROVE  \E upto : /\ Kept(s, at) = upto[Len(s)]
                     /\ upto[0] = <<>>
                     /\ \A n \in 1 .. Len(s) : upto[n] =
                            IF n \in at THEN Append(upto[n - 1], s[n]) ELSE upto[n - 1]
<1>. DEFINE m == Len(s)
            Step(q, n) == IF n \in at THEN Append(q, s[n]) ELSE q
            Upto(k) == \E g : g = [n \in 0 .. k |-> IF n = 0 THEN <<>> ELSE Step(g[n - 1], n)]
            S == {k \in 0 .. m : Upto(k)}
<1>1. Upto(0)
  <2>. DEFINE g == [n \in 0 .. 0 |-> <<>>]
  <2>1. g = [n \in 0 .. 0 |-> IF n = 0 THEN <<>> ELSE Step(g[n - 1], n)]
      OBVIOUS
  <2>. QED  BY <2>1
<1>2. ASSUME NEW k \in 0 .. m - 1, Upto(k) PROVE Upto(k + 1)
  <2>. HIDE DEF Step
  <2>1. PICK g : g = [n \in 0 .. k |-> IF n = 0 THEN <<>> ELSE Step(g[n - 1], n)]
      BY <1>2
  <2>. DEFINE h == [n \in 0 .. k + 1 |-> IF n = k + 1 THEN Step(g[k], n) ELSE g[n]]
  <2>2. \A n \in 0 .. k + 1 : h[n] = IF n = 0 THEN <<>> ELSE Step(h[n - 1], n)
    <3>. TAKE n \in 0 .. k + 1
    <3>1. CASE n = 0
        BY <3>1, <2>1
    <3>2. CASE n = k + 1
        BY <3>2, <2>1
    <3>3. CASE n \in 1 .. k
      <4>1. h[n] = g[n] /\ h[n - 1] = g[n - 1] /\ n \in 0 .. k /\ n # 0
          BY <3>3
      <4>. QED  BY <4>1, <2>1
    <3>. QED  BY <3>1, <3>2, <3>3
  <2>3. h = [n \in 0 .. k + 1 |-> IF n = 0 THEN <<>> ELSE Step(h[n - 1], n)]
      BY <2>2
  <2>. QED  BY <2>3
<1>3. 0 .. m \subseteq S
  <2>1. 0 \in S /\ \A k \in 0 .. m - 1 : k \in S => k + 1 \in S
    <3>. HIDE DEF Upto
    <3>. QED  BY <1>1, <1>2
  <2>. HIDE DEF S
  <2>. QED  BY <2>1, Climb
<1>. DEFINE upto == CHOOSE g : g = [n \in 0 .. m |->
                       IF n = 0 THEN <<>>
                       ELSE IF n \in at THEN Append(g[n - 1], s[n]) ELSE g[n - 1]]
<1>4. \E g : g = [n \in 0 .. m |-> IF n = 0 THEN <<>>
                       ELSE IF n \in at THEN Append(g[n - 1], s[n]) ELSE g[n - 1]]
    BY <1>3
<1>5. upto = [n \in 0 .. m |-> IF n = 0 THEN <<>>
                       ELSE IF n \in at THEN Append(upto[n - 1], s[n]) ELSE upto[n - 1]]
    BY <1>4
<1>6. Kept(s, at) = upto[Len(s)]
    BY DEF Kept
<1>. HIDE DEF upto
<1>7. /\ Kept(s, at) = upto[Len(s)]
      /\ upto[0] = <<>>
      /\ \A n \in 1 .. Len(s) : upto[n] =
            IF n \in at THEN Append(upto[n - 1], s[n]) ELSE upto[n - 1]
  <2>. HIDE DEF m
  <2>1. m \in Nat
      BY DEF m
  <2>2. upto[0] = <<>>
      BY <1>5, <2>1
  <2>3. ASSUME NEW n \in 1 .. m
        PROVE  upto[n] = IF n \in at THEN Append(upto[n - 1], s[n]) ELSE upto[n - 1]
    <3>1. n \in 0 .. m /\ n # 0
        BY <2>1
    <3>. QED  BY <1>5, <3>1, Zenon
  <2>. QED  BY <1>6, <2>2, <2>3 DEF m
<1>. QED  BY <1>7

\* q holds the members of s at the positions in at; pos lists the positions in their order.
Lists(pos, q, s, at) ==
    /\ pos \in [1 .. Len(q) -> at]
    /\ \A i \in 1 .. Len(q) : q[i] = s[pos[i]]
    /\ \A i, j \in 1 .. Len(q) : i < j => pos[i] < pos[j]
    /\ \A k \in at : \E i \in 1 .. Len(q) : pos[i] = k

\* What Kept keeps: the members at the positions of at, each once, in their order.
LEMMA KeptMembers ==
    ASSUME NEW A, NEW s \in Seq(A), NEW at, at \subseteq DOMAIN s
    PROVE  /\ Kept(s, at) \in Seq(A)
           /\ \E pos : Lists(pos, Kept(s, at), s, at)
<1>. DEFINE m == Len(s)
            Good(q, n) == q \in Seq(A) /\ \E pos : Lists(pos, q, s, at \cap (1 .. n))
<1>0. m \in Nat /\ DOMAIN s = 1 .. m /\ at \cap (1 .. m) = at
    OBVIOUS
<1>1. PICK upto : /\ Kept(s, at) = upto[m]
                  /\ upto[0] = <<>>
                  /\ \A n \in 1 .. m : upto[n] =
                       IF n \in at THEN Append(upto[n - 1], s[n]) ELSE upto[n - 1]
    BY <1>0, KeptSteps
<1>. DEFINE S == {n \in 0 .. m : Good(upto[n], n)}
<1>2. Good(<<>>, 0)
  <2>. DEFINE pos == [i \in 1 .. 0 |-> 0]
              e == <<>>
  <2>1. e \in Seq(A) /\ Len(e) = 0 /\ at \cap (1 .. 0) = {}
      OBVIOUS
  <2>. HIDE DEF e
  <2>2. Lists(pos, e, s, at \cap (1 .. 0))
      BY <2>1 DEF Lists
  <2>. QED  BY <2>1, <2>2 DEF e
<1>3. ASSUME NEW n \in 0 .. m - 1, Good(upto[n], n) PROVE Good(upto[n + 1], n + 1)
  <2>. DEFINE q == upto[n]
  <2>1. n + 1 \in 1 .. m /\ n + 1 - 1 = n /\ m \in Nat /\ n \in Nat /\ DOMAIN s = 1 .. m
      BY <1>0
  <2>2. upto[n + 1] = IF n + 1 \in at THEN Append(q, s[n + 1]) ELSE q
      BY <1>1, <2>1
  <2>3. q \in Seq(A)
      BY <1>3
  <2>4. PICK pos : Lists(pos, q, s, at \cap (1 .. n))
      BY <1>3
  <2>. HIDE DEF q
  <2>5. CASE n + 1 \notin at
    <3>1. at \cap (1 .. n + 1) = at \cap (1 .. n)
        BY <2>1, <2>5
    <3>2. Lists(pos, q, s, at \cap (1 .. n + 1))
        BY <2>4, <3>1
    <3>. QED  BY <2>2, <2>3, <2>5, <3>2
  <2>6. CASE n + 1 \in at
    <3>. DEFINE r == Append(q, s[n + 1])
                l == Len(q)
                pos2 == [i \in 1 .. l + 1 |-> IF i = l + 1 THEN n + 1 ELSE pos[i]]
    <3>1. /\ r \in Seq(A) /\ Len(r) = l + 1 /\ l \in Nat
          /\ \A i \in 1 .. l : r[i] = q[i]
          /\ r[l + 1] = s[n + 1]
      <4>1. s[n + 1] \in A
          BY <2>1, ElementOfSeq
      <4>. QED  BY <4>1, <2>3, AppendProperties
    <3>0. /\ pos \in [1 .. l -> at \cap (1 .. n)]
          /\ \A i \in 1 .. l : q[i] = s[pos[i]]
          /\ \A i, j \in 1 .. l : i < j => pos[i] < pos[j]
          /\ \A k \in at \cap (1 .. n) : \E i \in 1 .. l : pos[i] = k
        BY <2>4 DEF Lists
    <3>. HIDE DEF r, l
    <3>2. pos2 \in [1 .. l + 1 -> at \cap (1 .. n + 1)]
        BY <2>1, <3>0, <2>6, <3>1
    <3>3. \A i \in 1 .. l + 1 : r[i] = s[pos2[i]]
        BY <3>0, <3>1
    <3>4. \A i, j \in 1 .. l + 1 : i < j => pos2[i] < pos2[j]
      <4>1. ASSUME NEW i \in 1 .. l + 1, NEW j \in 1 .. l + 1, i < j
            PROVE  pos2[i] < pos2[j]
        <5>1. i \in 1 .. l /\ pos[i] \in 1 .. n /\ pos2[i] = pos[i]
            BY <4>1, <3>1, <3>0
        <5>2. CASE j = l + 1
            BY <5>1, <5>2, <2>1
        <5>3. CASE j \in 1 .. l
            BY <5>1, <5>3, <4>1, <3>1, <3>0
        <5>. QED  BY <5>2, <5>3, <3>1
      <4>. QED  BY <4>1
    <3>5. \A k \in at \cap (1 .. n + 1) : \E i \in 1 .. l + 1 : pos2[i] = k
      <4>1. ASSUME NEW k \in at \cap (1 .. n + 1) PROVE \E i \in 1 .. l + 1 : pos2[i] = k
        <5>1. CASE k = n + 1
            BY <5>1, <3>1
        <5>2. CASE k \in at \cap (1 .. n)
          <6>1. PICK i \in 1 .. l : pos[i] = k
              BY <5>2, <3>0
          <6>. QED  BY <6>1, <3>1
        <5>. QED  BY <5>1, <5>2, <2>1
      <4>. QED  BY <4>1
    <3>. HIDE DEF pos2
    <3>6. Lists(pos2, r, s, at \cap (1 .. n + 1))
        BY <3>1, <3>2, <3>3, <3>4, <3>5 DEF Lists
    <3>7. upto[n + 1] = r
        BY <2>2, <2>6 DEF r
    <3>. QED  BY <3>1, <3>6, <3>7
  <2>. QED  BY <2>5, <2>6
<1>. HIDE DEF Good, m
<1>4. 0 .. m \subseteq S
  <2>1. 0 \in S /\ \A n \in 0 .. m - 1 : n \in S => n + 1 \in S
      BY <1>0, <1>1, <1>2, <1>3
  <2>. HIDE DEF S
  <2>. QED  BY <2>1, <1>0, Climb
<1>5. Good(Kept(s, at), m)
  <2>1. m \in 0 .. m
      BY <1>0
  <2>. QED  BY <1>1, <1>4, <2>1
<1>. QED  BY <1>0, <1>5 DEF Good

\* Where the members go when one is put in or taken out.
LEMMA InsertAtMembers ==
    ASSUME NEW A, NEW s \in Seq(A), NEW at \in 1 .. Len(s) + 1, NEW e \in A
    PROVE  /\ InsertAt(s, at, e) \in Seq(A)
           /\ Len(InsertAt(s, at, e)) = Len(s) + 1
           /\ \A i \in 1 .. Len(s) + 1 : InsertAt(s, at, e)[i] =
                  IF i < at THEN s[i] ELSE IF i = at THEN e ELSE s[i - 1]
<1>. DEFINE l == SubSeq(s, 1, at - 1)
            r == SubSeq(s, at, Len(s))
            mid == <<e>>
<1>0. Len(s) \in Nat /\ \A i \in 1 .. Len(s) : s[i] \in A
    BY ElementOfSeq
<1>1. l \in Seq(A) /\ Len(l) = at - 1 /\ \A i \in 1 .. at - 1 : l[i] = s[i]
  <2>1. \A i \in 1 .. at - 1 : s[i] \in A
      BY <1>0
  <2>2. at - 1 \in Int /\ (1 <= at - 1 <=> at # 1) /\ at - 1 - 1 + 1 = at - 1
      BY <1>0
  <2>. QED  BY <1>0, <2>1, <2>2, SubSeqProperties
<1>2. /\ r \in Seq(A) /\ Len(r) = Len(s) - at + 1
      /\ \A i \in 1 .. Len(s) - at + 1 : r[i] = s[at + i - 1]
  <2>1. \A i \in at .. Len(s) : s[i] \in A
      BY <1>0
  <2>2. at \in Int /\ Len(s) \in Int
      BY <1>0
  <2>. QED  BY <1>0, <2>1, <2>2, SubSeqProperties
<1>3. mid \in Seq(A) /\ Len(mid) = 1 /\ mid[1] = e
    OBVIOUS
<1>. HIDE DEF l, r, mid
<1>. DEFINE lm == l \o mid
<1>4. /\ lm \in Seq(A) /\ Len(lm) = at
      /\ \A i \in 1 .. at : lm[i] = IF i < at THEN s[i] ELSE e
  <2>1. /\ lm \in Seq(A) /\ Len(lm) = Len(l) + Len(mid)
        /\ \A i \in 1 .. Len(l) + Len(mid) :
               lm[i] = IF i <= Len(l) THEN l[i] ELSE mid[i - Len(l)]
      BY <1>1, <1>3, ConcatProperties
  <2>. HIDE DEF lm
  <2>2. ASSUME NEW i \in 1 .. at PROVE lm[i] = IF i < at THEN s[i] ELSE e
      BY <2>1, <1>0, <1>1, <1>3
  <2>. QED  BY <2>1, <2>2, <1>0, <1>1, <1>3
<1>. HIDE DEF lm
<1>5. /\ lm \o r \in Seq(A) /\ Len(lm \o r) = Len(lm) + Len(r)
      /\ \A i \in 1 .. Len(lm) + Len(r) :
             (lm \o r)[i] = IF i <= Len(lm) THEN lm[i] ELSE r[i - Len(lm)]
    BY <1>2, <1>4, ConcatProperties
<1>6. InsertAt(s, at, e) = lm \o r
    BY DEF InsertAt, lm, l, mid, r
<1>. DEFINE q == InsertAt(s, at, e)
<1>7. q = lm \o r
    BY <1>6
<1>. HIDE DEF q
<1>8. ASSUME NEW i \in 1 .. Len(s) + 1
      PROVE  q[i] = IF i < at THEN s[i] ELSE IF i = at THEN e ELSE s[i - 1]
  <2>1. CASE i <= at
      BY <2>1, <1>0, <1>2, <1>4, <1>5, <1>7
  <2>2. CASE ~(i <= at)
    <3>1. i - at \in 1 .. Len(s) - at + 1 /\ at + (i - at) - 1 = i - 1 /\ ~(i < at) /\ i # at
        BY <2>2, <1>0
    <3>2. q[i] = r[i - at]
        BY <3>1, <2>2, <1>0, <1>2, <1>4, <1>5, <1>7
    <3>. QED  BY <3>1, <3>2, <1>2
  <2>. QED  BY <2>1, <2>2
<1>. QED  BY <1>0, <1>2, <1>4, <1>5, <1>7, <1>8 DEF q

\* The members after the one that goes move up.
LEMMA RemoveAtMembers ==
    ASSUME NEW A, NEW s \in Seq(A), NEW at \in 1 .. Len(s)
    PROVE  /\ RemoveAt(s, at) \in Seq(A)
           /\ Len(RemoveAt(s, at)) = Len(s) - 1
           /\ \A i \in 1 .. Len(s) - 1 : RemoveAt(s, at)[i] = IF i < at THEN s[i] ELSE s[i + 1]
<1>. DEFINE l == SubSeq(s, 1, at - 1)
            r == SubSeq(s, at + 1, Len(s))
<1>0. Len(s) \in Nat /\ \A i \in 1 .. Len(s) : s[i] \in A
    BY ElementOfSeq
<1>1. l \in Seq(A) /\ Len(l) = at - 1 /\ \A i \in 1 .. at - 1 : l[i] = s[i]
  <2>1. \A i \in 1 .. at - 1 : s[i] \in A
      BY <1>0
  <2>2. at - 1 \in Int /\ (1 <= at - 1 <=> at # 1) /\ at - 1 - 1 + 1 = at - 1
      BY <1>0
  <2>. QED  BY <1>0, <2>1, <2>2, SubSeqProperties
<1>2. /\ r \in Seq(A) /\ Len(r) = Len(s) - at
      /\ \A i \in 1 .. Len(s) - at : r[i] = s[at + i]
  <2>1. \A i \in at + 1 .. Len(s) : s[i] \in A
      BY <1>0
  <2>2. at + 1 \in Int /\ Len(s) \in Int /\ Len(s) - (at + 1) + 1 = Len(s) - at
      BY <1>0
  <2>3. /\ r \in Seq(A) /\ Len(r) = IF at + 1 <= Len(s) THEN Len(s) - (at + 1) + 1 ELSE 0
        /\ \A i \in 1 .. Len(s) - (at + 1) + 1 : r[i] = s[at + 1 + i - 1]
      BY <2>1, <2>2, SubSeqProperties
  <2>4. \A i \in 1 .. Len(s) - at : at + 1 + i - 1 = at + i
      BY <1>0
  <2>. HIDE DEF r
  <2>5. Len(r) = Len(s) - at
      BY <1>0, <2>3
  <2>6. ASSUME NEW i \in 1 .. Len(s) - at PROVE r[i] = s[at + i]
    <3>1. i \in 1 .. Len(s) - (at + 1) + 1
        BY <2>2
    <3>. QED  BY <3>1, <2>3, <2>4
  <2>. QED  BY <2>3, <2>5, <2>6
<1>. HIDE DEF l, r
<1>3. /\ l \o r \in Seq(A) /\ Len(l \o r) = Len(l) + Len(r)
      /\ \A i \in 1 .. Len(l) + Len(r) : (l \o r)[i] = IF i <= Len(l) THEN l[i] ELSE r[i - Len(l)]
    BY <1>1, <1>2, ConcatProperties
<1>. DEFINE q == RemoveAt(s, at)
<1>4. q = l \o r
    BY DEF RemoveAt, l, r
<1>. HIDE DEF q
<1>5. ASSUME NEW i \in 1 .. Len(s) - 1 PROVE q[i] = IF i < at THEN s[i] ELSE s[i + 1]
  <2>1. CASE i < at
      BY <2>1, <1>0, <1>1, <1>2, <1>3, <1>4
  <2>2. CASE ~(i < at)
    <3>1. i - (at - 1) \in 1 .. Len(s) - at /\ at + (i - (at - 1)) = i + 1 /\ ~(i <= at - 1)
        BY <2>2, <1>0
    <3>2. q[i] = r[i - (at - 1)]
        BY <3>1, <2>2, <1>0, <1>1, <1>2, <1>3, <1>4
    <3>. QED  BY <3>1, <3>2, <2>2, <1>2
  <2>. QED  BY <2>1, <2>2
<1>. QED  BY <1>0, <1>1, <1>2, <1>3, <1>4, <1>5 DEF q

----------------------------------------------------------------------------

Births      == Nat \X Nat \X Nat
BlockRecord == [id : Nat \X Nat, born : Births, tokens : SUBSET Labels]
Payload     == [secs : Seq(Seq(BlockRecord)), missing : SUBSET Labels,
                parties : [Parties -> Names \cup {Blank}]]

\* Two blocks with one id are copies of one block, up to the labels of L.
Kin(a, b, L) == a.id = b.id /\ a.born = b.born /\ a.tokens \ L = b.tokens \ L

\* An id names its section, and the blocks that bear it are copies of one block.
SoundSection(s, blocks, L) ==
    /\ \A b \in DOMAIN blocks : blocks[b].id[1] = s
    /\ \A a, b \in DOMAIN blocks : blocks[a].id = blocks[b].id => Kin(blocks[a], blocks[b], L)
Sound(p, L) == \A s \in DOMAIN p.secs : SoundSection(s, p.secs[s], L)

DistinctIn(blocks) == \A a, b \in DOMAIN blocks : blocks[a].id = blocks[b].id => a = b
Distinct(p) == \A s \in DOMAIN p.secs : DistinctIn(p.secs[s])

\* The open terms are what the text asks for, up to the labels of L.
Tallied(p, L) == \A l \in Labels \ L : l \in p.missing <=> l \in Tokens(p)

\* An id that two payloads have names one block in both, unless it is in R.
Agrees(v, p, R) ==
    \A x \in Places(v), y \in Places(p) :
        Block(v, x).id = Block(p, y).id /\ Block(p, y).id \notin R
            => Block(v, x).born = Block(p, y).born

----------------------------------------------------------------------------
(* The parts of a payload.                                                 *)

\* What a payload is made of.
LEMMA Parts ==
    ASSUME NEW p \in Payload
    PROVE  /\ p.secs \in Seq(Seq(BlockRecord)) /\ Len(p.secs) \in Nat
           /\ DOMAIN p.secs = 1 .. Len(p.secs)
           /\ p.missing \subseteq Labels /\ p.parties \in [Parties -> Names \cup {Blank}]
           /\ \A s \in DOMAIN p.secs :
                 /\ p.secs[s] \in Seq(BlockRecord) /\ Len(p.secs[s]) \in Nat
                 /\ DOMAIN p.secs[s] = 1 .. Len(p.secs[s])
                 /\ \A b \in DOMAIN p.secs[s] : p.secs[s][b] \in BlockRecord
<1>1. /\ p.secs \in Seq(Seq(BlockRecord))
      /\ p.missing \subseteq Labels /\ p.parties \in [Parties -> Names \cup {Blank}]
    BY DEF Payload
<1>2. /\ Len(p.secs) \in Nat /\ DOMAIN p.secs = 1 .. Len(p.secs)
      /\ \A s \in DOMAIN p.secs : p.secs[s] \in Seq(BlockRecord)
    BY <1>1, ElementOfSeq
<1>3. ASSUME NEW q \in Seq(BlockRecord)
      PROVE  /\ Len(q) \in Nat /\ DOMAIN q = 1 .. Len(q)
             /\ \A b \in DOMAIN q : q[b] \in BlockRecord
    BY ElementOfSeq
<1>. QED  BY <1>1, <1>2, <1>3

\* A place is a section of the payload and a block of the section.
LEMMA PlaceOf ==
    ASSUME NEW p, NEW x
    PROVE  x \in Places(p)
             <=> \E s \in DOMAIN p.secs : \E b \in DOMAIN p.secs[s] : x = <<s, b>>
BY DEF Places

\* The block at a place.
LEMMA AtPlace ==
    ASSUME NEW p, NEW x \in Places(p)
    PROVE  /\ x[1] \in DOMAIN p.secs /\ x[2] \in DOMAIN p.secs[x[1]] /\ x = <<x[1], x[2]>>
           /\ Block(p, x) = p.secs[x[1]][x[2]]
BY PlaceOf DEF Block

\* A block of a section has a place.
LEMMA PlaceHere ==
    ASSUME NEW p, NEW s \in DOMAIN p.secs, NEW b \in DOMAIN p.secs[s]
    PROVE  <<s, b>> \in Places(p) /\ Block(p, <<s, b>>) = p.secs[s][b]
BY PlaceOf DEF Block

\* find_block finds a block with the id when there is one.
LEMMA FindFinds ==
    ASSUME NEW p \in Payload, NEW id \in Ids(p)
    PROVE  Find(p, id) \in Places(p) /\ Block(p, Find(p, id)).id = id
<1>. DEFINE hits == {x \in Places(p) : Block(p, x).id = id}
            rows == {x[1] : x \in hits}
<1>1. hits # {}
    BY DEF Ids
<1>2. \A x \in hits : x[1] \in Nat /\ x[2] \in Nat /\ x = <<x[1], x[2]>>
    BY AtPlace, Parts
<1>. HIDE DEF hits
<1>3. rows \subseteq Nat /\ rows # {}
    BY <1>1, <1>2
<1>4. PICK r \in rows : \A m \in rows : r <= m
  <2>. HIDE DEF rows
  <2>. QED  BY <1>3, Least
<1>. DEFINE cols == {x[2] : x \in {y \in hits : y[1] = r}}
<1>5. cols \subseteq Nat /\ cols # {}
    BY <1>2, <1>4
<1>6. PICK c \in cols : \A m \in cols : c <= m
  <2>. HIDE DEF cols
  <2>. QED  BY <1>5, Least
<1>7. PICK z \in hits : z[1] = r /\ z[2] = c
    BY <1>6
<1>8. \A y \in hits : Before(z, y)
  <2>1. ASSUME NEW y \in hits PROVE Before(z, y)
    <3>1. r \in Nat /\ c \in Nat /\ y[1] \in Nat /\ y[2] \in Nat /\ r <= y[1]
        BY <1>2, <1>3, <1>4, <1>5, <1>6
    <3>2. y[1] = r => c <= y[2]
        BY <1>6
    <3>. QED  BY <3>1, <3>2, <1>7 DEF Before
  <2>. QED  BY <2>1
<1>9. Find(p, id) \in hits
    BY <1>7, <1>8 DEF Find, hits
<1>. QED  BY <1>9 DEF hits

\* One number more than there are blocks: two of them would be of one block.
LEMMA Crowded ==
    ASSUME NEW l \in Nat, NEW f \in [l + 1 .. 2 * l + 1 -> 1 .. l]
    PROVE  \E n, k \in l + 1 .. 2 * l + 1 : n # k /\ f[n] = f[k]
<1>. DEFINE S == l + 1 .. 2 * l + 1
            T == 1 .. l
<1>1. \A a, b \in Int : /\ IsFiniteSet(a .. b)
                         /\ Cardinality(a .. b) = IF a > b THEN 0 ELSE b - a + 1
    BY FS_Interval
<1>2. IsFiniteSet(S) /\ Cardinality(S) = l + 1
  <2>1. l + 1 \in Int /\ 2 * l + 1 \in Int /\ ~(l + 1 > 2 * l + 1)
        /\ 2 * l + 1 - (l + 1) + 1 = l + 1
      OBVIOUS
  <2>. QED  BY <1>1, <2>1
<1>3. IsFiniteSet(T) /\ Cardinality(T) = l
  <2>1. 1 \in Int /\ l \in Int /\ (1 > l => l = 0) /\ l - 1 + 1 = l
      OBVIOUS
  <2>. QED  BY <1>1, <2>1
<1>4. Cardinality(T) < Cardinality(S) /\ f \in [S -> T]
    BY <1>2, <1>3
<1>. HIDE DEF S, T
<1>5. \E n, k \in S : n # k /\ f[n] = f[k]
    BY <1>2, <1>3, <1>4, FS_PigeonHole
<1>. QED  BY <1>5 DEF S

\* _next_block_id gives an id of the section that no block of it has.
LEMMA NextIdIsFree ==
    ASSUME NEW p \in Payload, NEW s \in DOMAIN p.secs
    PROVE  /\ NextId(p, s) \in Nat \X Nat /\ NextId(p, s)[1] = s
           /\ \A b \in DOMAIN p.secs[s] : p.secs[s][b].id # NextId(p, s)
<1>. DEFINE old == p.secs[s]
            l == Len(old)
            free == {n \in l + 1 .. 2 * l + 1 : \A b \in DOMAIN old : old[b].id # <<s, n>>}
<1>1. l \in Nat /\ DOMAIN old = 1 .. l /\ s \in Nat
    BY Parts
<1>2. free # {}
  <2>. SUFFICES ASSUME free = {} PROVE FALSE
      OBVIOUS
  <2>. DEFINE holder == [n \in l + 1 .. 2 * l + 1 |->
                           CHOOSE b \in DOMAIN old : old[b].id = <<s, n>>]
  <2>1. \A n \in l + 1 .. 2 * l + 1 : \E b \in DOMAIN old : old[b].id = <<s, n>>
      OBVIOUS
  <2>2. \A n \in l + 1 .. 2 * l + 1 : holder[n] \in DOMAIN old /\ old[holder[n]].id = <<s, n>>
      BY <2>1
  <2>3. holder \in [l + 1 .. 2 * l + 1 -> 1 .. l]
      BY <2>2, <1>1
  <2>6. \E n, k \in l + 1 .. 2 * l + 1 : n # k /\ holder[n] = holder[k]
    <3>. HIDE DEF holder, l
    <3>. QED  BY <2>3, <1>1, Crowded
  <2>7. \A n, k \in l + 1 .. 2 * l + 1 : holder[n] = holder[k] => n = k
    <3>. HIDE DEF holder, old, l
    <3>1. ASSUME NEW n \in l + 1 .. 2 * l + 1, NEW k \in l + 1 .. 2 * l + 1, holder[n] = holder[k]
          PROVE  n = k
      <4>1. <<s, n>> = <<s, k>>
          BY <2>2, <3>1
      <4>. QED  BY <4>1
    <3>. QED  BY <3>1
  <2>. QED  BY <2>6, <2>7
<1>3. PICK n \in free : \A m \in free : n <= m
  <2>. free \subseteq Nat
      BY <1>1
  <2>. HIDE DEF free
  <2>. QED  BY <1>2, Least
<1>4. (CHOOSE k \in free : \A m \in free : k <= m) \in free
  <2>. HIDE DEF free
  <2>. QED  BY <1>3
<1>5. \E k \in free : NextId(p, s) = <<s, k>>
    BY <1>4 DEF NextId
<1>. QED  BY <1>1, <1>5

----------------------------------------------------------------------------
(* What an operation does to the blocks of a section.                      *)

\* The blocks old of section s become new: but for the labels of L, nothing happens to
\* the blocks that stay; those that go were born as gone says, and new ones have new ids.
SectionStep(s, old, new, gone, L) ==
    /\ new \in Seq(BlockRecord) /\ SoundSection(s, new, L)
    /\ \A a \in DOMAIN old : \/ \E c \in DOMAIN new : Kin(old[a], new[c], L)
                             \/ old[a].born \in gone /\ old[a].tokens \subseteq L
    /\ \A c \in DOMAIN new : \/ \E a \in DOMAIN old : Kin(old[a], new[c], L)
                             \/ /\ \A a \in DOMAIN old : old[a].id # new[c].id
                                /\ new[c].tokens \subseteq L

\* A section made of the blocks it had is as sound as it was.
LEMMA SoundOfOld ==
    ASSUME NEW s, NEW old, NEW new, NEW L, SoundSection(s, old, L),
           \A c \in DOMAIN new : \E a \in DOMAIN old : Kin(old[a], new[c], L)
    PROVE  SoundSection(s, new, L)
<1>1. ASSUME NEW b \in DOMAIN new PROVE new[b].id[1] = s
    BY DEF SoundSection, Kin
<1>2. ASSUME NEW a \in DOMAIN new, NEW b \in DOMAIN new, new[a].id = new[b].id
      PROVE  Kin(new[a], new[b], L)
  <2>1. PICK c \in DOMAIN old : Kin(old[c], new[a], L)
      OBVIOUS
  <2>2. PICK d \in DOMAIN old : Kin(old[d], new[b], L)
      OBVIOUS
  <2>3. Kin(old[c], old[d], L)
      BY <1>2, <2>1, <2>2 DEF SoundSection, Kin
  <2>. QED  BY <2>1, <2>2, <2>3 DEF Kin
<1>. QED  BY <1>1, <1>2 DEF SoundSection

\* A new text keeps the id and the birth of the block.
LEMMA EditedSection ==
    ASSUME NEW s, NEW old \in Seq(BlockRecord), NEW L, SoundSection(s, old, L),
           NEW b \in DOMAIN old, NEW tokens \in SUBSET Labels,
           tokens \subseteq L, old[b].tokens \subseteq L
    PROVE  LET new == [old EXCEPT ![b].tokens = tokens]
           IN SectionStep(s, old, new, {}, L) /\ (DistinctIn(old) => DistinctIn(new))
<1>. DEFINE e == [old[b] EXCEPT !.tokens = tokens]
            new == [old EXCEPT ![b] = e]
<1>0. new = [old EXCEPT ![b].tokens = tokens]
    OBVIOUS
<1>1. DOMAIN old = 1 .. Len(old) /\ \A a \in DOMAIN old : old[a] \in BlockRecord
    BY ElementOfSeq
<1>2. /\ e \in BlockRecord /\ e.id = old[b].id /\ e.born = old[b].born /\ e.tokens = tokens
    BY <1>1 DEF BlockRecord
<1>. HIDE DEF e
<1>3. new \in Seq(BlockRecord) /\ DOMAIN new = DOMAIN old
      /\ \A a \in DOMAIN old : new[a] = IF a = b THEN e ELSE old[a]
    BY <1>1, <1>2, ExceptSeq
<1>. HIDE DEF new
<1>4. \A a \in DOMAIN old : Kin(old[a], new[a], L)
    BY <1>2, <1>3 DEF Kin
<1>5. SoundSection(s, new, L)
    BY <1>3, <1>4, SoundOfOld
<1>6. SectionStep(s, old, new, {}, L)
    BY <1>3, <1>4, <1>5 DEF SectionStep
<1>7. DistinctIn(old) => DistinctIn(new)
    BY <1>3, <1>4 DEF DistinctIn, Kin
<1>. QED  BY <1>0, <1>6, <1>7

\* A block with a new id among the others, wherever it is put.
LEMMA LongerSection ==
    ASSUME NEW s, NEW old \in Seq(BlockRecord), NEW L, SoundSection(s, old, L),
           NEW at \in 1 .. Len(old) + 1, NEW e \in BlockRecord, e.id[1] = s,
           e.tokens \subseteq L, \A a \in DOMAIN old : old[a].id # e.id
    PROVE  LET new == InsertAt(old, at, e)
           IN SectionStep(s, old, new, {}, L) /\ (DistinctIn(old) => DistinctIn(new))
<1>. DEFINE new == InsertAt(old, at, e)
            l == Len(old)
            from(c) == IF c < at THEN c ELSE c - 1
            to(a) == IF a < at THEN a ELSE a + 1
<1>1. l \in Nat /\ DOMAIN old = 1 .. l
    OBVIOUS
<1>2. /\ new \in Seq(BlockRecord) /\ DOMAIN new = 1 .. l + 1
      /\ \A i \in 1 .. l + 1 : new[i] = IF i < at THEN old[i] ELSE IF i = at THEN e ELSE old[i - 1]
  <2>1. /\ new \in Seq(BlockRecord) /\ Len(new) = l + 1
        /\ \A i \in 1 .. l + 1 :
               new[i] = IF i < at THEN old[i] ELSE IF i = at THEN e ELSE old[i - 1]
      BY InsertAtMembers
  <2>. HIDE DEF new, l
  <2>. QED  BY <2>1
<1>. HIDE DEF new, l
<1>3. \A c \in 1 .. l + 1 : c # at => from(c) \in 1 .. l /\ new[c] = old[from(c)]
    BY <1>1, <1>2 DEF l
<1>4. \A a \in 1 .. l : to(a) \in 1 .. l + 1 /\ new[to(a)] = old[a]
  <2>1. ASSUME NEW a \in 1 .. l PROVE to(a) \in 1 .. l + 1 /\ new[to(a)] = old[a]
    <3>1. CASE a < at
        BY <3>1, <1>1, <1>2 DEF l
    <3>2. CASE ~(a < at)
      <4>1. a + 1 \in 1 .. l + 1 /\ ~(a + 1 < at) /\ a + 1 # at /\ a + 1 - 1 = a
          BY <3>2, <1>1 DEF l
      <4>. QED  BY <4>1, <3>2, <1>2
    <3>. QED  BY <3>1, <3>2
  <2>. QED  BY <2>1
<1>5. new[at] = e /\ at \in 1 .. l + 1
    BY <1>1, <1>2 DEF l
<1>6. \A c, d \in 1 .. l + 1 : c # at /\ d # at /\ from(c) = from(d) => c = d
    BY <1>1, <1>5
<1>. HIDE DEF from, to
<1>7. \A a \in BlockRecord : Kin(a, a, L)
    BY DEF Kin
<1>8. \A a \in DOMAIN old : old[a] \in BlockRecord
    BY ElementOfSeq, <1>1 DEF l
<1>9. \A c \in DOMAIN new : c = at \/ \E a \in DOMAIN old : new[c] = old[a]
    BY <1>1, <1>2, <1>3
<1>10. SoundSection(s, new, L)
  <2>1. \A b \in DOMAIN new : new[b].id[1] = s
      BY <1>5, <1>9 DEF SoundSection
  <2>2. ASSUME NEW a \in DOMAIN new, NEW b \in DOMAIN new, new[a].id = new[b].id
        PROVE  Kin(new[a], new[b], L)
    <3>1. CASE a = at /\ b = at
        BY <3>1, <1>5, <1>7
    <3>2. CASE a = at /\ b # at
        BY <3>2, <2>2, <1>5, <1>9
    <3>3. CASE a # at /\ b = at
        BY <3>3, <2>2, <1>5, <1>9
    <3>4. CASE a # at /\ b # at
        BY <3>4, <2>2, <1>9 DEF SoundSection
    <3>. QED  BY <3>1, <3>2, <3>3, <3>4
  <2>. QED  BY <2>1, <2>2 DEF SoundSection
<1>11. SectionStep(s, old, new, {}, L)
  <2>1. \A a \in DOMAIN old : \E c \in DOMAIN new : Kin(old[a], new[c], L)
      BY <1>1, <1>2, <1>4, <1>7, <1>8
  <2>2. \A c \in DOMAIN new : \/ \E a \in DOMAIN old : Kin(old[a], new[c], L)
                             \/ /\ \A a \in DOMAIN old : old[a].id # new[c].id
                                /\ new[c].tokens \subseteq L
      BY <1>5, <1>7, <1>8, <1>9
  <2>. QED  BY <1>2, <1>10, <2>1, <2>2 DEF SectionStep
<1>12. ASSUME DistinctIn(old) PROVE DistinctIn(new)
  <2>1. ASSUME NEW a \in DOMAIN new, NEW b \in DOMAIN new, new[a].id = new[b].id
        PROVE  a = b
    <3>1. CASE a # at /\ b # at
        BY <3>1, <2>1, <1>1, <1>2, <1>3, <1>6, <1>12 DEF DistinctIn
    <3>2. CASE a = at \/ b = at
        BY <3>2, <2>1, <1>5, <1>9
    <3>. QED  BY <3>1, <3>2
  <2>. QED  BY <2>1 DEF DistinctIn
<1>. QED  BY <1>11, <1>12 DEF new

\* The others stay when a block goes.
LEMMA ShorterSection ==
    ASSUME NEW s, NEW old \in Seq(BlockRecord), NEW L, SoundSection(s, old, L),
           NEW at \in DOMAIN old, old[at].tokens \subseteq L
    PROVE  LET new == RemoveAt(old, at)
           IN SectionStep(s, old, new, {old[at].born}, L) /\ (DistinctIn(old) => DistinctIn(new))
<1>. DEFINE new == RemoveAt(old, at)
            l == Len(old)
            from(c) == IF c < at THEN c ELSE c + 1
            to(a) == IF a < at THEN a ELSE a - 1
<1>1. l \in Nat /\ DOMAIN old = 1 .. l
    OBVIOUS
<1>2. /\ new \in Seq(BlockRecord) /\ DOMAIN new = 1 .. l - 1
      /\ \A i \in 1 .. l - 1 : new[i] = IF i < at THEN old[i] ELSE old[i + 1]
  <2>1. /\ new \in Seq(BlockRecord) /\ Len(new) = l - 1
        /\ \A i \in 1 .. l - 1 : new[i] = IF i < at THEN old[i] ELSE old[i + 1]
      BY <1>1, RemoveAtMembers
  <2>. HIDE DEF new, l
  <2>. QED  BY <2>1
<1>. HIDE DEF new, l
<1>3. \A c \in 1 .. l - 1 : from(c) \in 1 .. l /\ new[c] = old[from(c)]
    BY <1>1, <1>2
<1>4. \A a \in 1 .. l : a # at => to(a) \in 1 .. l - 1 /\ new[to(a)] = old[a]
  <2>1. ASSUME NEW a \in 1 .. l, a # at PROVE to(a) \in 1 .. l - 1 /\ new[to(a)] = old[a]
    <3>1. CASE a < at
        BY <3>1, <1>1, <1>2
    <3>2. CASE ~(a < at)
      <4>1. a - 1 \in 1 .. l - 1 /\ ~(a - 1 < at) /\ a - 1 + 1 = a
          BY <3>2, <2>1, <1>1
      <4>. QED  BY <4>1, <3>2, <1>2
    <3>. QED  BY <3>1, <3>2
  <2>. QED  BY <2>1
<1>5. \A c, d \in 1 .. l - 1 : from(c) = from(d) => c = d
    BY <1>1
<1>. HIDE DEF from, to
<1>6. \A a \in BlockRecord : Kin(a, a, L)
    BY DEF Kin
<1>7. \A a \in DOMAIN old : old[a] \in BlockRecord
    BY ElementOfSeq, <1>1 DEF l
<1>8. \A c \in DOMAIN new : \E a \in DOMAIN old : Kin(old[a], new[c], L)
    BY <1>1, <1>2, <1>3, <1>6, <1>7
<1>9. SoundSection(s, new, L)
    BY <1>8, SoundOfOld
<1>10. \A a \in DOMAIN old : a # at => \E c \in DOMAIN new : Kin(old[a], new[c], L)
    BY <1>1, <1>2, <1>4, <1>6, <1>7
<1>11. SectionStep(s, old, new, {old[at].born}, L)
    BY <1>2, <1>8, <1>9, <1>10 DEF SectionStep
<1>12. DistinctIn(old) => DistinctIn(new)
    BY <1>1, <1>2, <1>3, <1>5 DEF DistinctIn
<1>. QED  BY <1>11, <1>12 DEF new

\* A nonempty set of numbers up to a bound has a greatest one.
LEMMA Greatest ==
    ASSUME NEW m \in Nat, NEW S, S \subseteq 1 .. m, S # {}
    PROVE  \E k \in S : \A j \in S : j <= k
<1>. DEFINE T == {m - j : j \in S}
<1>1. T \subseteq Nat /\ T # {}
  <2>1. \A j \in S : m - j \in Nat
      OBVIOUS
  <2>2. PICK j \in S : TRUE
      OBVIOUS
  <2>3. m - j \in T
      BY <2>2
  <2>. QED  BY <2>1, <2>3
<1>2. PICK d \in T : \A e \in T : d <= e
  <2>. HIDE DEF T
  <2>. QED  BY <1>1, Least
<1>3. PICK k \in S : d = m - k
    BY <1>2
<1>4. ASSUME NEW j \in S PROVE j <= k
  <2>1. d <= m - j /\ j \in 1 .. m /\ k \in 1 .. m
      BY <1>2
  <2>. QED  BY <2>1, <1>3
<1>. QED  BY <1>4

\* The listed blocks first, then the others: each block of the section is in one part.
LEMMA ReorderedSection ==
    ASSUME NEW s, NEW old \in Seq(BlockRecord), NEW L, SoundSection(s, old, L),
           NEW order \in Seq(Nat \X Nat)
    PROVE  LET has(i) == \E b \in DOMAIN old : old[b].id = i
               block(i) == old[CHOOSE b \in DOMAIN old :
                                 old[b].id = i /\ \A d \in DOMAIN old : old[d].id = i => d <= b]
               listed == Kept(order, {n \in DOMAIN order : has(order[n])})
               rest   == Kept(old, {b \in DOMAIN old : old[b].id \notin Range(order)})
               new    == [n \in DOMAIN listed |-> block(listed[n])] \o rest
           IN /\ SectionStep(s, old, new, {}, L)
              /\ DistinctIn(old) /\ IsInjective(order) => DistinctIn(new)
<1>. DEFINE has(i) == \E b \in DOMAIN old : old[b].id = i
            last(i) == CHOOSE b \in DOMAIN old :
                         old[b].id = i /\ \A d \in DOMAIN old : old[d].id = i => d <= b
            named == {n \in DOMAIN order : has(order[n])}
            others == {b \in DOMAIN old : old[b].id \notin Range(order)}
            listed == Kept(order, named)
            rest   == Kept(old, others)
            first == [n \in DOMAIN listed |-> old[last(listed[n])]]
            new == first \o rest
<1>1. /\ DOMAIN old = 1 .. Len(old) /\ Len(old) \in Nat
      /\ \A a \in DOMAIN old : old[a] \in BlockRecord
    BY ElementOfSeq
<1>2. ASSUME NEW i, has(i) PROVE last(i) \in DOMAIN old /\ old[last(i)].id = i
  <2>. DEFINE S == {b \in DOMAIN old : old[b].id = i}
  <2>1. S # {} /\ S \subseteq 1 .. Len(old)
      BY <1>1, <1>2
  <2>2. PICK b \in S : \A d \in S : d <= b
    <3>. HIDE DEF S
    <3>. QED  BY <2>1, <1>1, Greatest
  <2>3. \E c \in DOMAIN old : old[c].id = i /\ \A d \in DOMAIN old : old[d].id = i => d <= c
      BY <2>2
  <2>. QED  BY <2>3
<1>. HIDE DEF last
<1>3. /\ listed \in Seq(Nat \X Nat)
      /\ \E pos : Lists(pos, listed, order, named)
  <2>1. named \subseteq DOMAIN order
      OBVIOUS
  <2>. HIDE DEF named
  <2>. QED  BY <2>1, KeptMembers
<1>4. /\ rest \in Seq(BlockRecord)
      /\ \E pos : Lists(pos, rest, old, others)
  <2>1. others \subseteq DOMAIN old
      OBVIOUS
  <2>. HIDE DEF others
  <2>. QED  BY <2>1, KeptMembers
<1>5. PICK pos : Lists(pos, listed, order, named)
    BY <1>3
<1>6. PICK stay : Lists(stay, rest, old, others)
    BY <1>4
<1>. HIDE DEF listed, rest
<1>. DEFINE l == Len(listed)
            r == Len(rest)
<1>7. /\ l \in Nat /\ r \in Nat /\ DOMAIN listed = 1 .. l /\ DOMAIN rest = 1 .. r
      /\ DOMAIN order = 1 .. Len(order) /\ Len(order) \in Nat
    BY <1>3, <1>4
<1>8. \A n \in 1 .. l : pos[n] \in named /\ listed[n] = order[pos[n]] /\ has(listed[n])
  <2>1. ASSUME NEW n \in 1 .. l
        PROVE  pos[n] \in named /\ listed[n] = order[pos[n]] /\ has(listed[n])
    <3>1. pos[n] \in named /\ listed[n] = order[pos[n]]
      <4>. HIDE DEF named
      <4>. QED  BY <1>5, <2>1 DEF Lists
    <3>2. has(order[pos[n]])
        BY <3>1
    <3>. QED  BY <3>1, <3>2
  <2>. QED  BY <2>1
<1>9. \A n \in 1 .. l : last(listed[n]) \in DOMAIN old /\ old[last(listed[n])].id = listed[n]
    BY <1>2, <1>8
<1>10. first \in Seq(BlockRecord) /\ Len(first) = l
       /\ \A n \in 1 .. l : first[n] = old[last(listed[n])]
  <2>1. \A n \in 1 .. l : first[n] \in BlockRecord /\ first[n] = old[last(listed[n])]
      BY <1>1, <1>7, <1>9
  <2>2. first \in [1 .. l -> BlockRecord]
      BY <2>1, <1>7
  <2>. HIDE DEF first
  <2>. QED  BY <2>1, <2>2, <1>7
<1>. HIDE DEF first
<1>11. /\ new \in Seq(BlockRecord) /\ DOMAIN new = 1 .. l + r
       /\ \A i \in 1 .. l + r : new[i] = IF i <= l THEN first[i] ELSE rest[i - l]
  <2>1. /\ new \in Seq(BlockRecord) /\ Len(new) = Len(first) + r
        /\ \A i \in 1 .. Len(first) + r :
              new[i] = IF i <= Len(first) THEN first[i] ELSE rest[i - Len(first)]
      BY <1>4, <1>10, ConcatProperties
  <2>. HIDE DEF new, l, r
  <2>. QED  BY <2>1, <1>10
<1>. HIDE DEF new
<1>12. \A n \in 1 .. l : new[n] = old[last(listed[n])] /\ new[n].id = listed[n]
  <2>1. ASSUME NEW n \in 1 .. l PROVE new[n] = first[n]
    <3>1. n \in 1 .. l + r /\ n <= l
        BY <1>7
    <3>. QED  BY <3>1, <1>11
  <2>. QED  BY <2>1, <1>9, <1>10
<1>13. \A n \in 1 .. r : /\ l + n \in 1 .. l + r /\ new[l + n] = rest[n]
                         /\ rest[n] = old[stay[n]] /\ stay[n] \in others
  <2>1. ASSUME NEW n \in 1 .. r PROVE l + n \in 1 .. l + r /\ new[l + n] = rest[n]
    <3>1. l + n \in 1 .. l + r /\ ~(l + n <= l) /\ l + n - l = n
        BY <1>7
    <3>. QED  BY <3>1, <1>11
  <2>. QED  BY <2>1, <1>6 DEF Lists
<1>14. \A c \in 1 .. l + r : c \in 1 .. l \/ \E n \in 1 .. r : c = l + n
  <2>1. ASSUME NEW c \in 1 .. l + r, c \notin 1 .. l PROVE \E n \in 1 .. r : c = l + n
    <3>1. c - l \in 1 .. r /\ c = l + (c - l)
        BY <2>1, <1>7
    <3>. QED  BY <3>1
  <2>. QED  BY <2>1
<1>. HIDE DEF l, r
<1>15. \A a \in BlockRecord : Kin(a, a, L)
    BY DEF Kin
<1>16. ASSUME NEW c \in DOMAIN new PROVE \E a \in DOMAIN old : Kin(old[a], new[c], L)
  <2>1. CASE c \in 1 .. l
      BY <2>1, <1>1, <1>9, <1>12, <1>15
  <2>2. CASE \E n \in 1 .. r : c = l + n
      BY <2>2, <1>1, <1>13, <1>15
  <2>. QED  BY <2>1, <2>2, <1>11, <1>14
<1>17. SoundSection(s, new, L)
    BY <1>16, SoundOfOld
<1>18. ASSUME NEW a \in DOMAIN old PROVE \E c \in DOMAIN new : Kin(old[a], new[c], L)
  <2>1. CASE a \in others
    <3>1. PICK n \in 1 .. r : stay[n] = a
        BY <2>1, <1>6 DEF Lists, r
    <3>. QED  BY <3>1, <1>1, <1>11, <1>13, <1>15
  <2>2. CASE a \notin others
    <3>1. PICK n \in DOMAIN order : order[n] = old[a].id
        BY <2>2 DEF Range
    <3>2. n \in named
        BY <3>1
    <3>3. PICK k \in 1 .. l : pos[k] = n
        BY <3>2, <1>5 DEF Lists, l
    <3>4. new[k].id = old[a].id /\ last(listed[k]) \in DOMAIN old /\ new[k] = old[last(listed[k])]
        BY <3>1, <3>3, <1>8, <1>9, <1>12
    <3>5. Kin(old[a], new[k], L)
        BY <3>4 DEF SoundSection
    <3>6. k \in 1 .. l + r
        BY <1>7, <3>3
    <3>. QED  BY <3>5, <3>6, <1>11
  <2>. QED  BY <2>1, <2>2
<1>19. SectionStep(s, old, new, {}, L)
    BY <1>11, <1>16, <1>17, <1>18 DEF SectionStep
<1>20. ASSUME DistinctIn(old), IsInjective(order) PROVE DistinctIn(new)
  <2>1. ASSUME NEW m \in 1 .. l, NEW n \in 1 .. l, new[m].id = new[n].id PROVE m = n
    <3>1. order[pos[m]] = order[pos[n]] /\ pos[m] \in DOMAIN order /\ pos[n] \in DOMAIN order
        BY <2>1, <1>8, <1>12
    <3>2. pos[m] = pos[n] /\ pos[m] \in Nat
        BY <3>1, <1>7, <1>20 DEF IsInjective
    <3>3. ~(m < n) /\ ~(n < m)
        BY <3>2, <1>5 DEF Lists, l
    <3>. QED  BY <3>3, <1>7
  <2>2. ASSUME NEW m \in 1 .. r, NEW n \in 1 .. r, new[l + m].id = new[l + n].id PROVE m = n
    <3>1. stay[m] = stay[n] /\ stay[m] \in Nat
        BY <2>2, <1>1, <1>13, <1>20 DEF DistinctIn
    <3>2. ~(m < n) /\ ~(n < m)
        BY <3>1, <1>6 DEF Lists, r
    <3>. QED  BY <3>2, <1>7
  <2>3. ASSUME NEW m \in 1 .. l, NEW n \in 1 .. r PROVE new[m].id # new[l + n].id
    <3>1. new[m].id \in Range(order)
        BY <1>8, <1>12 DEF Range
    <3>2. new[l + n].id \notin Range(order)
        BY <1>13
    <3>. QED  BY <3>1, <3>2
  <2>4. ASSUME NEW a \in DOMAIN new, NEW b \in DOMAIN new, new[a].id = new[b].id PROVE a = b
    <3>1. a \in 1 .. l \/ \E n \in 1 .. r : a = l + n
        BY <1>11, <1>14
    <3>2. b \in 1 .. l \/ \E n \in 1 .. r : b = l + n
        BY <1>11, <1>14
    <3>. QED  BY <2>1, <2>2, <2>3, <2>4, <3>1, <3>2
  <2>. QED  BY <2>4 DEF DistinctIn
<1>. QED  BY <1>19, <1>20 DEF new, first, listed, rest, last

----------------------------------------------------------------------------
(* What an operation does to a payload.                                    *)

Twin(a, b) == a.id = b.id /\ a.born = b.born

\* Payload p becomes q: the blocks stay the blocks they were, those that go were born as
\* gone says, new ones have new ids, and the tally holds if it did.
PayloadStep(p, q, gone, L) ==
    /\ q \in Payload /\ Sound(q, L) /\ (Tallied(p, L) => Tallied(q, L))
    /\ \A x \in Places(p) : \/ \E y \in Places(q) : Twin(Block(p, x), Block(q, y))
                            \/ Block(p, x).born \in gone
    /\ \A y \in Places(q) : \/ \E x \in Places(p) : Twin(Block(p, x), Block(q, y))
                            \/ Block(q, y).id \notin Ids(p)

\* An operation that does not fit changes nothing.
LEMMA StayedPut ==
    ASSUME NEW p \in Payload, NEW gone, NEW L, Sound(p, L)
    PROVE  PayloadStep(p, p, gone, L)
BY DEF PayloadStep, Twin

\* Blocks that stand in different sections have different ids.
LEMMA SameSection ==
    ASSUME NEW p, NEW L, Sound(p, L), NEW x \in Places(p), NEW y \in Places(p),
           Block(p, x).id = Block(p, y).id
    PROVE  x[1] = y[1] /\ Block(p, x).born = Block(p, y).born
<1>1. Block(p, x).id[1] = x[1] /\ Block(p, y).id[1] = y[1]
    BY AtPlace DEF Sound, SoundSection
<1>2. x[1] = y[1]
    BY <1>1
<1>. QED  BY <1>2, AtPlace DEF Sound, SoundSection, Kin

\* What happens to one section happens to the payload.
LEMMA WithSectionStep ==
    ASSUME NEW p \in Payload, NEW L, Sound(p, L), NEW s \in DOMAIN p.secs, NEW gone,
           NEW new, SectionStep(s, p.secs[s], new, gone, L)
    PROVE  /\ PayloadStep(p, WithSection(p, s, new), gone, L)
           /\ Distinct(p) /\ DistinctIn(new) => Distinct(WithSection(p, s, new))
           /\ WithSection(p, s, new).parties = p.parties
<1>. DEFINE q == WithSection(p, s, new)
            old == p.secs[s]
<1>1. new \in Seq(BlockRecord)
    BY DEF SectionStep
<1>2. /\ q.secs = [p.secs EXCEPT ![s] = new] /\ q.missing = p.missing /\ q.parties = p.parties
      /\ q \in Payload
  <2>1. [p.secs EXCEPT ![s] = new] \in Seq(Seq(BlockRecord))
      BY <1>1, Parts, ExceptSeq
  <2>. QED  BY <2>1 DEF WithSection, Payload
<1>. HIDE DEF q
<1>3. /\ DOMAIN q.secs = DOMAIN p.secs /\ q.secs[s] = new
      /\ \A n \in DOMAIN p.secs : n # s => q.secs[n] = p.secs[n]
    BY <1>2
<1>4. Sound(q, L)
    BY <1>3 DEF Sound, SectionStep
<1>5. ASSUME NEW x \in Places(p)
      PROVE  \/ \E y \in Places(q) : Kin(Block(p, x), Block(q, y), L)
             \/ Block(p, x).born \in gone /\ Block(p, x).tokens \subseteq L
  <2>1. x[1] \in DOMAIN p.secs /\ x[2] \in DOMAIN p.secs[x[1]] /\ Block(p, x) = p.secs[x[1]][x[2]]
      BY AtPlace
  <2>2. CASE x[1] # s
    <3>1. <<x[1], x[2]>> \in Places(q) /\ Block(q, <<x[1], x[2]>>) = Block(p, x)
        BY <2>1, <2>2, <1>3, PlaceHere
    <3>. QED  BY <3>1 DEF Kin
  <2>3. CASE x[1] = s /\ ~(Block(p, x).born \in gone /\ Block(p, x).tokens \subseteq L)
    <3>1. PICK c \in DOMAIN new : Kin(Block(p, x), new[c], L)
        BY <2>1, <2>3 DEF SectionStep
    <3>2. <<s, c>> \in Places(q) /\ Block(q, <<s, c>>) = new[c]
        BY <1>3, PlaceHere
    <3>. QED  BY <3>1, <3>2
  <2>. QED  BY <2>2, <2>3
<1>6. ASSUME NEW y \in Places(q)
      PROVE  \/ \E x \in Places(p) : Kin(Block(p, x), Block(q, y), L)
             \/ Block(q, y).id \notin Ids(p) /\ Block(q, y).tokens \subseteq L
  <2>1. y[1] \in DOMAIN q.secs /\ y[2] \in DOMAIN q.secs[y[1]] /\ Block(q, y) = q.secs[y[1]][y[2]]
      BY AtPlace
  <2>2. CASE y[1] # s
    <3>1. <<y[1], y[2]>> \in Places(p) /\ Block(p, <<y[1], y[2]>>) = Block(q, y)
        BY <2>1, <2>2, <1>3, PlaceHere
    <3>. QED  BY <3>1 DEF Kin
  <2>3. CASE y[1] = s
    <3>1. y[2] \in DOMAIN new /\ Block(q, y) = new[y[2]]
        BY <2>1, <2>3, <1>3
    <3>2. CASE \E a \in DOMAIN old : Kin(old[a], new[y[2]], L)
        BY <3>1, <3>2, PlaceHere
    <3>3. CASE /\ \A a \in DOMAIN old : old[a].id # new[y[2]].id
               /\ new[y[2]].tokens \subseteq L
      <4>1. new[y[2]].id[1] = s
          BY <3>1 DEF SectionStep, SoundSection
      <4>2. ASSUME NEW x \in Places(p), Block(p, x).id = new[y[2]].id PROVE FALSE
        <5>1. x[1] \in DOMAIN p.secs /\ x[2] \in DOMAIN p.secs[x[1]]
              /\ Block(p, x) = p.secs[x[1]][x[2]]
            BY AtPlace
        <5>2. Block(p, x).id[1] = x[1]
            BY <5>1 DEF Sound, SoundSection
        <5>3. x[1] = s
            BY <5>2, <4>1, <4>2
        <5>. QED  BY <5>1, <5>3, <4>2, <3>3
      <4>. QED  BY <4>2, <3>1, <3>3 DEF Ids
    <3>. QED  BY <3>1, <3>2, <3>3 DEF SectionStep
  <2>. QED  BY <2>2, <2>3
<1>7. \A l : l \notin L => (l \in Tokens(p) <=> l \in Tokens(q))
  <2>1. ASSUME NEW l, l \notin L, l \in Tokens(p) PROVE l \in Tokens(q)
    <3>1. PICK x \in Places(p) : l \in Block(p, x).tokens
        BY <2>1 DEF Tokens
    <3>2. PICK y \in Places(q) : Kin(Block(p, x), Block(q, y), L)
        BY <2>1, <3>1, <1>5
    <3>. QED  BY <2>1, <3>1, <3>2 DEF Tokens, Kin
  <2>2. ASSUME NEW l, l \notin L, l \in Tokens(q) PROVE l \in Tokens(p)
    <3>1. PICK y \in Places(q) : l \in Block(q, y).tokens
        BY <2>2 DEF Tokens
    <3>2. PICK x \in Places(p) : Kin(Block(p, x), Block(q, y), L)
        BY <2>2, <3>1, <1>6
    <3>. QED  BY <2>2, <3>1, <3>2 DEF Tokens, Kin
  <2>. QED  BY <2>1, <2>2
<1>8. Tallied(p, L) => Tallied(q, L)
    BY <1>2, <1>7 DEF Tallied
<1>9. PayloadStep(p, q, gone, L)
    BY <1>2, <1>4, <1>5, <1>6, <1>8 DEF PayloadStep, Kin, Twin
<1>10. Distinct(p) /\ DistinctIn(new) => Distinct(q)
    BY <1>3 DEF Distinct
<1>. QED  BY <1>2, <1>9, <1>10 DEF q

\* The operations, whatever canvas their author saw.
Pairs  == Nat \X Nat
AnyOps == [op : {"edit"}, id : Pairs, tokens : SUBSET Labels]
          \cup [op : {"add"}, after : Pairs \cup {<<>>}, sec : Nat, tokens : SUBSET Labels]
          \cup [op : {"delete"}, id : Pairs]
          \cup [op : {"reorder"}, sec : Nat, order : Seq(Pairs)]
          \cup FillOps

\* What an operation that fits does (the order of a reorder may list an id twice).
OpStep(p, q, op, gone, L) ==
    /\ PayloadStep(p, q, gone, L)
    /\ Distinct(p) /\ (op.op = "reorder" => IsInjective(op.order)) => Distinct(q)
    /\ op.op # "parties" => q.parties = p.parties

\* edit: by a text or, after a feedback, by the text the model writes.
LEMMA SetTextStep ==
    ASSUME NEW p \in Payload, NEW L, Sound(p, L), NEW id \in Ids(p),
           NEW tokens \in SUBSET Labels, tokens \subseteq L,
           Block(p, Find(p, id)).tokens \subseteq L
    PROVE  /\ PayloadStep(p, SetText(p, id, tokens), {}, L)
           /\ Distinct(p) => Distinct(SetText(p, id, tokens))
           /\ SetText(p, id, tokens).parties = p.parties
<1>. DEFINE s == Find(p, id)[1]
            b == Find(p, id)[2]
            new == [p.secs[s] EXCEPT ![b].tokens = tokens]
<1>1. /\ s \in DOMAIN p.secs /\ b \in DOMAIN p.secs[s]
      /\ Block(p, Find(p, id)) = p.secs[s][b]
    BY FindFinds, AtPlace
<1>2. SetText(p, id, tokens) = WithSection(p, s, new)
    BY DEF SetText, WithSection
<1>3. p.secs[s] \in Seq(BlockRecord) /\ SoundSection(s, p.secs[s], L)
    BY <1>1, Parts DEF Sound
<1>. HIDE DEF s, b
<1>4. SectionStep(s, p.secs[s], new, {}, L) /\ (DistinctIn(p.secs[s]) => DistinctIn(new))
    BY <1>1, <1>3, EditedSection
<1>. HIDE DEF new
<1>5. Distinct(p) => DistinctIn(new)
    BY <1>1, <1>4 DEF Distinct
<1>. QED  BY <1>1, <1>2, <1>4, <1>5, WithSectionStep

\* add_block.
LEMMA AddBlockStep ==
    ASSUME NEW p \in Payload, NEW L, Sound(p, L), p.secs # <<>>,
           NEW op, op.tokens \in SUBSET Labels, op.tokens \subseteq L, NEW born \in Births
    PROVE  /\ PayloadStep(p, AddBlock(p, op, born), {}, L)
           /\ Distinct(p) => Distinct(AddBlock(p, op, born))
           /\ AddBlock(p, op, born).parties = p.parties
<1>. DEFINE s  == AddSection(p, op)
            old == p.secs[s]
            at == IF op.after \in Ids(p) THEN Find(p, op.after)[2] + 1 ELSE Len(old) + 1
            e == [id |-> NextId(p, s), born |-> born, tokens |-> op.tokens]
            new == InsertAt(old, at, e)
<1>0. Len(p.secs) \in Nat /\ DOMAIN p.secs = 1 .. Len(p.secs) /\ Len(p.secs) # 0
  <2>1. p.secs \in Seq(Seq(BlockRecord))
      BY Parts
  <2>. QED  BY <2>1
<1>1. s \in DOMAIN p.secs
    BY <1>0, FindFinds, AtPlace DEF AddSection
<1>2. old \in Seq(BlockRecord) /\ SoundSection(s, old, L) /\ Len(old) \in Nat
      /\ DOMAIN old = 1 .. Len(old)
    BY <1>1, Parts DEF Sound
<1>3. at \in 1 .. Len(old) + 1
  <2>1. CASE op.after \in Ids(p)
    <3>1. s = Find(p, op.after)[1]
        BY <2>1 DEF AddSection
    <3>2. Find(p, op.after)[2] \in 1 .. Len(old)
        BY <2>1, <3>1, <1>2, FindFinds, AtPlace
    <3>. HIDE DEF old
    <3>. QED  BY <2>1, <3>2, <1>2
  <2>2. CASE op.after \notin Ids(p)
      BY <2>2, <1>2
  <2>. QED  BY <2>1, <2>2
<1>4. e \in BlockRecord /\ e.id[1] = s /\ e.tokens = op.tokens
      /\ \A b \in DOMAIN old : old[b].id # e.id
    BY <1>1, NextIdIsFree DEF BlockRecord
<1>5. AddBlock(p, op, born) = WithSection(p, s, new)
    BY DEF AddBlock
<1>. HIDE DEF s, at, e
<1>6. SectionStep(s, old, new, {}, L) /\ (DistinctIn(old) => DistinctIn(new))
    BY <1>2, <1>3, <1>4, LongerSection
<1>. HIDE DEF new
<1>7. Distinct(p) => DistinctIn(new)
    BY <1>1, <1>6 DEF Distinct
<1>. QED  BY <1>1, <1>5, <1>6, <1>7, WithSectionStep

\* delete_block.
LEMMA DeleteBlockStep ==
    ASSUME NEW p \in Payload, NEW L, Sound(p, L), NEW id \in Ids(p),
           Block(p, Find(p, id)).tokens \subseteq L
    PROVE  /\ PayloadStep(p, DeleteBlock(p, id), {Block(p, Find(p, id)).born}, L)
           /\ Distinct(p) => Distinct(DeleteBlock(p, id))
           /\ DeleteBlock(p, id).parties = p.parties
<1>. DEFINE s == Find(p, id)[1]
            b == Find(p, id)[2]
            new == RemoveAt(p.secs[s], b)
<1>1. /\ s \in DOMAIN p.secs /\ b \in DOMAIN p.secs[s]
      /\ Block(p, Find(p, id)) = p.secs[s][b]
    BY FindFinds, AtPlace
<1>2. DeleteBlock(p, id) = WithSection(p, s, new)
    BY DEF DeleteBlock
<1>3. p.secs[s] \in Seq(BlockRecord) /\ SoundSection(s, p.secs[s], L)
    BY <1>1, Parts DEF Sound
<1>. HIDE DEF s, b
<1>4. SectionStep(s, p.secs[s], new, {p.secs[s][b].born}, L)
      /\ (DistinctIn(p.secs[s]) => DistinctIn(new))
    BY <1>1, <1>3, ShorterSection
<1>. HIDE DEF new
<1>5. Distinct(p) => DistinctIn(new)
    BY <1>1, <1>4 DEF Distinct
<1>. QED  BY <1>1, <1>2, <1>4, <1>5, WithSectionStep

\* reorder_blocks.
LEMMA ReorderStep ==
    ASSUME NEW p \in Payload, NEW L, Sound(p, L), NEW op, op.order \in Seq(Pairs),
           ReorderSection(p, op) # {}
    PROVE  /\ PayloadStep(p, Reorder(p, op), {}, L)
           /\ Distinct(p) /\ IsInjective(op.order) => Distinct(Reorder(p, op))
           /\ Reorder(p, op).parties = p.parties
<1>. DEFINE s == CHOOSE n \in ReorderSection(p, op) : TRUE
            old == p.secs[s]
            has(i) == \E b \in DOMAIN old : old[b].id = i
            block(i) == old[CHOOSE b \in DOMAIN old :
                              old[b].id = i /\ \A d \in DOMAIN old : old[d].id = i => d <= b]
            listed == Kept(op.order, {n \in DOMAIN op.order : has(op.order[n])})
            rest   == Kept(old, {b \in DOMAIN old : old[b].id \notin Range(op.order)})
            new == [n \in DOMAIN listed |-> block(listed[n])] \o rest
<1>1. s \in DOMAIN p.secs
  <2>1. s \in ReorderSection(p, op)
      OBVIOUS
  <2>. HIDE DEF s
  <2>. QED  BY <2>1, FindFinds, AtPlace DEF ReorderSection
<1>2. Reorder(p, op) = WithSection(p, s, new)
    BY DEF Reorder
<1>. HIDE DEF s
<1>3. old \in Seq(BlockRecord) /\ SoundSection(s, old, L)
    BY <1>1, Parts DEF Sound
<1>4. /\ SectionStep(s, old, new, {}, L)
      /\ DistinctIn(old) /\ IsInjective(op.order) => DistinctIn(new)
  <2>1. op.order \in Seq(Nat \X Nat)
      BY DEF Pairs
  <2>. QED  BY <2>1, <1>3, ReorderedSection
<1>. HIDE DEF new
<1>5. Distinct(p) /\ IsInjective(op.order) => DistinctIn(new)
    BY <1>1, <1>4 DEF Distinct
<1>. QED  BY <1>1, <1>2, <1>4, <1>5, WithSectionStep

\* fill_terms.
LEMMA FillTermsStep ==
    ASSUME NEW p \in Payload, NEW L, Sound(p, L), NEW labels \in SUBSET Labels
    PROVE  /\ PayloadStep(p, FillTerms(p, labels), {}, L)
           /\ Distinct(p) => Distinct(FillTerms(p, labels))
           /\ FillTerms(p, labels).parties = p.parties
<1>. DEFINE q == FillTerms(p, labels)
            Filled(b) == [b EXCEPT !.tokens = b.tokens \ labels]
            Row(r) == [b \in DOMAIN r |-> Filled(r[b])]
<1>1. /\ q.missing = p.missing \ labels /\ q.parties = p.parties
      /\ q.secs = [s \in DOMAIN p.secs |-> Row(p.secs[s])]
      /\ q = [secs |-> q.secs, missing |-> q.missing, parties |-> q.parties]
  <2>1. p = [secs |-> p.secs, missing |-> p.missing, parties |-> p.parties]
      BY DEF Payload
  <2>. DEFINE filled == [s \in DOMAIN p.secs |-> Row(p.secs[s])]
  <2>2. q = [p EXCEPT !.missing = p.missing \ labels, !.secs = filled]
      BY DEF FillTerms
  <2>. HIDE DEF q, filled
  <2>3. q.missing = p.missing \ labels /\ q.parties = p.parties /\ q.secs = filled
        /\ q = [secs |-> q.secs, missing |-> q.missing, parties |-> q.parties]
      BY <2>1, <2>2
  <2>. QED  BY <2>3 DEF filled
<1>. HIDE DEF q
<1>2. ASSUME NEW b \in BlockRecord
      PROVE  /\ Filled(b) \in BlockRecord /\ Filled(b).id = b.id /\ Filled(b).born = b.born
             /\ Filled(b).tokens = b.tokens \ labels
    BY <1>2 DEF BlockRecord
<1>. HIDE DEF Filled
<1>3. ASSUME NEW r \in Seq(BlockRecord)
      PROVE  /\ Row(r) \in Seq(BlockRecord) /\ DOMAIN Row(r) = DOMAIN r
             /\ \A b \in DOMAIN r : Row(r)[b] = Filled(r[b])
  <2>1. \A b \in 1 .. Len(r) : Filled(r[b]) \in BlockRecord
      BY <1>2, <1>3, ElementOfSeq
  <2>2. Row(r) \in [1 .. Len(r) -> BlockRecord] /\ Len(r) \in Nat /\ DOMAIN r = 1 .. Len(r)
      BY <2>1, <1>3
  <2>. QED  BY <2>2
<1>4. q.secs \in Seq(Seq(BlockRecord)) /\ DOMAIN q.secs = DOMAIN p.secs
      /\ \A s \in DOMAIN p.secs : q.secs[s] = Row(p.secs[s])
  <2>. HIDE DEF Row
  <2>1. /\ Len(p.secs) \in Nat /\ DOMAIN p.secs = 1 .. Len(p.secs)
        /\ \A s \in DOMAIN p.secs : p.secs[s] \in Seq(BlockRecord)
      BY Parts
  <2>2. \A s \in 1 .. Len(p.secs) : Row(p.secs[s]) \in Seq(BlockRecord)
      BY <2>1, <1>3
  <2>3. q.secs \in [1 .. Len(p.secs) -> Seq(BlockRecord)]
      BY <1>1, <2>1, <2>2
  <2>. QED  BY <1>1, <2>1, <2>3
<1>. HIDE DEF Row
<1>5. q \in Payload
  <2>1. p.missing \ labels \subseteq Labels
      BY Parts
  <2>. QED  BY <1>1, <1>4, <2>1, Parts DEF Payload
<1>6. ASSUME NEW s \in DOMAIN p.secs
      PROVE  /\ DOMAIN q.secs[s] = DOMAIN p.secs[s]
             /\ \A b \in DOMAIN p.secs[s] :
                   /\ q.secs[s][b].id = p.secs[s][b].id /\ q.secs[s][b].born = p.secs[s][b].born
                   /\ q.secs[s][b].tokens = p.secs[s][b].tokens \ labels
  <2>1. p.secs[s] \in Seq(BlockRecord) /\ \A b \in DOMAIN p.secs[s] : p.secs[s][b] \in BlockRecord
      BY Parts
  <2>2. q.secs[s] = Row(p.secs[s])
      BY <1>4
  <2>3. DOMAIN q.secs[s] = DOMAIN p.secs[s]
        /\ \A b \in DOMAIN p.secs[s] : q.secs[s][b] = Filled(p.secs[s][b])
      BY <2>1, <2>2, <1>3
  <2>. QED  BY <2>1, <2>3, <1>2
<1>7. Places(q) = Places(p)
  <2>1. \A x : x \in Places(q) <=> x \in Places(p)
      BY <1>4, <1>6, PlaceOf
  <2>. QED  BY <2>1
<1>8. ASSUME NEW x \in Places(p)
      PROVE  /\ Block(q, x).id = Block(p, x).id /\ Block(q, x).born = Block(p, x).born
             /\ Block(q, x).tokens = Block(p, x).tokens \ labels
  <2>1. /\ x[1] \in DOMAIN p.secs /\ x[2] \in DOMAIN p.secs[x[1]]
        /\ Block(p, x) = p.secs[x[1]][x[2]] /\ Block(q, x) = q.secs[x[1]][x[2]]
      BY <1>7, AtPlace
  <2>. QED  BY <2>1, <1>6
<1>9. Sound(q, L)
  <2>1. ASSUME NEW s \in DOMAIN p.secs PROVE SoundSection(s, q.secs[s], L)
    <3>1. SoundSection(s, p.secs[s], L)
        BY DEF Sound
    <3>2. \A b \in DOMAIN q.secs[s] : q.secs[s][b].id[1] = s
        BY <1>6, <3>1 DEF SoundSection
    <3>3. ASSUME NEW a \in DOMAIN q.secs[s], NEW b \in DOMAIN q.secs[s],
                 q.secs[s][a].id = q.secs[s][b].id
          PROVE  Kin(q.secs[s][a], q.secs[s][b], L)
      <4>1. Kin(p.secs[s][a], p.secs[s][b], L)
          BY <1>6, <3>1, <3>3 DEF SoundSection
      <4>. QED  BY <1>6, <4>1 DEF Kin
    <3>. QED  BY <3>2, <3>3 DEF SoundSection
  <2>. QED  BY <2>1, <1>4 DEF Sound
<1>10. \A l : l \in Tokens(q) <=> l \in Tokens(p) /\ l \notin labels
    BY <1>7, <1>8 DEF Tokens
<1>11. Tallied(p, L) => Tallied(q, L)
    BY <1>1, <1>10 DEF Tallied
<1>12. PayloadStep(p, q, {}, L)
    BY <1>5, <1>7, <1>8, <1>9, <1>11 DEF PayloadStep, Twin
<1>13. Distinct(p) => Distinct(q)
  <2>1. ASSUME Distinct(p), NEW s \in DOMAIN q.secs, NEW a \in DOMAIN q.secs[s],
               NEW b \in DOMAIN q.secs[s], q.secs[s][a].id = q.secs[s][b].id
        PROVE  a = b
      BY <2>1, <1>4, <1>6 DEF Distinct, DistinctIn
  <2>. QED  BY <2>1 DEF Distinct, DistinctIn
<1>. QED  BY <1>1, <1>12, <1>13 DEF q

\* A name that the user sets.
LEMMA PartiesStep ==
    ASSUME NEW p \in Payload, NEW L, Sound(p, L), NEW a \in Parties, NEW n \in Names \cup {Blank}
    PROVE  /\ PayloadStep(p, [p EXCEPT !.parties[a] = n], {}, L)
           /\ Distinct(p) => Distinct([p EXCEPT !.parties[a] = n])
           /\ [p EXCEPT !.parties[a] = n].parties = [p.parties EXCEPT ![a] = n]
<1>. DEFINE q == [p EXCEPT !.parties[a] = n]
<1>1. /\ q.secs = p.secs /\ q.missing = p.missing
      /\ q.parties = [p.parties EXCEPT ![a] = n] /\ q \in Payload
    BY DEF Payload
<1>. HIDE DEF q
<1>2. Places(q) = Places(p) /\ Tokens(q) = Tokens(p) /\ \A x : Block(q, x) = Block(p, x)
    BY <1>1 DEF Places, Tokens, Block
<1>3. Sound(q, L) /\ (Distinct(p) => Distinct(q)) /\ (Tallied(p, L) => Tallied(q, L))
    BY <1>1, <1>2 DEF Sound, Distinct, Tallied
<1>4. PayloadStep(p, q, {}, L)
    BY <1>1, <1>2, <1>3 DEF PayloadStep, Twin
<1>. QED  BY <1>1, <1>3, <1>4 DEF q

\* Every operation is such a step, for the labels it does not touch.
LEMMA ApplyStep ==
    ASSUME NEW p \in Payload, NEW L, Sound(p, L), NEW op \in AnyOps, NEW born \in Births,
           Touched(p, op) \subseteq L
    PROVE  OpStep(p, Apply(p, op, born), op, Deleted(p, op), L)
<1>1. CASE ~Fits(p, op)
  <2>1. Apply(p, op, born) = p
      BY <1>1 DEF Apply
  <2>. QED  BY <2>1, StayedPut DEF OpStep
<1>2. CASE Fits(p, op) /\ op.op = "edit"
  <2>1. /\ op.id \in Ids(p) /\ op.tokens \in SUBSET Labels
        /\ Apply(p, op, born) = SetText(p, op.id, op.tokens)
        /\ op.tokens \subseteq L /\ Block(p, Find(p, op.id)).tokens \subseteq L
        /\ Deleted(p, op) = {}
      BY <1>2 DEF Fits, Apply, AnyOps, FillOps, Touched, Deleted
  <2>. QED  BY <2>1, <1>2, SetTextStep DEF OpStep
<1>3. CASE Fits(p, op) /\ op.op = "add"
  <2>1. /\ p.secs # <<>> /\ op.tokens \in SUBSET Labels
        /\ Apply(p, op, born) = AddBlock(p, op, born)
        /\ op.tokens \subseteq L /\ Deleted(p, op) = {}
      BY <1>3 DEF Fits, Apply, AnyOps, FillOps, Touched, Deleted
  <2>. QED  BY <2>1, <1>3, AddBlockStep DEF OpStep
<1>4. CASE Fits(p, op) /\ op.op = "delete"
  <2>1. /\ op.id \in Ids(p)
        /\ Apply(p, op, born) = DeleteBlock(p, op.id)
        /\ Block(p, Find(p, op.id)).tokens \subseteq L
        /\ Deleted(p, op) = {Block(p, Find(p, op.id)).born}
      BY <1>4 DEF Fits, Apply, Touched, Deleted
  <2>. QED  BY <2>1, <1>4, DeleteBlockStep DEF OpStep
<1>5. CASE Fits(p, op) /\ op.op = "reorder"
  <2>1. /\ ReorderSection(p, op) # {} /\ op.order \in Seq(Pairs)
        /\ Apply(p, op, born) = Reorder(p, op) /\ Deleted(p, op) = {}
      BY <1>5 DEF Fits, Apply, AnyOps, FillOps, Deleted
  <2>. QED  BY <2>1, <1>5, ReorderStep DEF OpStep
<1>6. CASE Fits(p, op) /\ op.op = "terms"
  <2>1. /\ op.labels \in SUBSET Labels
        /\ Apply(p, op, born) = FillTerms(p, op.labels) /\ Deleted(p, op) = {}
      BY <1>6 DEF Apply, AnyOps, FillOps, Deleted
  <2>. QED  BY <2>1, <1>6, FillTermsStep DEF OpStep
<1>7. CASE Fits(p, op) /\ op.op = "parties"
  <2>1. /\ op.party \in Parties /\ op.name \in Names \cup {Blank}
        /\ Apply(p, op, born) = [p EXCEPT !.parties[op.party] = op.name] /\ Deleted(p, op) = {}
      BY <1>7 DEF Apply, AnyOps, FillOps, Deleted
  <2>. QED  BY <2>1, <1>7, PartiesStep DEF OpStep
<1>8. op.op \in {"edit", "add", "delete", "reorder", "terms", "parties"}
    BY DEF AnyOps, FillOps
<1>. QED  BY <1>1, <1>2, <1>3, <1>4, <1>5, <1>6, <1>7, <1>8

----------------------------------------------------------------------------
(* Batches and drafts.                                                     *)

\* Block ids are pairs; the empty id names no block.
LEMMA IdsArePairs ==
    ASSUME NEW p \in Payload
    PROVE  Ids(p) \subseteq Pairs /\ <<>> \notin Ids(p)
<1>1. ASSUME NEW x \in Places(p) PROVE Block(p, x).id \in Pairs
  <2>1. Block(p, x) \in BlockRecord
      BY AtPlace, Parts
  <2>. QED  BY <2>1 DEF BlockRecord, Pairs
<1>2. Ids(p) \subseteq Pairs
    BY <1>1 DEF Ids
<1>. QED  BY <1>2 DEF Pairs

\* What a batch is: operations that name blocks in view; only a batch of one sets a name.
LEMMA BatchOps ==
    ASSUME NEW v \in Payload, NEW ops \in Batches(v)
    PROVE  /\ ops \in Seq(AnyOps) /\ Len(ops) \in Nat /\ Len(ops) > 0
           /\ \A i \in 1 .. Len(ops) : /\ ops[i] \in AnyOps
                                       /\ Aims(ops[i]) \subseteq Ids(v) \cup {<<>>}
                                       /\ i # 1 => ops[1].op # "parties" /\ ops[i].op # "parties"
<1>. DEFINE One == EditOps(v) \cup AddOps(v) \cup DeleteOps(v) \cup ReorderOps(v) \cup FillOps
<1>0. Ids(v) \subseteq Pairs /\ DOMAIN v.secs \subseteq Nat
    BY IdsArePairs, Parts
<1>1. /\ \A o \in EditOps(v) : o \in AnyOps /\ Aims(o) \subseteq Ids(v) /\ o.op = "edit"
      /\ \A o \in DeleteOps(v) : o \in AnyOps /\ Aims(o) \subseteq Ids(v) /\ o.op = "delete"
    BY <1>0 DEF EditOps, DeleteOps, AnyOps, Aims
<1>2. \A o \in AddOps(v) : /\ o \in AnyOps /\ Aims(o) \subseteq Ids(v) \cup {<<>>} /\ o.op = "add"
  <2>1. ASSUME NEW o \in [op : {"add"}, after : Ids(v) \cup {<<>>}, sec : {0},
                          tokens : SUBSET Labels]
        PROVE  o \in AnyOps /\ Aims(o) \subseteq Ids(v) \cup {<<>>} /\ o.op = "add"
      BY <1>0 DEF AnyOps, Aims
  <2>2. ASSUME NEW o \in [op : {"add"}, after : {<<>>}, sec : DOMAIN v.secs, tokens : {{}}]
        PROVE  o \in AnyOps /\ Aims(o) \subseteq Ids(v) \cup {<<>>} /\ o.op = "add"
      BY <1>0 DEF AnyOps, Aims
  <2>. QED  BY <2>1, <2>2 DEF AddOps
<1>3. \A o \in ReorderOps(v) : o \in AnyOps /\ Aims(o) = {}
  <2>1. ASSUME NEW o \in ReorderOps(v) PROVE o \in AnyOps /\ Aims(o) = {}
    <3>1. /\ o.sec \in Nat /\ o.op = "reorder" /\ \E i, j \in Ids(v) : o.order = <<i, j>>
          /\ o = [op |-> "reorder", sec |-> o.sec, order |-> o.order]
        BY <1>0 DEF ReorderOps
    <3>2. o.order \in Seq(Pairs)
        BY <1>0, <3>1
    <3>3. o \in [op : {"reorder"}, sec : Nat, order : Seq(Pairs)]
        BY <3>1, <3>2
    <3>. QED  BY <3>1, <3>3 DEF AnyOps, Aims
  <2>. QED  BY <2>1
<1>4. \A o \in FillOps : o \in AnyOps /\ Aims(o) = {}
    BY DEF FillOps, AnyOps, Aims
<1>5. \A o \in One : o \in AnyOps /\ Aims(o) \subseteq Ids(v) \cup {<<>>}
    BY <1>1, <1>2, <1>3, <1>4
<1>6. \A o \in BlockOps(v) : o \in One /\ o.op # "parties"
    BY <1>1, <1>2 DEF BlockOps
<1>. HIDE DEF One
<1>7. CASE ops \in {<<o>> : o \in One}
  <2>1. PICK o \in One : ops = <<o>>
      BY <1>7
  <2>2. Len(ops) = 1 /\ ops[1] = o /\ ops \in Seq(AnyOps)
      BY <2>1, <1>5
  <2>. QED  BY <2>2, <1>5
<1>8. CASE ops \in UNION {[1 .. n -> BlockOps(v)] : n \in 2 .. MaxBatch}
  <2>1. PICK n \in 2 .. MaxBatch : ops \in [1 .. n -> BlockOps(v)]
      BY <1>8
  <2>2. n \in Nat /\ n > 0 /\ 1 \in 1 .. n
      BY <2>1, BoundAssumption
  <2>3. \A i \in 1 .. n : ops[i] \in One /\ ops[i].op # "parties"
      BY <2>1, <1>6
  <2>4. \A i \in 1 .. n : ops[i] \in AnyOps
      BY <2>3, <1>5
  <2>5. ops \in [1 .. n -> AnyOps]
      BY <2>1, <2>4
  <2>6. ops \in Seq(AnyOps) /\ Len(ops) = n
      BY <2>2, <2>5
  <2>. QED  BY <2>2, <2>3, <2>4, <2>6, <1>5
<1>. QED  BY <1>7, <1>8 DEF Batches, One

\* The payloads of a batch, when L holds the labels that its operations touch.
LEMMA BatchSteps ==
    ASSUME commands \in Nat, NEW p \in Payload, NEW L, Sound(p, L), Tallied(p, L),
           NEW ops \in Seq(AnyOps),
           \A i \in 1 .. Len(ops) : Touched(Payloads(p, ops)[i - 1], ops[i]) \subseteq L
    PROVE  /\ Payloads(p, ops)[0] = p
           /\ \A i \in 0 .. Len(ops) : LET q == Payloads(p, ops)[i]
                                       IN q \in Payload /\ Sound(q, L) /\ Tallied(q, L)
           /\ \A i \in 1 .. Len(ops) :
                 LET q == Payloads(p, ops)[i - 1]
                 IN OpStep(q, Payloads(p, ops)[i], ops[i], Deleted(q, ops[i]), L)
<1>. DEFINE f == Payloads(p, ops)
            m == Len(ops)
            Good(q) == q \in Payload /\ Sound(q, L) /\ Tallied(q, L)
            S == {i \in 0 .. m : Good(f[i])}
<1>1. m \in Nat /\ \A i \in 1 .. m : ops[i] \in AnyOps
    BY ElementOfSeq
<1>2. /\ f[0] = p
      /\ \A n \in 1 .. m : f[n] = Apply(f[n - 1], ops[n], <<0, commands + 1, n>>)
    BY <1>1, PayloadsSteps
<1>3. \A i \in 1 .. m : Touched(f[i - 1], ops[i]) \subseteq L
    OBVIOUS
<1>. HIDE DEF f, m
<1>4. ASSUME NEW i \in 1 .. m, Good(f[i - 1])
      PROVE  OpStep(f[i - 1], f[i], ops[i], Deleted(f[i - 1], ops[i]), L) /\ Good(f[i])
  <2>1. ops[i] \in AnyOps /\ Touched(f[i - 1], ops[i]) \subseteq L /\ i \in Nat
      BY <1>1, <1>3
  <2>2. <<0, commands + 1, i>> \in Births
      BY <2>1 DEF Births
  <2>3. OpStep(f[i - 1], f[i], ops[i], Deleted(f[i - 1], ops[i]), L)
      BY <1>2, <1>4, <2>1, <2>2, ApplyStep
  <2>. QED  BY <1>4, <2>3 DEF OpStep, PayloadStep
<1>5. 0 .. m \subseteq S
  <2>. HIDE DEF Good
  <2>1. 0 \in S
      BY <1>1, <1>2 DEF Good
  <2>2. ASSUME NEW n \in 0 .. m - 1, n \in S PROVE n + 1 \in S
    <3>1. n + 1 \in 1 .. m /\ n + 1 - 1 = n /\ n + 1 \in 0 .. m
        BY <1>1
    <3>. QED  BY <2>2, <3>1, <1>4
  <2>. HIDE DEF S
  <2>. QED  BY <2>1, <2>2, <1>1, Climb
<1>6. ASSUME NEW i \in 1 .. m
      PROVE  OpStep(f[i - 1], f[i], ops[i], Deleted(f[i - 1], ops[i]), L)
  <2>1. i - 1 \in 0 .. m
      BY <1>1
  <2>. QED  BY <2>1, <1>4, <1>5
<1>. QED  BY <1>2, <1>5, <1>6 DEF f, m

\* Ids stay distinct through a batch whose orders list no id twice.
LEMMA BatchDistinct ==
    ASSUME NEW f, NEW m \in Nat, NEW ops, NEW L, Distinct(f[0]),
           \A i \in 1 .. m : /\ OpStep(f[i - 1], f[i], ops[i], Deleted(f[i - 1], ops[i]), L)
                             /\ ops[i].op = "reorder" => IsInjective(ops[i].order)
    PROVE  \A i \in 0 .. m : Distinct(f[i])
<1>. DEFINE S == {i \in 0 .. m : Distinct(f[i])}
<1>1. 0 \in S
    OBVIOUS
<1>2. ASSUME NEW n \in 0 .. m - 1, n \in S PROVE n + 1 \in S
  <2>1. n + 1 \in 1 .. m /\ n + 1 - 1 = n /\ n + 1 \in 0 .. m
      OBVIOUS
  <2>. QED  BY <1>2, <2>1 DEF OpStep
<1>3. 0 .. m \subseteq S
  <2>. HIDE DEF S
  <2>. QED  BY <1>1, <1>2, Climb
<1>. QED  BY <1>3

\* Nobody's name changes in a batch that sets no name.
LEMMA BatchParties ==
    ASSUME NEW f, NEW m \in Nat, NEW ops, NEW L,
           \A i \in 1 .. m : /\ OpStep(f[i - 1], f[i], ops[i], Deleted(f[i - 1], ops[i]), L)
                             /\ ops[i].op # "parties"
    PROVE  f[m].parties = f[0].parties
<1>. DEFINE S == {i \in 0 .. m : f[i].parties = f[0].parties}
<1>1. 0 \in S
    OBVIOUS
<1>2. ASSUME NEW n \in 0 .. m - 1, n \in S PROVE n + 1 \in S
  <2>1. n + 1 \in 1 .. m /\ n + 1 - 1 = n /\ n + 1 \in 0 .. m
      OBVIOUS
  <2>. QED  BY <1>2, <2>1 DEF OpStep
<1>3. 0 .. m \subseteq S
  <2>. HIDE DEF S
  <2>. QED  BY <1>1, <1>2, Climb
<1>4. m \in 0 .. m
    OBVIOUS
<1>. QED  BY <1>3, <1>4

\* A draft is numbered from the start, and its open terms are those of its text.
LEMMA GeneratedPayload ==
    ASSUME commands \in Nat, NEW shape \in Shapes, NEW guess \in [Parties -> Names \cup {Blank}],
           NEW prior \in [Parties -> Names \cup {Blank}]
    PROVE  LET q == Generated(shape, guess, prior)
           IN /\ q \in Payload /\ Sound(q, {}) /\ Distinct(q) /\ Tallied(q, {})
              /\ q.parties = PartiesOf(guess, prior)
<1>. DEFINE secs == AssignIds(shape, commands + 1)
            named == PartiesOf(guess, prior)
            tree == [secs |-> secs, missing |-> {}, parties |-> named]
            q == Generated(shape, guess, prior)
<1>1. /\ Len(shape) \in Nat /\ DOMAIN shape = 1 .. Len(shape)
      /\ \A s \in 1 .. Len(shape) : shape[s] \in Seq(SUBSET Labels)
  <2>1. shape \in Seq(Seq(SUBSET Labels))
      BY ShapesAssumption
  <2>. QED  BY <2>1, ElementOfSeq
<1>2. ASSUME NEW s \in 1 .. Len(shape)
      PROVE  /\ secs[s] \in Seq(BlockRecord) /\ DOMAIN secs[s] = DOMAIN shape[s]
             /\ \A b \in DOMAIN secs[s] : secs[s][b].id = <<s, b>>
  <2>. DEFINE row == [b \in DOMAIN shape[s] |->
                 [id |-> <<s, b>>, born |-> <<commands + 1, s, b>>, tokens |-> shape[s][b]]]
              l == Len(shape[s])
  <2>1. secs[s] = row
      BY <1>1 DEF AssignIds
  <2>2. l \in Nat /\ DOMAIN shape[s] = 1 .. l /\ \A b \in 1 .. l : shape[s][b] \in SUBSET Labels
    <3>1. shape[s] \in Seq(SUBSET Labels)
        BY <1>1
    <3>. QED  BY <3>1, ElementOfSeq
  <2>3. ASSUME NEW b \in 1 .. l PROVE row[b] \in BlockRecord /\ row[b].id = <<s, b>>
    <3>1. s \in Nat /\ b \in Nat
        BY <1>1, <2>2
    <3>. QED  BY <2>2, <3>1 DEF BlockRecord, Births
  <2>4. row \in [1 .. l -> BlockRecord]
      BY <2>2, <2>3
  <2>. HIDE DEF row
  <2>. QED  BY <2>1, <2>2, <2>3, <2>4
<1>3. secs \in Seq(Seq(BlockRecord)) /\ DOMAIN secs = 1 .. Len(shape)
  <2>1. DOMAIN secs = 1 .. Len(shape) /\ secs = [s \in 1 .. Len(shape) |-> secs[s]]
      BY <1>1 DEF AssignIds
  <2>. HIDE DEF secs
  <2>2. secs \in [1 .. Len(shape) -> Seq(BlockRecord)]
      BY <1>2, <2>1
  <2>. QED  BY <1>1, <2>1, <2>2
<1>4. named \in [Parties -> Names \cup {Blank}]
    BY DEF PartiesOf
<1>5. q = [tree EXCEPT !.missing = Tokens(tree)]
    BY DEF Generated
<1>. HIDE DEF secs, named, q
<1>6. tree \in Payload
    BY <1>3, <1>4 DEF Payload
<1>7. Tokens(tree) \subseteq Labels
  <2>1. ASSUME NEW x \in Places(tree) PROVE Block(tree, x).tokens \subseteq Labels
    <3>. HIDE DEF tree
    <3>1. Block(tree, x) \in BlockRecord
        BY <1>6, AtPlace, Parts
    <3>. QED  BY <3>1 DEF BlockRecord
  <2>. QED  BY <2>1 DEF Tokens
<1>8. q.secs = secs /\ q.missing = Tokens(tree) /\ q.parties = named
      /\ q = [secs |-> q.secs, missing |-> q.missing, parties |-> q.parties]
    BY <1>5
<1>9. q \in Payload
    BY <1>3, <1>4, <1>7, <1>8 DEF Payload
<1>10. Sound(q, {})
    BY <1>2, <1>3, <1>8 DEF Sound, SoundSection, Kin
<1>11. Distinct(q)
  <2>1. ASSUME NEW s \in DOMAIN q.secs, NEW a \in DOMAIN q.secs[s], NEW b \in DOMAIN q.secs[s],
               q.secs[s][a].id = q.secs[s][b].id
        PROVE  a = b
    <3>1. <<s, a>> = <<s, b>>
        BY <2>1, <1>2, <1>3, <1>8
    <3>. QED  BY <3>1
  <2>. QED  BY <2>1 DEF Distinct, DistinctIn
<1>12. Tallied(q, {})
  <2>1. Tokens(q) = Tokens(tree)
      BY <1>8 DEF Tokens, Places, Block
  <2>. QED  BY <1>8, <2>1 DEF Tallied
<1>. QED  BY <1>8, <1>9, <1>10, <1>11, <1>12 DEF q, named

\* Labels that do not count can only help.
LEMMA FewerLabels ==
    ASSUME NEW p, NEW K, NEW L, K \subseteq L
    PROVE  (Sound(p, K) => Sound(p, L)) /\ (Tallied(p, K) => Tallied(p, L))
<1>1. \A a, b : Kin(a, b, K) => Kin(a, b, L)
    BY DEF Kin
<1>. QED  BY <1>1 DEF Sound, SoundSection, Tallied

\* What an operation touches are labels.
LEMMA TouchedLabels ==
    ASSUME NEW p \in Payload, NEW op \in AnyOps
    PROVE  Touched(p, op) \subseteq Labels
<1>1. ASSUME NEW id \in Ids(p) PROVE Block(p, Find(p, id)).tokens \subseteq Labels
  <2>1. Block(p, Find(p, id)) \in BlockRecord
      BY FindFinds, AtPlace, Parts
  <2>. QED  BY <2>1 DEF BlockRecord
<1>2. op.op \in {"edit", "add"} => op.tokens \subseteq Labels
    BY DEF AnyOps, FillOps
<1>. QED  BY <1>1, <1>2 DEF Touched, Fits

\* The ids after a batch are the ids before it and the ones it gave.
LEMMA BatchIds ==
    ASSUME NEW f, NEW m \in Nat
    PROVE  \A i \in 0 .. m :
               Ids(f[i]) \subseteq Ids(f[0]) \cup UNION {Ids(f[j]) \ Ids(f[j - 1]) : j \in 1 .. m}
<1>. DEFINE given == UNION {Ids(f[j]) \ Ids(f[j - 1]) : j \in 1 .. m}
            S == {i \in 0 .. m : Ids(f[i]) \subseteq Ids(f[0]) \cup given}
<1>1. 0 \in S
    OBVIOUS
<1>2. ASSUME NEW n \in 0 .. m - 1, n \in S PROVE n + 1 \in S
  <2>1. n + 1 \in 1 .. m /\ n + 1 - 1 = n /\ n + 1 \in 0 .. m
      OBVIOUS
  <2>2. Ids(f[n + 1]) \ Ids(f[n]) \subseteq given
    <3>1. Ids(f[n + 1]) \ Ids(f[n]) \in {Ids(f[j]) \ Ids(f[j - 1]) : j \in 1 .. m}
        BY <2>1
    <3>. QED  BY <3>1
  <2>3. Ids(f[n]) \subseteq Ids(f[0]) \cup given
      BY <1>2
  <2>. HIDE DEF given
  <2>. QED  BY <2>1, <2>2, <2>3
<1>3. 0 .. m \subseteq S
  <2>. HIDE DEF S
  <2>. QED  BY <1>1, <1>2, Climb
<1>. QED  BY <1>3

\* A tab's canvas agrees with each payload of a batch, whoever's batch it is, but on the
\* ids that the batch has given again.
LEMMA BatchAgrees ==
    ASSUME NEW f, NEW m \in Nat, NEW ops, NEW L, NEW v, NEW old, NEW R,
           \A i \in 1 .. m : /\ OpStep(f[i - 1], f[i], ops[i], Deleted(f[i - 1], ops[i]), L)
                             /\ (Ids(f[i]) \ Ids(f[i - 1])) \cap old \subseteq R,
           Ids(v) \subseteq old, Agrees(v, f[0], R)
    PROVE  \A i \in 0 .. m : Agrees(v, f[i], R)
<1>. DEFINE S == {i \in 0 .. m : Agrees(v, f[i], R)}
<1>1. 0 \in S
    OBVIOUS
<1>2. ASSUME NEW n \in 0 .. m - 1, n \in S PROVE n + 1 \in S
  <2>1. n + 1 \in 1 .. m /\ n + 1 - 1 = n /\ n + 1 \in 0 .. m
      OBVIOUS
  <2>2. /\ PayloadStep(f[n], f[n + 1], Deleted(f[n], ops[n + 1]), L)
        /\ (Ids(f[n + 1]) \ Ids(f[n])) \cap old \subseteq R
      BY <2>1 DEF OpStep
  <2>. DEFINE q == f[n + 1]
  <2>3. ASSUME NEW x \in Places(v), NEW y \in Places(q),
               Block(v, x).id = Block(q, y).id, Block(q, y).id \notin R
        PROVE  Block(v, x).born = Block(q, y).born
    <3>1. Block(q, y).id \in Ids(q) /\ Block(q, y).id \in old
        BY <2>3 DEF Ids
    <3>2. Block(q, y).id \in Ids(f[n])
        BY <2>2, <2>3, <3>1
    <3>3. PICK z \in Places(f[n]) : Twin(Block(f[n], z), Block(q, y))
        BY <2>2, <3>2 DEF PayloadStep
    <3>4. Block(v, x).born = Block(f[n], z).born
        BY <1>2, <2>3, <3>3 DEF Agrees, Twin
    <3>. QED  BY <3>3, <3>4 DEF Twin
  <2>. QED  BY <2>1, <2>3 DEF Agrees
<1>3. 0 .. m \subseteq S
  <2>. HIDE DEF S
  <2>. QED  BY <1>1, <1>2, Climb
<1>. QED  BY <1>3

\* A canvas agrees with itself: an id names one block in it.
LEMMA AgreesWithItself ==
    ASSUME NEW p, NEW L, Sound(p, L), NEW R
    PROVE  Agrees(p, p, R)
BY SameSection DEF Agrees

\* The canvas before the first draft.
LEMMA NoDocIsPayload ==
    /\ NoDoc \in Payload /\ NoDoc.parties = [p \in Parties |-> Blank] /\ Ids(NoDoc) = {}
    /\ \A L : Sound(NoDoc, L) /\ Distinct(NoDoc) /\ Tallied(NoDoc, L)
    /\ \A p, R : Agrees(NoDoc, p, R)
<1>1. NoDoc.secs = <<>> /\ NoDoc.missing = {} /\ NoDoc.parties = [p \in Parties |-> Blank]
    BY DEF NoDoc
<1>2. DOMAIN NoDoc.secs = {} /\ NoDoc.secs \in Seq(Seq(BlockRecord))
    BY <1>1
<1>3. Places(NoDoc) = {}
    BY <1>2 DEF Places
<1>4. NoDoc \in Payload
  <2>1. [p \in Parties |-> Blank] \in [Parties -> Names \cup {Blank}]
      OBVIOUS
  <2>2. NoDoc = [secs |-> NoDoc.secs, missing |-> NoDoc.missing, parties |-> NoDoc.parties]
      BY DEF NoDoc
  <2>. QED  BY <1>1, <1>2, <2>1, <2>2 DEF Payload
<1>. QED  BY <1>1, <1>2, <1>3, <1>4 DEF Sound, Distinct, Tallied, Tokens, Agrees, Ids

----------------------------------------------------------------------------
(* The invariant.                                                          *)

TypeOK ==
    /\ stage \in Stages /\ strict \in BOOLEAN /\ commands \in Nat
    /\ doc \in Payload /\ view \in [Tabs -> Payload]
    /\ doubled \in BOOLEAN /\ loose \subseteq Labels
    /\ entered \in [Parties -> Names \cup {Blank}]

\* Before the first draft there is no canvas.
Undrafted ==
    stage # "edit" => /\ doc = NoDoc /\ view = [t \in Tabs |-> NoDoc]
                      /\ entered = [p \in Parties |-> Blank]

\* The canvas: an id names its section and one block, and the open terms are tallied.
Orderly == Sound(doc, loose) /\ Tallied(doc, loose) /\ (~doubled => Distinct(doc))

\* What the tabs see: ids that were given, which name what they name in the canvas
\* unless they were given again.
Seen ==
    /\ Ids(doc) \subseteq spent
    /\ \A t \in Tabs : Ids(view[t]) \subseteq spent /\ Agrees(view[t], doc, reused)

EditInv == TypeOK /\ Undrafted /\ Orderly /\ Seen /\ AimedRight /\ NothingLost

\* The invariant holds at first.
LEMMA EditInit == Init => EditInv
<1>. SUFFICES ASSUME Init PROVE EditInv
    OBVIOUS
<1>1. TypeOK
    BY NoDocIsPayload DEF Init, TypeOK, Stages
<1>2. Undrafted /\ AimedRight /\ NothingLost
    BY DEF Init, Undrafted, AimedRight, NothingLost
<1>3. Orderly
    BY NoDocIsPayload DEF Init, Orderly
<1>4. Seen
    BY NoDocIsPayload DEF Init, Seen
<1>. QED  BY <1>1, <1>2, <1>3, <1>4 DEF EditInv

\* The steps before the draft leave the canvas alone.
LEMMA BeforeDraft ==
    ASSUME EditInv, stage # "edit", stage' \in Stages, strict' \in BOOLEAN,
           UNCHANGED <<doc, view, commands, history>>
    PROVE  EditInv'
<1>1. TypeOK'
    BY DEF EditInv, TypeOK, history
<1>2. Undrafted' /\ AimedRight' /\ NothingLost'
    BY DEF EditInv, Undrafted, AimedRight, NothingLost, history
<1>3. Orderly' /\ Seen'
    BY DEF EditInv, Orderly, Seen, history
<1>. QED  BY <1>1, <1>2, <1>3 DEF EditInv

\* The first draft.
LEMMA EditDraft ==
    ASSUME EditInv, NEW t \in Tabs, Draft(t)
    PROVE  EditInv'
<1>0. /\ stage = "draft" /\ stage' = "edit" /\ strict' = FALSE
      /\ UNCHANGED <<commands, reused, doubled, missed, lost, entered, loose>>
      /\ view' = [view EXCEPT ![t] = doc'] /\ spent' = Ids(doc')
    BY DEF Draft
<1>1. PICK shape \in Shapes, guess \in [Parties -> Names \cup {Blank}] :
          doc' = Generated(shape, guess, NoDoc.parties)
    BY DEF Draft
<1>2. /\ doc = NoDoc /\ view = [u \in Tabs |-> NoDoc] /\ entered = [p \in Parties |-> Blank]
      /\ commands \in Nat /\ TypeOK
    BY <1>0 DEF EditInv, Undrafted, TypeOK
<1>3. NoDoc.parties \in [Parties -> Names \cup {Blank}]
    BY NoDocIsPayload
<1>4. doc' \in Payload /\ Sound(doc', {}) /\ Distinct(doc') /\ Tallied(doc', {})
    BY <1>1, <1>2, <1>3, GeneratedPayload
<1>5. Sound(doc', loose') /\ Tallied(doc', loose')
    BY <1>4, FewerLabels
<1>6. TypeOK'
    BY <1>0, <1>2, <1>4 DEF TypeOK, Stages
<1>7. Undrafted' /\ AimedRight'
    BY <1>0 DEF EditInv, Undrafted, AimedRight
<1>8. NothingLost'
    BY <1>0, <1>2 DEF EditInv, NothingLost
<1>9. Orderly'
    BY <1>4, <1>5 DEF Orderly
<1>10. Seen'
  <2>1. ASSUME NEW u \in Tabs
        PROVE  Ids(view'[u]) \subseteq spent' /\ Agrees(view'[u], doc', reused')
    <3>1. CASE u = t
      <4>1. view'[u] = doc'
          BY <3>1, <1>0, <1>2
      <4>. QED  BY <4>1, <1>0, <1>4, AgreesWithItself
    <3>2. CASE u # t
      <4>1. view'[u] = NoDoc
          BY <3>2, <1>0, <1>2
      <4>. QED  BY <4>1, NoDocIsPayload
    <3>. QED  BY <3>1, <3>2
  <2>. QED  BY <2>1, <1>0 DEF Seen
<1>. QED  BY <1>6, <1>7, <1>8, <1>9, <1>10 DEF EditInv

\* Another tab opens the canvas.
LEMMA EditOpen ==
    ASSUME EditInv, NEW t \in Tabs, Open(t)
    PROVE  EditInv'
<1>0. /\ stage = "edit" /\ view' = [view EXCEPT ![t] = doc]
      /\ UNCHANGED <<stage, strict, sources, doc, commands, history>>
    BY DEF Open
<1>1. TypeOK' /\ view \in [Tabs -> Payload]
    BY <1>0 DEF EditInv, TypeOK, history
<1>2. Undrafted' /\ AimedRight' /\ NothingLost'
    BY <1>0 DEF EditInv, Undrafted, AimedRight, NothingLost, history
<1>3. Orderly'
    BY <1>0 DEF EditInv, Orderly, history
<1>4. Seen'
  <2>1. ASSUME NEW u \in Tabs
        PROVE  Ids(view'[u]) \subseteq spent /\ Agrees(view'[u], doc, reused)
    <3>1. CASE u = t
      <4>1. view'[u] = doc
          BY <3>1, <1>0, <1>1
      <4>. QED  BY <4>1, AgreesWithItself DEF EditInv, Orderly, Seen
    <3>2. CASE u # t
      <4>1. view'[u] = view[u]
          BY <3>2, <1>0, <1>1
      <4>. QED  BY <4>1 DEF EditInv, Seen
    <3>. QED  BY <3>1, <3>2
  <2>. QED  BY <2>1, <1>0 DEF EditInv, Seen, history
<1>. QED  BY <1>1, <1>2, <1>3, <1>4 DEF EditInv

\* A redraft.
LEMMA EditRegenerate ==
    ASSUME EditInv, NEW t \in Tabs, Regenerate(t)
    PROVE  EditInv'
<1>0. /\ stage = "edit" /\ commands' = commands + 1 /\ view' = [view EXCEPT ![t] = doc']
      /\ spent' = spent \cup Ids(doc') /\ reused' = reused \cup (Ids(doc') \cap spent)
      /\ doubled' = FALSE /\ loose' = {}
      /\ UNCHANGED <<stage, strict, sources, missed, lost, entered>>
    BY DEF Regenerate
<1>1. PICK shape \in Shapes, guess \in [Parties -> Names \cup {Blank}] :
          doc' = Generated(shape, guess, doc.parties)
    BY DEF Regenerate
<1>2. TypeOK /\ commands \in Nat /\ doc.parties \in [Parties -> Names \cup {Blank}]
      /\ view \in [Tabs -> Payload]
    BY Parts DEF EditInv, TypeOK
<1>3. /\ doc' \in Payload /\ Sound(doc', {}) /\ Distinct(doc') /\ Tallied(doc', {})
      /\ doc'.parties = PartiesOf(guess, doc.parties)
    BY <1>1, <1>2, GeneratedPayload
<1>4. TypeOK'
  <2>1. commands' \in Nat
      BY <1>0, <1>2
  <2>2. view' \in [Tabs -> Payload]
      BY <1>0, <1>2, <1>3
  <2>3. doubled' \in BOOLEAN /\ loose' \subseteq Labels
      BY <1>0
  <2>. QED  BY <2>1, <2>2, <2>3, <1>0, <1>2, <1>3 DEF TypeOK
<1>5. Undrafted' /\ AimedRight'
    BY <1>0 DEF EditInv, Undrafted, AimedRight
<1>6. NothingLost'
  <2>1. ASSUME NEW p \in Parties, entered[p] # Blank PROVE doc'.parties[p] = entered[p]
    <3>1. doc.parties[p] = entered[p]
        BY <2>1 DEF EditInv, NothingLost
    <3>. QED  BY <2>1, <3>1, <1>3 DEF PartiesOf
  <2>. QED  BY <2>1, <1>0 DEF EditInv, NothingLost
<1>7. Orderly'
    BY <1>0, <1>3 DEF Orderly
<1>8. Seen'
  <2>1. ASSUME NEW u \in Tabs
        PROVE  Ids(view'[u]) \subseteq spent' /\ Agrees(view'[u], doc', reused')
    <3>1. CASE u = t
      <4>1. view'[u] = doc'
          BY <3>1, <1>0, <1>2
      <4>. QED  BY <4>1, <1>0, <1>3, AgreesWithItself
    <3>2. CASE u # t
      <4>1. view'[u] = view[u] /\ Ids(view[u]) \subseteq spent
          BY <3>2, <1>0, <1>2 DEF EditInv, Seen
      <4>2. ASSUME NEW x \in Places(view[u]), NEW y \in Places(doc'),
                   Block(view[u], x).id = Block(doc', y).id, Block(doc', y).id \notin reused'
            PROVE  FALSE
        <5>1. Block(view[u], x).id \in Ids(view[u]) /\ Block(doc', y).id \in Ids(doc')
            BY DEF Ids
        <5>. QED  BY <5>1, <4>1, <4>2, <1>0
      <4>3. Agrees(view[u], doc', reused')
          BY <4>2 DEF Agrees
      <4>. QED  BY <4>1, <4>3, <1>0
    <3>. QED  BY <3>1, <3>2
  <2>. QED  BY <2>1, <1>0 DEF Seen
<1>. QED  BY <1>4, <1>5, <1>6, <1>7, <1>8 DEF EditInv

\* A command, whatever batch it brings.
LEMMA EditCommand ==
    ASSUME EditInv, NEW t \in Tabs, Command(t)
    PROVE  EditInv'
<1>0. /\ stage = "edit" /\ commands' = commands + 1 /\ UNCHANGED <<stage, strict, sources>>
      /\ commands \in Nat /\ doc \in Payload /\ view \in [Tabs -> Payload] /\ TypeOK
    BY DEF Command, EditInv, TypeOK
<1>1. PICK ops \in Batches(view[t]) :
         LET f  == Payloads(doc, ops)
             at == DOMAIN ops
             n  == Len(ops)
             given == UNION {Ids(f[i]) \ Ids(f[i - 1]) : i \in at}
         IN /\ doc' = f[n]
            /\ view' = [view EXCEPT ![t] = f[n]]
            /\ spent' = spent \cup given
            /\ reused' = reused \cup
                 UNION {(Ids(f[i]) \ Ids(f[i - 1]))
                          \cap (spent \cup UNION {Ids(f[j]) : j \in 0 .. i - 1}) : i \in at}
            /\ doubled' = (doubled \/ \E i \in at :
                 ops[i].op = "reorder" /\ ~IsInjective(ops[i].order))
            /\ missed' = missed \cup UNION {Missed(f[i - 1], ops[i], view[t]) : i \in at}
            /\ lost' = lost \cup
                 UNION {Born(f[i - 1]) \ (Born(f[i]) \cup Deleted(f[i - 1], ops[i])) : i \in at}
            /\ loose' = loose \cup UNION {Touched(f[i - 1], ops[i]) : i \in at}
            /\ entered' = IF ops[1].op = "parties"
                          THEN [entered EXCEPT ![ops[1].party] = ops[1].name] ELSE entered
    BY DEF Command
<1>2. /\ ops \in Seq(AnyOps) /\ Len(ops) \in Nat /\ Len(ops) > 0 /\ DOMAIN ops = 1 .. Len(ops)
      /\ \A i \in 1 .. Len(ops) : /\ ops[i] \in AnyOps
                                  /\ Aims(ops[i]) \subseteq Ids(view[t]) \cup {<<>>}
                                  /\ i # 1 => ops[1].op # "parties" /\ ops[i].op # "parties"
    BY <1>0, BatchOps
<1>3. PICK f : f = Payloads(doc, ops)
    OBVIOUS
<1>4. PICK n : n = Len(ops)
    OBVIOUS
<1>5. n \in Nat /\ n > 0 /\ 0 \in 0 .. n /\ n \in 0 .. n
    BY <1>2, <1>4
<1>6. PICK L : L = loose \cup UNION {Touched(f[i - 1], ops[i]) : i \in 1 .. n}
    OBVIOUS
<1>7. PICK R : R = reused \cup UNION {(Ids(f[i]) \ Ids(f[i - 1]))
                          \cap (spent \cup UNION {Ids(f[j]) : j \in 0 .. i - 1}) : i \in 1 .. n}
    OBVIOUS
<1>8. /\ doc' = f[n] /\ view' = [view EXCEPT ![t] = f[n]] /\ loose' = L /\ reused' = R
      /\ spent' = spent \cup UNION {Ids(f[i]) \ Ids(f[i - 1]) : i \in 1 .. n}
      /\ doubled' = (doubled \/ \E i \in 1 .. n :
                 ops[i].op = "reorder" /\ ~IsInjective(ops[i].order))
      /\ missed' = missed \cup UNION {Missed(f[i - 1], ops[i], view[t]) : i \in 1 .. n}
      /\ lost' = lost \cup
                 UNION {Born(f[i - 1]) \ (Born(f[i]) \cup Deleted(f[i - 1], ops[i])) : i \in 1 .. n}
      /\ entered' = IF ops[1].op = "parties"
                    THEN [entered EXCEPT ![ops[1].party] = ops[1].name] ELSE entered
    BY <1>1, <1>2, <1>3, <1>4, <1>6, <1>7
<1>9. /\ f[0] = doc
      /\ \A i \in 0 .. n : f[i] \in Payload /\ Sound(f[i], L) /\ Tallied(f[i], L)
      /\ \A i \in 1 .. n : OpStep(f[i - 1], f[i], ops[i], Deleted(f[i - 1], ops[i]), L)
  <2>1. Sound(doc, L) /\ Tallied(doc, L)
    <3>1. loose \subseteq L
        BY <1>6
    <3>. QED  BY <3>1, FewerLabels DEF EditInv, Orderly
  <2>2. \A i \in 1 .. Len(ops) : Touched(Payloads(doc, ops)[i - 1], ops[i]) \subseteq L
    <3>1. ASSUME NEW i \in 1 .. n PROVE Touched(f[i - 1], ops[i]) \subseteq L
        BY <1>6
    <3>. QED  BY <3>1, <1>3, <1>4
  <2>3. /\ Payloads(doc, ops)[0] = doc
        /\ \A i \in 0 .. Len(ops) : LET q == Payloads(doc, ops)[i]
                                    IN q \in Payload /\ Sound(q, L) /\ Tallied(q, L)
        /\ \A i \in 1 .. Len(ops) :
              LET q == Payloads(doc, ops)[i - 1]
              IN OpStep(q, Payloads(doc, ops)[i], ops[i], Deleted(q, ops[i]), L)
      BY <2>1, <2>2, <1>0, <1>2, BatchSteps
  <2>. QED  BY <2>3, <1>3, <1>4
<1>10. \A i \in 1 .. n : i - 1 \in 0 .. n /\ i \in 0 .. n /\ ops[i] \in AnyOps
    BY <1>2, <1>4, <1>5
<1>11. Orderly'
  <2>1. ASSUME ~doubled' PROVE Distinct(f[n])
    <3>1. Distinct(f[0]) /\ \A i \in 1 .. n : ops[i].op = "reorder" => IsInjective(ops[i].order)
        BY <2>1, <1>8, <1>9 DEF EditInv, Orderly
    <3>. QED  BY <3>1, <1>5, <1>9, BatchDistinct
  <2>. QED  BY <2>1, <1>5, <1>8, <1>9 DEF Orderly
<1>12. Seen'
  <2>1. ASSUME NEW i \in 1 .. n PROVE (Ids(f[i]) \ Ids(f[i - 1])) \cap spent \subseteq R
      BY <1>7
  <2>2. ASSUME NEW u \in Tabs PROVE Agrees(view[u], f[n], R) /\ Ids(view[u]) \subseteq spent
    <3>1. Ids(view[u]) \subseteq spent /\ Agrees(view[u], f[0], R)
        BY <1>7, <1>9 DEF EditInv, Seen, Agrees
    <3>2. \A i \in 0 .. n : Agrees(view[u], f[i], R)
        BY <3>1, <2>1, <1>5, <1>9, BatchAgrees
    <3>. QED  BY <3>1, <3>2, <1>5
  <2>3. Ids(f[n]) \subseteq spent'
    <3>1. Ids(f[n]) \subseteq Ids(f[0]) \cup UNION {Ids(f[j]) \ Ids(f[j - 1]) : j \in 1 .. n}
        BY <1>5, BatchIds
    <3>2. Ids(f[0]) \subseteq spent
        BY <1>9 DEF EditInv, Seen
    <3>. QED  BY <3>1, <3>2, <1>8
  <2>4. ASSUME NEW u \in Tabs
        PROVE  Ids(view'[u]) \subseteq spent' /\ Agrees(view'[u], doc', reused')
    <3>1. CASE u = t
      <4>1. view'[u] = f[n]
          BY <3>1, <1>0, <1>8
      <4>. QED  BY <4>1, <2>3, <1>5, <1>8, <1>9, AgreesWithItself
    <3>2. CASE u # t
      <4>1. view'[u] = view[u]
          BY <3>2, <1>0, <1>8
      <4>. QED  BY <4>1, <2>2, <1>8
    <3>. QED  BY <3>1, <3>2
  <2>. QED  BY <2>3, <2>4, <1>8 DEF Seen
<1>13. AimedRight'
  <2>1. ASSUME NEW i \in 1 .. n, NEW id \in Missed(f[i - 1], ops[i], view[t]), id \notin R
        PROVE  FALSE
    <3>1. /\ id \in Aims(ops[i]) /\ id \in Ids(f[i - 1])
          /\ BornAs(f[i - 1], id) \cap BornAs(view[t], id) = {}
        BY <2>1 DEF Missed
    <3>2. id \in Ids(view[t])
        BY <3>1, <1>2, <1>4, <1>9, <1>10, IdsArePairs
    <3>3. PICK x \in Places(view[t]) : Block(view[t], x).id = id
        BY <3>2 DEF Ids
    <3>4. PICK y \in Places(f[i - 1]) : Block(f[i - 1], y).id = id
        BY <3>1 DEF Ids
    <3>5. Agrees(view[t], f[i - 1], R)
      <4>1. Ids(view[t]) \subseteq spent /\ Agrees(view[t], f[0], R)
          BY <1>7, <1>9 DEF EditInv, Seen, Agrees
      <4>2. \A j \in 1 .. n : (Ids(f[j]) \ Ids(f[j - 1])) \cap spent \subseteq R
          BY <1>7
      <4>3. \A j \in 0 .. n : Agrees(view[t], f[j], R)
          BY <4>1, <4>2, <1>5, <1>9, BatchAgrees
      <4>. QED  BY <4>3, <1>10
    <3>6. Block(view[t], x).born = Block(f[i - 1], y).born
        BY <2>1, <3>3, <3>4, <3>5 DEF Agrees
    <3>. QED  BY <3>1, <3>3, <3>4, <3>6 DEF BornAs
  <2>2. missed \subseteq R
      BY <1>7 DEF EditInv, AimedRight
  <2>. QED  BY <2>1, <2>2, <1>8 DEF AimedRight
<1>14. NothingLost'
  <2>1. lost' = {}
    <3>1. ASSUME NEW i \in 1 .. n
          PROVE  Born(f[i - 1]) \subseteq Born(f[i]) \cup Deleted(f[i - 1], ops[i])
        BY <1>9 DEF OpStep, PayloadStep, Twin, Born
    <3>. QED  BY <3>1, <1>8 DEF EditInv, NothingLost
  <2>2. ASSUME NEW p \in Parties, entered'[p] # Blank PROVE doc'.parties[p] = entered'[p]
    <3>0. entered[p] # Blank => doc.parties[p] = entered[p]
        BY DEF EditInv, NothingLost
    <3>1. CASE ops[1].op # "parties"
      <4>1. \A i \in 1 .. n : ops[i].op # "parties"
          BY <3>1, <1>2, <1>4
      <4>2. f[n].parties = f[0].parties
          BY <4>1, <1>5, <1>9, BatchParties
      <4>. QED  BY <2>2, <3>0, <3>1, <4>2, <1>8, <1>9
    <3>2. CASE ops[1].op = "parties"
      <4>1. n = 1
        <5>1. 1 \in 1 .. n /\ \A i \in 1 .. n : i = 1
            BY <3>2, <1>2, <1>4, <1>5
        <5>2. n \in 1 .. n
            BY <1>5
        <5>. QED  BY <5>1, <5>2
      <4>2. ops[1] \in AnyOps /\ f[0] \in Payload
          BY <4>1, <1>9, <1>10
      <4>3. /\ ops[1].party \in Parties /\ ops[1].name \in Names \cup {Blank} /\ Fits(f[0], ops[1])
            /\ f[1] = [doc EXCEPT !.parties[ops[1].party] = ops[1].name]
        <5>1. ops[1].party \in Parties /\ ops[1].name \in Names \cup {Blank} /\ Fits(f[0], ops[1])
            BY <3>2, <4>2 DEF AnyOps, FillOps, Fits
        <5>2. f[1] = Apply(f[0], ops[1], <<0, commands + 1, 1>>)
            BY <4>1, <1>2, <1>3, <1>4, PayloadsSteps
        <5>. QED  BY <3>2, <5>1, <5>2, <1>9 DEF Apply
      <4>4. f[1].parties = [doc.parties EXCEPT ![ops[1].party] = ops[1].name]
          BY <4>3, <1>0 DEF Payload
      <4>5. doc.parties \in [Parties -> Names \cup {Blank}]
            /\ entered \in [Parties -> Names \cup {Blank}]
          BY <1>0, Parts DEF TypeOK
      <4>6. entered' = [entered EXCEPT ![ops[1].party] = ops[1].name] /\ doc' = f[1]
          BY <3>2, <4>1, <1>8
      <4>. QED  BY <2>2, <3>0, <4>3, <4>4, <4>5, <4>6
    <3>. QED  BY <3>1, <3>2
  <2>. QED  BY <2>1, <2>2 DEF NothingLost
<1>15. TypeOK'
  <2>1. commands' \in Nat /\ doc' \in Payload /\ view' \in [Tabs -> Payload]
      BY <1>0, <1>5, <1>8, <1>9
  <2>2. doubled' \in BOOLEAN
      BY <1>0, <1>8, Zenon DEF TypeOK
  <2>3. loose' \subseteq Labels
    <3>1. \A i \in 1 .. n : Touched(f[i - 1], ops[i]) \subseteq Labels
        BY <1>9, <1>10, TouchedLabels
    <3>. QED  BY <3>1, <1>0, <1>6, <1>8 DEF TypeOK
  <2>4. entered' \in [Parties -> Names \cup {Blank}]
    <3>1. CASE ops[1].op = "parties"
      <4>1. ops[1].name \in Names \cup {Blank}
          BY <3>1, <1>5, <1>10 DEF AnyOps, FillOps
      <4>. QED  BY <4>1, <3>1, <1>0, <1>8 DEF TypeOK
    <3>2. CASE ops[1].op # "parties"
        BY <3>2, <1>0, <1>8 DEF TypeOK
    <3>. QED  BY <3>1, <3>2
  <2>. QED  BY <2>1, <2>2, <2>3, <2>4, <1>0 DEF TypeOK
<1>16. Undrafted'
    BY <1>0 DEF Undrafted
<1>. QED  BY <1>11, <1>12, <1>13, <1>14, <1>15, <1>16 DEF EditInv

\* Every step keeps the invariant.
LEMMA EditNext ==
    ASSUME EditInv, [Next]_vars
    PROVE  EditInv'
<1>1. CASE Bind
  <2>1. stage # "edit" /\ stage' \in Stages /\ strict' \in BOOLEAN
        /\ UNCHANGED <<doc, view, commands, history>>
      BY <1>1 DEF Bind, Stages, EditInv, TypeOK
  <2>. QED  BY <2>1, BeforeDraft
<1>2. CASE ResolveAnchor
  <2>1. stage # "edit" /\ stage' \in Stages /\ UNCHANGED <<doc, view, commands, history>>
      BY <1>2 DEF ResolveAnchor, Stages
  <2>2. strict' \in BOOLEAN
    <3>1. PICK answer \in AnchorAnswers : strict' = (strict \/ answer.only)
        BY <1>2 DEF ResolveAnchor
    <3>. QED  BY <3>1
  <2>. QED  BY <2>1, <2>2, BeforeDraft
<1>3. CASE Ground
  <2>1. stage # "edit" /\ stage' \in Stages /\ strict' \in BOOLEAN
        /\ UNCHANGED <<doc, view, commands, history>>
      BY <1>3 DEF Ground, Stages, EditInv, TypeOK
  <2>. QED  BY <2>1, BeforeDraft
<1>4. CASE \E t \in Tabs : Draft(t) \/ Open(t) \/ Command(t) \/ Regenerate(t)
    BY <1>4, EditDraft, EditOpen, EditCommand, EditRegenerate
<1>5. CASE UNCHANGED vars
  <2>1. UNCHANGED <<stage, strict, sources, doc, view, commands>> /\ UNCHANGED history
      BY <1>5 DEF vars
  <2>2. TypeOK' /\ Undrafted' /\ Orderly' /\ Seen' /\ AimedRight' /\ NothingLost'
      BY <2>1 DEF EditInv, TypeOK, Undrafted, Orderly, Seen, AimedRight, NothingLost, history
  <2>. QED  BY <2>2 DEF EditInv
<1>. QED  BY <1>1, <1>2, <1>3, <1>4, <1>5 DEF Next

\* The invariant: through every batch, draft and redraft an id names one block of its
\* section, the tabs see ids that were given, and the tally holds.
THEOREM EditsOrderly == Spec => []EditInv
<1>. QED  BY EditInit, EditNext, PTL DEF Spec

\* Section and block ids are pairs, placeholders are labels, and every party has a name
\* or none, through every draft, command and redraft.
THEOREM TypeCorrect == Spec => []TypeOK
<1>1. EditInv => TypeOK
    BY DEF EditInv
<1>. QED  BY <1>1, EditsOrderly, PTL

\* No two blocks of a canvas bear one id unless an order listed an id twice: numbering
\* from the length up to a free number keeps ids apart (_next_block_id, reorder_blocks).
THEOREM IdsAreUnique == Spec => []UniqueIds
<1>1. EditInv => UniqueIds
  <2>. SUFFICES ASSUME EditInv, ~doubled, NEW x \in Places(doc), NEW y \in Places(doc),
                       Block(doc, x).id = Block(doc, y).id
                PROVE  x = y
      BY DEF UniqueIds
  <2>1. x[1] = y[1]
      BY SameSection DEF EditInv, Orderly
  <2>2. x[2] = y[2]
      BY <2>1, AtPlace DEF EditInv, Orderly, Distinct, DistinctIn
  <2>. QED  BY <2>1, <2>2, AtPlace
<1>. QED  BY <1>1, EditsOrderly, PTL

\* An operation of a tab with an old canvas hits the block its author saw, or none,
\* unless the id has been given again.
THEOREM AimsHold == Spec => []AimedRight
<1>1. EditInv => AimedRight
    BY DEF EditInv
<1>. QED  BY <1>1, EditsOrderly, PTL

\* Only a delete takes a block away, and the name the user gave last survives every
\* command and redraft (generate_canvas_tree with the parties filled in).
THEOREM NothingIsLost == Spec => []NothingLost
<1>1. EditInv => NothingLost
    BY DEF EditInv
<1>. QED  BY <1>1, EditsOrderly, PTL

\* The list of open terms is what the text asks for, but for the labels that an edit has
\* written or taken away.
THEOREM TermsTally == Spec => []TermsMatch
<1>1. EditInv => TermsMatch
    BY DEF EditInv, Orderly, Tallied, TermsMatch
<1>. QED  BY <1>1, EditsOrderly, PTL

\* A draft rests on documents of the teams of the turn and, when only standards count,
\* on templates that were offered, whatever the client answers (resolve_anchor, ground).
THEOREM DraftsAreGrounded == Spec => []Grounded
<1>1. Init => Grounded
    BY DEF Init, Grounded
<1>2. ASSUME Grounded, [Next]_vars PROVE Grounded'
  <2>1. CASE Bind
      BY <1>2, <2>1, DocumentsAssumption DEF Bind, Grounded
  <2>2. CASE ResolveAnchor
      BY <1>2, <2>2, DocumentsAssumption DEF ResolveAnchor, Choose, Grounded
  <2>3. CASE Ground
      BY <1>2, <2>3 DEF Ground, Grounded
  <2>4. CASE \E t \in Tabs : Draft(t)
      BY <2>4 DEF Draft, Grounded
  <2>5. CASE \E t \in Tabs : Open(t) \/ Command(t) \/ Regenerate(t)
    <3>1. UNCHANGED <<strict, sources>>
        BY <2>5 DEF Open, Command, Regenerate
    <3>. QED  BY <1>2, <3>1 DEF Grounded
  <2>6. CASE UNCHANGED vars
      BY <1>2, <2>6 DEF vars, Grounded
  <2>. QED  BY <1>2, <2>1, <2>2, <2>3, <2>4, <2>5, <2>6 DEF Next
<1>. QED  BY <1>1, <1>2, PTL DEF Spec
=============================================================================
