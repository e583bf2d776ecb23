--------------------------- MODULE MuxSenderProofs ---------------------------
(***************************************************************************)
(* MuxSender, for every value of its constants.  A handler is a chain of   *)
(* operators on drafts, so each operator has a lemma of its own about the  *)
(* draft it returns, and an action's proof strings them together.          *)
(***************************************************************************)
EXTENDS MuxSender, WellFoundedInduction, TLAPS

------------------------------------------------------------------------------
(* What SumSizes and CancelScan compute, for every queue.                  *)

(* Induction over the natural numbers, stated for sets.                    *)
LEMMA NatSetInduction ==
  ASSUME NEW S, S \subseteq Nat, 0 \in S, \A n \in S : n + 1 \in S
  PROVE  S = Nat
<1> DEFINE Lt == {p \in Nat \X Nat : p[1] < p[2]}
           B == Nat \ S
<1>1. Lt = OpToRel(<, Nat)
  BY DEF OpToRel
<1>2. IsWellFoundedOn(Lt, Nat)
  BY <1>1, NatLessThanWellFounded
<1>3. SUFFICES ASSUME B # {} PROVE FALSE
  OBVIOUS
<1>4. B \subseteq Nat OBVIOUS
<1> HIDE DEF Lt, B
<1>5. PICK x \in B : \A y \in B : ~(<<y, x>> \in Lt)
  BY <1>2, <1>3, <1>4, WFMin
<1>6. x \in Nat /\ x # 0 /\ x \notin S
  BY DEF B
<1>7. x - 1 \in Nat /\ x - 1 \notin S
  BY <1>6
<1>8. x - 1 \in B /\ <<x - 1, x>> \in Lt
  BY <1>6, <1>7 DEF B, Lt
<1>9. QED BY <1>5, <1>8

(* A queue holds records that have a size; nothing else of them matters    *)
(* here.                                                                   *)
Sized(M) == \A m \in M : m.size \in Nat

(* The recursive definition of PrefixSizes has a solution for every queue. *)
LEMMA PrefixSizesExists ==
  ASSUME NEW M, Sized(M), NEW q \in Seq(M)
  PROVE  \E f \in [0..Len(q) -> Nat] :
           f = [i \in 0..Len(q) |-> IF i = 0 THEN 0 ELSE f[i - 1] + q[i].size]
<1> DEFINE Solves(f, n) == f = [i \in 0..n |-> IF i = 0 THEN 0 ELSE f[i - 1] + q[i].size]
           S == {n \in Nat : n <= Len(q) => \E f \in [0..n -> Nat] : Solves(f, n)}
<1> HIDE DEF Solves
<1>1. 0 \in S
  <2>1. Solves([i \in 0..0 |-> 0], 0)
    BY DEF Solves
  <2>2. [i \in 0..0 |-> 0] \in [0..0 -> Nat]
    OBVIOUS
  <2>3. QED BY <2>1, <2>2
<1>2. ASSUME NEW n \in S PROVE n + 1 \in S
  <2>1. SUFFICES ASSUME n + 1 <= Len(q)
                 PROVE  \E f \in [0..n + 1 -> Nat] : Solves(f, n + 1)
    BY SMTT(30)
  <2>2. PICK f \in [0..n -> Nat] : Solves(f, n)
    BY <2>1
  <2> DEFINE g == [i \in 0..n + 1 |-> IF i <= n THEN f[i] ELSE f[n] + q[n + 1].size]
  <2>3. q[n + 1].size \in Nat
    BY <2>1 DEF Sized
  <2>4. g \in [0..n + 1 -> Nat]
    BY <2>3
  <2>5. ASSUME NEW i \in 0..n + 1
        PROVE  g[i] = IF i = 0 THEN 0 ELSE g[i - 1] + q[i].size
    <3>1. CASE i = n + 1
      BY <3>1
    <3>2. CASE i # n + 1
      <4>1. i \in 0..n /\ g[i] = f[i]
        BY <3>2
      <4>2. f[i] = IF i = 0 THEN 0 ELSE f[i - 1] + q[i].size
        BY <2>2, <4>1 DEF Solves
      <4>3. i # 0 => g[i - 1] = f[i - 1]
        BY <4>1
      <4>4. QED BY <4>1, <4>2, <4>3
    <3>3. QED BY <3>1, <3>2
  <2>6. Solves(g, n + 1)
    BY <2>5 DEF Solves
  <2>7. QED BY <2>4, <2>6
<1>3. S = Nat
  <2> HIDE DEF S
  <2>1. S \subseteq Nat BY DEF S
  <2>2. QED BY <1>1, <1>2, <2>1, NatSetInduction
<1>4. Len(q) \in S
  BY <1>3
<1>5. QED BY <1>4 DEF Solves

(* Every prefix of a queue weighs its last message more than the prefix    *)
(* before it.                                                              *)
LEMMA PrefixSizesStep ==
  ASSUME NEW M, Sized(M), NEW q \in Seq(M)
  PROVE  /\ PrefixSizes(q) \in [0..Len(q) -> Nat]
         /\ PrefixSizes(q)[0] = 0
         /\ \A i \in 1..Len(q) :
              PrefixSizes(q)[i] = PrefixSizes(q)[i - 1] + q[i].size
<1> DEFINE Body(f) == [i \in 0..Len(q) |-> IF i = 0 THEN 0 ELSE f[i - 1] + q[i].size]
<1>1. PICK f \in [0..Len(q) -> Nat] : f = Body(f)
  BY PrefixSizesExists
<1>2. PrefixSizes(q) = CHOOSE g : g = Body(g)
  BY DEF PrefixSizes
<1>3. PrefixSizes(q) = Body(PrefixSizes(q))
  BY <1>1, <1>2
<1> DEFINE p == PrefixSizes(q)
           S == {n \in Nat : n <= Len(q) => p[n] \in Nat}
<1>4. p[0] = 0
  BY <1>3
<1>5. ASSUME NEW i \in 1..Len(q) PROVE p[i] = p[i - 1] + q[i].size
  <2>1. i \in 0..Len(q) /\ i # 0 OBVIOUS
  <2>2. QED BY <1>3, <2>1
<1>6. \A i \in 1..Len(q) : q[i].size \in Nat
  BY DEF Sized
<1> HIDE DEF p
<1>7. S = Nat
  <2>1. 0 \in S BY <1>4
  <2>2. \A n \in S : n + 1 \in S BY SMTT(30), <1>5, <1>6
  <2> HIDE DEF S
  <2>3. S \subseteq Nat BY DEF S
  <2>4. QED BY <2>1, <2>2, <2>3, NatSetInduction
<1>8. \A i \in 0..Len(q) : p[i] \in Nat
  BY <1>7
<1>9. p \in [0..Len(q) -> Nat]
  BY <1>3, <1>8 DEF p
<1>10. QED BY <1>4, <1>5, <1>9 DEF p

(* The bytes of a queue are a natural number.                              *)
LEMMA SumSizesNat ==
  ASSUME NEW M, Sized(M), NEW q \in Seq(M)
  PROVE  SumSizes(q) \in Nat
BY PrefixSizesStep DEF SumSizes

(* The empty queue has no bytes.                                           *)
LEMMA SumSizesEmpty ==
  ASSUME NEW M, Sized(M)
  PROVE  SumSizes(<<>>) = 0
<1>1. <<>> \in Seq(M) /\ Len(<<>>) = 0
  OBVIOUS
<1>2. QED BY <1>1, PrefixSizesStep DEF SumSizes

(* A message put at the back adds its own size.                            *)
LEMMA SumSizesAppend ==
  ASSUME NEW M, Sized(M), NEW q \in Seq(M), NEW m \in M
  PROVE  SumSizes(Append(q, m)) = SumSizes(q) + m.size
<1> DEFINE r == Append(q, m)
           p == PrefixSizes(q)
           t == PrefixSizes(r)
           S == {n \in Nat : n <= Len(q) => t[n] = p[n]}
<1>1. r \in Seq(M) /\ Len(r) = Len(q) + 1 /\ r[Len(q) + 1] = m
  OBVIOUS
<1>2. \A i \in 1..Len(q) : r[i] = q[i]
  OBVIOUS
<1>3. p[0] = 0 /\ \A i \in 1..Len(q) : p[i] = p[i - 1] + q[i].size
  BY PrefixSizesStep
<1>4. t[0] = 0 /\ \A i \in 1..Len(q) + 1 : t[i] = t[i - 1] + r[i].size
  BY <1>1, PrefixSizesStep
<1> HIDE DEF p, t, r
<1>5. S = Nat
  <2>1. 0 \in S BY <1>3, <1>4
  <2>2. ASSUME NEW n \in S PROVE n + 1 \in S
    <3>1. n + 1 <= Len(q) => n + 1 \in 1..Len(q)
      OBVIOUS
    <3>2. n + 1 <= Len(q) => t[n + 1] = t[n] + q[n + 1].size /\ p[n + 1] = p[n] + q[n + 1].size
      BY <1>2, <1>3, <1>4, <3>1
    <3>3. QED BY <3>2
  <2> HIDE DEF S
  <2>3. S \subseteq Nat BY DEF S
  <2>4. QED BY <2>1, <2>2, <2>3, NatSetInduction
<1>6. t[Len(q)] = p[Len(q)]
  <2>1. Len(q) \in S BY <1>5
  <2>2. QED BY <2>1
<1>7. t[Len(q) + 1] = t[Len(q)] + m.size
  BY <1>1, <1>4
<1>8. QED BY <1>1, <1>6, <1>7 DEF SumSizes, p, t, r

(* The message at the front accounts for its own size.                     *)
LEMMA SumSizesTail ==
  ASSUME NEW M, Sized(M), NEW q \in Seq(M), q # <<>>
  PROVE  SumSizes(q) = Head(q).size + SumSizes(Tail(q))
<1> DEFINE r == Tail(q)
           p == PrefixSizes(q)
           t == PrefixSizes(r)
           S == {n \in Nat : n <= Len(r) => p[n + 1] = Head(q).size + t[n]}
<1>1. r \in Seq(M) /\ Len(q) = Len(r) + 1 /\ Len(r) \in Nat
  OBVIOUS
<1>2. \A i \in 1..Len(r) : r[i] = q[i + 1]
  OBVIOUS
<1>3. p[0] = 0 /\ \A i \in 1..Len(q) : p[i] = p[i - 1] + q[i].size
  BY PrefixSizesStep
<1>4. t[0] = 0 /\ \A i \in 1..Len(r) : t[i] = t[i - 1] + r[i].size
  BY <1>1, PrefixSizesStep
<1>5. \A i \in 1..Len(q) : q[i].size \in Nat
  BY DEF Sized
<1>6. t \in [0..Len(r) -> Nat]
  BY <1>1, PrefixSizesStep
<1>7. Head(q) = q[1]
  OBVIOUS
<1> HIDE DEF p, t, r
<1>8. S = Nat
  <2>1. 0 \in S
    <3>1. p[1] = p[0] + q[1].size
      BY <1>1, <1>3
    <3>2. QED BY <3>1, <1>1, <1>3, <1>4, <1>5, <1>7
  <2>2. ASSUME NEW n \in S, n + 1 <= Len(r)
        PROVE  p[n + 2] = Head(q).size + t[n + 1]
    <3>1. p[n + 2] = p[n + 1] + q[n + 2].size
      <4>1. n + 2 \in 1..Len(q) BY <1>1, <2>2
      <4>2. p[n + 2] = p[(n + 2) - 1] + q[n + 2].size BY <4>1, <1>3
      <4>3. (n + 2) - 1 = n + 1 OBVIOUS
      <4>4. QED BY <4>2, <4>3
    <3>2. t[n + 1] = t[n] + q[n + 2].size
      <4>1. n + 1 \in 1..Len(r) BY <1>1, <2>2
      <4>2. t[n + 1] = t[(n + 1) - 1] + r[n + 1].size BY <4>1, <1>4
      <4>3. r[n + 1] = q[(n + 1) + 1] BY <4>1, <1>2
      <4>4. (n + 1) - 1 = n /\ (n + 1) + 1 = n + 2 OBVIOUS
      <4>5. QED BY <4>2, <4>3, <4>4
    <3>3. p[n + 1] = Head(q).size + t[n]
      BY <1>1, <2>2
    <3>4. t[n] \in Nat /\ q[n + 2].size \in Nat /\ q[1].size \in Nat
      BY <1>1, <1>5, <1>6, <2>2
    <3>5. QED BY <3>1, <3>2, <3>3, <3>4, <1>7
  <2>3. ASSUME NEW n \in S PROVE n + 1 \in S
    <3>1. (n + 1) + 1 = n + 2 OBVIOUS
    <3>2. QED BY <2>2, <3>1
  <2> HIDE DEF S
  <2>4. S \subseteq Nat BY DEF S
  <2>5. QED BY <2>1, <2>3, <2>4, NatSetInduction
<1>9. p[Len(r) + 1] = Head(q).size + t[Len(r)]
  <2>1. Len(r) \in S BY <1>1, <1>8
  <2>2. QED BY <2>1
<1>10. QED BY <1>1, <1>9 DEF SumSizes, p, t, r

(* A queue never weighs less than its first message.                       *)
LEMMA SumSizesHead ==
  ASSUME NEW M, Sized(M), NEW q \in Seq(M), q # <<>>
  PROVE  Head(q).size \in Nat /\ Head(q).size <= SumSizes(q)
<1>1. Head(q) \in M /\ Tail(q) \in Seq(M)
  OBVIOUS
<1>2. SumSizes(Tail(q)) \in Nat /\ Head(q).size \in Nat
  BY <1>1, SumSizesNat DEF Sized
<1>3. QED BY <1>2, SumSizesTail

ScanResult(M) == [kept : Seq(M), removedBytes : Nat]

(* One step of the scan keeps its result well formed.                      *)
LEMMA ScanStepType ==
  ASSUME NEW M, Sized(M), NEW r \in ScanResult(M), NEW m \in M, NEW tag
  PROVE  ScanStep(r, m, tag) \in ScanResult(M)
<1>1. r.kept \in Seq(M) /\ r.removedBytes \in Nat /\ m.size \in Nat
  BY DEF ScanResult, Sized
<1>2. QED BY <1>1 DEF ScanStep, ScanResult

(* One step of the scan splits the bytes of the message between what is    *)
(* kept and what is removed, and keeps at most one message more.           *)
LEMMA ScanStepBytes ==
  ASSUME NEW M, Sized(M), NEW r \in ScanResult(M), NEW m \in M, NEW tag
  PROVE  LET s == ScanStep(r, m, tag)
         IN  /\ SumSizes(s.kept) + s.removedBytes = SumSizes(r.kept) + r.removedBytes + m.size
             /\ Len(s.kept) <= Len(r.kept) + 1
<1>1. m.size \in Nat /\ SumSizes(r.kept) \in Nat /\ r.kept \in Seq(M) /\ r.removedBytes \in Nat
  BY SumSizesNat DEF Sized, ScanResult
<1>2. CASE m.tag = tag
  <2>1. ScanStep(r, m, tag) = [kept |-> r.kept, removedBytes |-> r.removedBytes + m.size]
    BY <1>2 DEF ScanStep
  <2>2. /\ ScanStep(r, m, tag).kept = r.kept
        /\ ScanStep(r, m, tag).removedBytes = r.removedBytes + m.size
    BY <2>1 DEF ScanResult
  <2>3. QED BY <1>1, <2>2
<1>3. CASE m.tag # tag
  <2>1. ScanStep(r, m, tag) = [kept |-> Append(r.kept, m), removedBytes |-> r.removedBytes]
    BY <1>3 DEF ScanStep
  <2>2. /\ ScanStep(r, m, tag).kept = Append(r.kept, m)
        /\ ScanStep(r, m, tag).removedBytes = r.removedBytes
    BY <2>1 DEF ScanResult
  <2>3. SumSizes(Append(r.kept, m)) = SumSizes(r.kept) + m.size
    BY <1>1, SumSizesAppend
  <2>4. Len(Append(r.kept, m)) = Len(r.kept) + 1
    BY <1>1
  <2>5. QED BY <1>1, <2>2, <2>3, <2>4
<1>4. QED BY <1>2, <1>3

(* f solves the recursive definition of PrefixScan.                        *)
ScanSolves(f, q, tag) ==
  f = [i \in 0..Len(q) |-> IF i = 0 THEN [kept |-> <<>>, removedBytes |-> 0]
                           ELSE ScanStep(f[i - 1], q[i], tag)]

(* The recursive definition of PrefixScan has a solution for every queue.  *)
LEMMA PrefixScanExists ==
  ASSUME NEW M, Sized(M), NEW q \in Seq(M), NEW tag
  PROVE  \E f \in [0..Len(q) -> ScanResult(M)] : ScanSolves(f, q, tag)
<1> DEFINE zero == [kept |-> <<>>, removedBytes |-> 0]
           Solves(f, n) == f = [i \in 0..n |-> IF i = 0 THEN zero ELSE ScanStep(f[i - 1], q[i], tag)]
           S == {n \in Nat : n <= Len(q) => \E f \in [0..n -> ScanResult(M)] : Solves(f, n)}
<1>a. zero \in ScanResult(M)
  BY DEF ScanResult
<1> HIDE DEF Solves, zero
<1>1. 0 \in S
  <2>1. Solves([i \in 0..0 |-> zero], 0)
    BY DEF Solves
  <2>2. [i \in 0..0 |-> zero] \in [0..0 -> ScanResult(M)]
    BY <1>a
  <2>3. QED BY <2>1, <2>2
<1>2. ASSUME NEW n \in S PROVE n + 1 \in S
  <2>1. SUFFICES ASSUME n + 1 <= Len(q)
                 PROVE  \E f \in [0..n + 1 -> ScanResult(M)] : Solves(f, n + 1)
    OBVIOUS
  <2>2. PICK f \in [0..n -> ScanResult(M)] : Solves(f, n)
    BY <2>1
  <2> DEFINE next == ScanStep(f[n], q[n + 1], tag)
             g == [i \in 0..n + 1 |-> IF i <= n THEN f[i] ELSE next]
  <2>3. next \in ScanResult(M)
    <3>1. f[n] \in ScanResult(M) /\ q[n + 1] \in M
      BY <2>1
    <3>2. QED BY <3>1, ScanStepType
  <2> HIDE DEF next
  <2>4. g \in [0..n + 1 -> ScanResult(M)]
    BY <2>3
  <2>5. ASSUME NEW i \in 0..n + 1
        PROVE  g[i] = IF i = 0 THEN zero ELSE ScanStep(g[i - 1], q[i], tag)
    <3>1. CASE i = n + 1
      BY <3>1 DEF next
    <3>2. CASE i # n + 1
      <4>1. i \in 0..n /\ g[i] = f[i]
        BY <3>2
      <4>2. f[i] = IF i = 0 THEN zero ELSE ScanStep(f[i - 1], q[i], tag)
        BY <2>2, <4>1 DEF Solves
      <4>3. i # 0 => g[i - 1] = f[i - 1]
        BY <4>1
      <4>4. QED BY <4>1, <4>2, <4>3
    <3>3. QED BY <3>1, <3>2
  <2>6. Solves(g, n + 1)
    BY <2>5 DEF Solves
  <2>7. QED BY <2>4, <2>6
<1>3. S = Nat
  <2> HIDE DEF S
  <2>1. S \subseteq Nat BY DEF S
  <2>2. QED BY <1>1, <1>2, <2>1, NatSetInduction
<1>4. Len(q) \in S
  BY <1>3
<1>5. QED BY <1>4 DEF Solves, zero, ScanSolves

(* The prefixes of a scan are what the loop of cancel() computes in turn.  *)
LEMMA PrefixScanStep ==
  ASSUME NEW M, Sized(M), NEW q \in Seq(M), NEW tag
  PROVE  /\ PrefixScan(q, tag)[0] = [kept |-> <<>>, removedBytes |-> 0]
         /\ \A i \in 1..Len(q) :
              PrefixScan(q, tag)[i] = ScanStep(PrefixScan(q, tag)[i - 1], q[i], tag)
<1> DEFINE zero == [kept |-> <<>>, removedBytes |-> 0]
           Body(f) == [i \in 0..Len(q) |-> IF i = 0 THEN zero ELSE ScanStep(f[i - 1], q[i], tag)]
           s == PrefixScan(q, tag)
<1>1. \E f : f = Body(f)
  <2>1. PICK f \in [0..Len(q) -> ScanResult(M)] : ScanSolves(f, q, tag)
    BY PrefixScanExists
  <2>2. f = Body(f) BY <2>1 DEF ScanSolves
  <2>3. QED BY <2>2
<1>2. s = CHOOSE g : g = Body(g)
  BY DEF PrefixScan
<1>3. s = Body(s)
  BY <1>1, <1>2
<1>4. s[0] = zero
  BY <1>3
<1>5. ASSUME NEW i \in 1..Len(q) PROVE s[i] = ScanStep(s[i - 1], q[i], tag)
  <2>1. i \in 0..Len(q) /\ i # 0 OBVIOUS
  <2>2. QED BY <1>3, <2>1
<1>6. QED BY <1>4, <1>5

(* cancel() loses no byte: what it keeps and what it removes add up to the *)
(* queue it was given, it invents no message and does not grow the queue.  *)
LEMMA CancelScanSplits ==
  ASSUME NEW M, Sized(M), NEW q \in Seq(M), NEW tag
  PROVE  LET scan == CancelScan(q, tag)
         IN  /\ scan.kept \in Seq(M)
             /\ scan.removedBytes \in Nat
             /\ SumSizes(scan.kept) + scan.removedBytes = SumSizes(q)
             /\ Len(scan.kept) <= Len(q)
             /\ q = <<>> => scan.kept = <<>> /\ scan.removedBytes = 0
<1> DEFINE zero == [kept |-> <<>>, removedBytes |-> 0]
           s == PrefixScan(q, tag)
           p == PrefixSizes(q)
           Good(n) == /\ s[n] \in ScanResult(M)
                      /\ SumSizes(s[n].kept) + s[n].removedBytes = p[n]
                      /\ Len(s[n].kept) <= n
           S == {n \in Nat : n <= Len(q) => Good(n)}
<1>1. /\ s[0] = zero
      /\ \A i \in 1..Len(q) : s[i] = ScanStep(s[i - 1], q[i], tag)
  BY PrefixScanStep
<1>6. /\ p \in [0..Len(q) -> Nat] /\ p[0] = 0
      /\ \A i \in 1..Len(q) : p[i] = p[i - 1] + q[i].size
  BY PrefixSizesStep
<1> HIDE DEF s, p
<1>7. S = Nat
  <2>1. 0 \in S
    <3>1. zero \in ScanResult(M) /\ zero.kept = <<>> /\ zero.removedBytes = 0
      BY DEF ScanResult
    <3>2. SumSizes(<<>>) = 0 BY SumSizesEmpty
    <3>3. QED BY <1>1, <1>6, <3>1, <3>2
  <2>2. ASSUME NEW n \in S PROVE n + 1 \in S
    <3>1. SUFFICES ASSUME n + 1 <= Len(q) PROVE Good(n + 1)
      OBVIOUS
    <3>2. n \in Nat /\ Good(n) BY <3>1
    <3>3. n + 1 \in 1..Len(q) /\ q[n + 1] \in M /\ q[n + 1].size \in Nat
      BY <3>1 DEF Sized
    <3>4. (n + 1) - 1 = n OBVIOUS
    <3>5. s[n + 1] = ScanStep(s[n], q[n + 1], tag) /\ p[n + 1] = p[n] + q[n + 1].size
      BY <1>1, <1>6, <3>3, <3>4
    <3>6. s[n + 1] \in ScanResult(M)
      BY <3>2, <3>3, <3>5, ScanStepType
    <3>7. /\ SumSizes(s[n + 1].kept) + s[n + 1].removedBytes
               = SumSizes(s[n].kept) + s[n].removedBytes + q[n + 1].size
          /\ Len(s[n + 1].kept) <= Len(s[n].kept) + 1
      BY <3>2, <3>3, <3>5, ScanStepBytes
    <3>8. Len(s[n].kept) \in Nat /\ Len(s[n + 1].kept) \in Nat
      BY <3>2, <3>6 DEF ScanResult
    <3>9. QED BY <3>2, <3>5, <3>6, <3>7, <3>8
  <2> HIDE DEF S
  <2>3. S \subseteq Nat BY DEF S
  <2>4. QED BY <2>1, <2>2, <2>3, NatSetInduction
<1>8. Good(Len(q))
  <2>1. Len(q) \in S BY <1>7
  <2>2. QED BY <2>1
<1>9. CancelScan(q, tag) = s[Len(q)] /\ SumSizes(q) = p[Len(q)]
  BY DEF CancelScan, SumSizes, s, p
<1>10. q = <<>> => s[Len(q)] = zero
  BY <1>1
<1>11. QED BY <1>8, <1>9, <1>10 DEF ScanResult

(* at names, in order, the positions among the first n of q whose messages *)
(* do not carry the tag, and r holds those messages.                       *)
KeptUpTo(at, r, q, n, tag) ==
  /\ at \in [1..Len(r) -> 1..n]
  /\ \A i, j \in 1..Len(r) : i < j => at[i] < at[j]
  /\ \A i \in 1..Len(r) : r[i] = q[at[i]]
  /\ \A k \in 1..n : q[k].tag # tag <=> \E i \in 1..Len(r) : at[i] = k

(* cancel() keeps exactly the messages that do not carry the tag, in the   *)
(* order in which they were waiting.                                       *)
LEMMA CancelScanKeeps ==
  ASSUME NEW M, Sized(M), NEW q \in Seq(M), NEW tag
  PROVE  \E at : KeptUpTo(at, CancelScan(q, tag).kept, q, Len(q), tag)
<1> DEFINE s == PrefixScan(q, tag)
           Good(n) == s[n].kept \in Seq(M) /\ \E at : KeptUpTo(at, s[n].kept, q, n, tag)
           S == {n \in Nat : n <= Len(q) => Good(n)}
<1>1. /\ s[0] = [kept |-> <<>>, removedBytes |-> 0]
      /\ \A i \in 1..Len(q) : s[i] = ScanStep(s[i - 1], q[i], tag)
  BY PrefixScanStep
<1> HIDE DEF s
<1>2. 0 \in S
  <2>1. s[0].kept = <<>> BY <1>1
  <2> DEFINE none == [i \in 1..0 |-> 0]
  <2>2. KeptUpTo(none, <<>>, q, 0, tag)
    BY DEF KeptUpTo
  <2> HIDE DEF none
  <2>3. <<>> \in Seq(M)
    OBVIOUS
  <2>4. Good(0)
    BY <2>1, <2>2, <2>3
  <2>5. QED BY <2>4
<1>3. ASSUME NEW n \in S PROVE n + 1 \in S
  <2>1. SUFFICES ASSUME n + 1 <= Len(q) PROVE Good(n + 1)
    OBVIOUS
  <2>2. n \in Nat /\ Good(n) BY <2>1
  <2>3. PICK at : KeptUpTo(at, s[n].kept, q, n, tag)
    BY <2>2
  <2>4. s[n + 1] = ScanStep(s[n], q[n + 1], tag) /\ q[n + 1] \in M
    <3>1. n + 1 \in 1..Len(q) /\ (n + 1) - 1 = n
      BY <2>1, <2>2
    <3>2. QED BY <1>1, <3>1
  <2>5. PICK old \in Seq(M) : old = s[n].kept
    BY <2>2
  <2>6. PICK m \in Nat : m = Len(old)
    OBVIOUS
  <2>a. /\ at \in [1..m -> 1..n]
        /\ \A i, j \in 1..m : i < j => at[i] < at[j]
        /\ \A i \in 1..m : old[i] = q[at[i]]
        /\ \A k \in 1..n : q[k].tag # tag <=> \E i \in 1..m : at[i] = k
    BY <2>3, <2>5, <2>6 DEF KeptUpTo
  <2>7. CASE q[n + 1].tag = tag
    <3>1. s[n + 1].kept = old
      BY <2>4, <2>5, <2>7 DEF ScanStep
    <3>2. at \in [1..m -> 1..n + 1] /\ \A i \in 1..m : at[i] # n + 1
      <4>1. n \in Nat BY <2>2
      <4>2. 1..n \subseteq 1..n + 1 /\ n + 1 \notin 1..n
        BY <4>1
      <4>3. \A i \in 1..m : at[i] \in 1..n
        BY <2>a
      <4>4. DOMAIN at = 1..m /\ at = [i \in 1..m |-> at[i]]
        BY <2>a
      <4>5. QED BY <4>2, <4>3, <4>4
    <3>3. \A k \in 1..n + 1 : q[k].tag # tag <=> \E i \in 1..m : at[i] = k
      <4>1. TAKE k \in 1..n + 1
      <4>2. CASE k = n + 1
        BY <2>7, <3>2, <4>2
      <4>3. CASE k # n + 1
        <5>1. k \in 1..n BY <2>2, <4>3
        <5>2. QED BY <2>a, <5>1
      <4>4. QED BY <4>2, <4>3
    <3>4. KeptUpTo(at, old, q, n + 1, tag)
      BY <2>6, <2>a, <3>2, <3>3 DEF KeptUpTo
    <3>5. QED BY <3>1, <3>4
  <2>8. CASE q[n + 1].tag # tag
    <3>1. s[n + 1].kept = Append(old, q[n + 1])
      BY <2>4, <2>5, <2>8 DEF ScanStep
    <3> DEFINE new == Append(old, q[n + 1])
               to == [i \in 1..m + 1 |-> IF i <= m THEN at[i] ELSE n + 1]
    <3>2. new \in Seq(M) /\ Len(new) = m + 1 /\ new[m + 1] = q[n + 1]
          /\ \A i \in 1..m : new[i] = old[i]
      BY <2>4, <2>6
    <3> HIDE DEF new
    <3>3. to \in [1..m + 1 -> 1..n + 1]
      BY <2>2, <2>6, <2>a
    <3>4. to[m + 1] = n + 1 /\ \A i \in 1..m : to[i] = at[i] /\ i \in 1..m + 1
      BY <2>6
    <3> HIDE DEF to
    <3>5. \A i, j \in 1..m + 1 : i < j => to[i] < to[j]
      <4>1. TAKE i, j \in 1..m + 1
      <4>2. HAVE i < j
      <4>3. i \in 1..m /\ at[i] \in 1..n
        BY SMTT(30), <2>6, <2>a, <4>2
      <4>4. CASE j = m + 1
        BY <2>2, <3>4, <4>3, <4>4
      <4>5. CASE j # m + 1
        <5>1. j \in 1..m BY <2>6, <4>5
        <5>2. QED BY <2>a, <3>4, <4>2, <4>3, <5>1
      <4>6. QED BY <4>4, <4>5
    <3>6. \A i \in 1..m + 1 : new[i] = q[to[i]]
      BY <2>6, <2>a, <3>2, <3>4
    <3>7. \A k \in 1..n + 1 : q[k].tag # tag <=> \E i \in 1..m + 1 : to[i] = k
      <4>1. TAKE k \in 1..n + 1
      <4>2. CASE k = n + 1
        <5>1. m + 1 \in 1..m + 1 BY <2>6
        <5>2. QED BY <2>8, <3>4, <4>2, <5>1
      <4>3. CASE k # n + 1
        <5>1. k \in 1..n BY <2>2, <4>3
        <5>2. \A i \in 1..m + 1 : to[i] = k => i \in 1..m
          BY <2>6, <3>4, <4>3
        <5>3. QED BY <2>a, <3>4, <5>1, <5>2
      <4>4. QED BY <4>2, <4>3
    <3>8. KeptUpTo(to, new, q, n + 1, tag)
      BY <3>2, <3>3, <3>5, <3>6, <3>7 DEF KeptUpTo
    <3>9. QED BY <3>1, <3>2, <3>8 DEF new
  <2>9. QED BY <2>7, <2>8
<1>4. S = Nat
  <2> HIDE DEF S
  <2>1. S \subseteq Nat BY DEF S
  <2>2. QED BY <1>2, <1>3, <2>1, NatSetInduction
<1>5. Good(Len(q))
  <2>1. Len(q) \in S BY <1>4
  <2>2. QED BY <2>1
<1>6. CancelScan(q, tag) = s[Len(q)]
  BY DEF CancelScan, s
<1>7. QED BY <1>5, <1>6

------------------------------------------------------------------------------
(* Drafts.                                                                 *)

Draft ==
  [disposed : BOOLEAN, busy : BOOLEAN, queue : Seq(Message), queueBytes : Nat,
   acceptedBytes : Nat, current : Message \cup {NoMessage},
   fragmentOffset : Nat, awaitingFlush : BOOLEAN, draining : BOOLEAN,
   drainLastBuffered : Level \cup {NoLevel}, reservedBytes : Nat,
   callbacks : Seq(Callback), wire : Seq(Fragment), completed : Seq(Message),
   emitted : Seq(Signal)]

BytesOf(m) == IF m = NoMessage THEN 0 ELSE m.size

(* The counters are what they claim to count.                              *)
Counted(d) ==
  /\ d.queueBytes = SumSizes(d.queue)
  /\ d.acceptedBytes = d.queueBytes + BytesOf(d.current)
  /\ d.reservedBytes = othersBytes + d.acceptedBytes
  /\ d.reservedBytes <= SharedMax
  /\ d.acceptedBytes <= AcceptBudget

(* The queue is within its limits, or holds the one message that is about  *)
(* to leave it.                                                            *)
Roomy(d) ==
  \/ Len(d.queue) <= MaxQueueMessages /\ d.queueBytes <= MaxQueueBytes
  \/ Len(d.queue) = 1 /\ d.current = NoMessage

(* What is outstanding belongs to the message in flight.                   *)
Outstanding(d) ==
  /\ ~(d.awaitingFlush /\ d.draining)
  /\ d.awaitingFlush \/ d.draining => d.current # NoMessage
  /\ d.current # NoMessage => d.fragmentOffset <= d.current.size
  /\ Len(d.callbacks) <= 1
  /\ d.awaitingFlush =>
       /\ Len(d.callbacks) = 1
       /\ d.callbacks[1].message = d.current
       /\ d.fragmentOffset + d.callbacks[1].bytes <= d.current.size
  /\ ~d.awaitingFlush /\ ~d.disposed => d.callbacks = <<>>
  /\ d.disposed => d.current = NoMessage /\ d.queue = <<>>

(* A draft as handlers pass it to pump().                                  *)
Sound(d) ==
  /\ d \in Draft
  /\ Counted(d)
  /\ Roomy(d)
  /\ Outstanding(d)

(* Busy edges are up to date: every caller of pump() has refreshed them.   *)
BusyFresh(d) == d.busy <=> d.acceptedBytes > 0

(* A draft pump() has returned: nothing waits for a wake-up that is not    *)
(* coming.                                                                 *)
Settled(d) ==
  /\ Sound(d)
  /\ BusyFresh(d)
  /\ d.current # NoMessage => d.awaitingFlush \/ d.draining
  /\ d.queue # <<>> => d.current # NoMessage

(* The socket as a handler finds it.                                       *)
Env == othersBytes \in Nat /\ buffered \in Level

------------------------------------------------------------------------------
(* Every message has a natural size, so the lemmas on SumSizes apply to    *)
(* the queue of a sender.                                                  *)
LEMMA MessageSized == SenderAssumption => Sized(Message)
BY DEF SenderAssumption, Sized, Message

(* The bytes of one message, or of none, are a natural number.             *)
LEMMA BytesOfNat ==
  ASSUME SenderAssumption, NEW m \in Message \cup {NoMessage}
  PROVE  BytesOf(m) \in Nat
BY DEF SenderAssumption, BytesOf, Message

(* refreshBusy() changes nothing but the edge and its notification.        *)
LEMMA RefreshBusyDraft ==
  ASSUME NEW d \in Draft
  PROVE  LET e == RefreshBusy(d)
         IN  /\ e \in Draft
             /\ e.disposed = d.disposed /\ e.queue = d.queue
             /\ e.queueBytes = d.queueBytes /\ e.acceptedBytes = d.acceptedBytes
             /\ e.current = d.current /\ e.fragmentOffset = d.fragmentOffset
             /\ e.awaitingFlush = d.awaitingFlush /\ e.draining = d.draining
             /\ e.reservedBytes = d.reservedBytes /\ e.callbacks = d.callbacks
             /\ e.wire = d.wire /\ e.completed = d.completed
             /\ e.busy = (d.acceptedBytes > 0)
<1> DEFINE active == d.acceptedBytes > 0
           signals == Append(d.emitted, IF active THEN "busy" ELSE "idle")
<1>1. active \in BOOLEAN
  OBVIOUS
<1>2. signals \in Seq(Signal)
  BY DEF Draft, Signal
<1>3. RefreshBusy(d) = IF active = d.busy THEN d
                       ELSE [d EXCEPT !.busy = active, !.emitted = signals]
  BY DEF RefreshBusy
<1> HIDE DEF active, signals
<1>4. CASE active = d.busy
  BY <1>3, <1>4 DEF active
<1>5. CASE active # d.busy
  <2>1. [d EXCEPT !.busy = active, !.emitted = signals] \in Draft
    BY <1>1, <1>2 DEF Draft
  <2>2. ASSUME NEW e, e = [d EXCEPT !.busy = active, !.emitted = signals]
        PROVE  /\ e.disposed = d.disposed /\ e.queue = d.queue
               /\ e.queueBytes = d.queueBytes /\ e.acceptedBytes = d.acceptedBytes
               /\ e.current = d.current /\ e.fragmentOffset = d.fragmentOffset
               /\ e.awaitingFlush = d.awaitingFlush /\ e.draining = d.draining
               /\ e.reservedBytes = d.reservedBytes /\ e.callbacks = d.callbacks
               /\ e.wire = d.wire /\ e.completed = d.completed
               /\ e.busy = active
    BY <2>2 DEF Draft
  <2>3. RefreshBusy(d) = [d EXCEPT !.busy = active, !.emitted = signals]
    BY <1>3, <1>5
  <2>4. QED BY <2>1, <2>2, <2>3 DEF active
<1>6. QED BY <1>4, <1>5

(* A draft that is sound but for its busy edge is sound after refreshBusy. *)
LEMMA RefreshBusySound ==
  ASSUME SenderAssumption, Env, NEW d, Sound(d)
  PROVE  Sound(RefreshBusy(d)) /\ BusyFresh(RefreshBusy(d))
<1>1. d \in Draft BY DEF Sound
<1>2. QED BY <1>1, RefreshBusyDraft DEF Sound, Counted, Roomy, Outstanding, BusyFresh

(* dispose() returns every byte this sender holds, and only those.         *)
LEMMA DisposedSettled ==
  ASSUME SenderAssumption, Env, NEW d, d \in Draft, Counted(d), Len(d.callbacks) <= 1
  PROVE  Settled(Disposed(d))
<1> DEFINE rest == Released(d.reservedBytes, d.acceptedBytes)
<1>0. /\ d.acceptedBytes \in Nat /\ d.reservedBytes \in Nat /\ othersBytes \in Nat
      /\ SharedMax \in Nat /\ d.reservedBytes = othersBytes + d.acceptedBytes
      /\ d.reservedBytes <= SharedMax
  BY DEF Counted, Draft, Env, SenderAssumption
<1>1. rest \in Nat /\ rest = othersBytes
  BY SMTT(30), <1>0 DEF Released
<1>2. Disposed(d) =
        [d EXCEPT !.disposed = TRUE, !.busy = FALSE, !.queue = <<>>,
            !.queueBytes = 0, !.acceptedBytes = 0, !.current = NoMessage,
            !.fragmentOffset = 0, !.awaitingFlush = FALSE, !.draining = FALSE,
            !.drainLastBuffered = NoLevel, !.reservedBytes = rest]
  BY DEF Disposed
<1> HIDE DEF rest
<1>3. ASSUME NEW q \in Seq(Message),
             NEW e, e = [d EXCEPT !.disposed = TRUE, !.busy = FALSE, !.queue = q,
                 !.queueBytes = 0, !.acceptedBytes = 0, !.current = NoMessage,
                 !.fragmentOffset = 0, !.awaitingFlush = FALSE, !.draining = FALSE,
                 !.drainLastBuffered = NoLevel, !.reservedBytes = rest]
      PROVE  /\ e \in Draft
             /\ e.disposed = TRUE /\ e.busy = FALSE /\ e.queue = q
             /\ e.queueBytes = 0 /\ e.acceptedBytes = 0 /\ e.current = NoMessage
             /\ e.fragmentOffset = 0 /\ e.awaitingFlush = FALSE /\ e.draining = FALSE
             /\ e.reservedBytes = rest /\ e.callbacks = d.callbacks
  BY <1>1, <1>3 DEF Draft
<1>4. <<>> \in Seq(Message) /\ Len(<<>>) = 0
  OBVIOUS
<1>5. SumSizes(<<>>) = 0
  BY SumSizesEmpty, MessageSized
<1>6. {MaxQueueMessages, MaxQueueBytes, AcceptBudget} \subseteq Nat
  BY DEF SenderAssumption
<1>7. rest <= SharedMax
  BY <1>0, <1>1
<1> DEFINE e == Disposed(d)
<1>8. /\ e \in Draft
      /\ e.disposed = TRUE /\ e.busy = FALSE /\ e.queue = <<>>
      /\ e.queueBytes = 0 /\ e.acceptedBytes = 0 /\ e.current = NoMessage
      /\ e.fragmentOffset = 0 /\ e.awaitingFlush = FALSE /\ e.draining = FALSE
      /\ e.reservedBytes = rest /\ e.callbacks = d.callbacks
  <2>1. e = [d EXCEPT !.disposed = TRUE, !.busy = FALSE, !.queue = <<>>,
                      !.queueBytes = 0, !.acceptedBytes = 0, !.current = NoMessage,
                      !.fragmentOffset = 0, !.awaitingFlush = FALSE, !.draining = FALSE,
                      !.drainLastBuffered = NoLevel, !.reservedBytes = rest]
    BY <1>2
  <2> HIDE DEF e
  <2>2. QED BY <1>3, <1>4, <2>1
<1> HIDE DEF e
<1>9. Counted(e)
  BY <1>0, <1>1, <1>5, <1>6, <1>7, <1>8 DEF Counted, BytesOf
<1>10. Roomy(e)
  BY <1>4, <1>6, <1>8 DEF Roomy
<1>11. Outstanding(e)
  BY <1>8 DEF Outstanding
<1>12. Settled(e)
  BY <1>8, <1>9, <1>10, <1>11 DEF Settled, Sound, BusyFresh
<1>13. QED BY <1>12 DEF e

(* fail() leaves what dispose() leaves.                                    *)
LEMMA FailSettled ==
  ASSUME SenderAssumption, Env, NEW d, d \in Draft, Counted(d), Len(d.callbacks) <= 1
  PROVE  Settled(Fail(d))
<1> DEFINE e == Disposed(d)
           signals == Append(e.emitted, "failure")
           f == [e EXCEPT !.emitted = signals]
<1>1. Settled(e)
  BY DisposedSettled
<1>2. Fail(d) = f
  BY DEF Fail
<1> HIDE DEF e
<1>3. e \in Draft
  BY <1>1 DEF Settled, Sound
<1>4. signals \in Seq(Signal)
  BY <1>3 DEF Draft, Signal
<1> HIDE DEF signals
<1>5. ASSUME NEW g, g = f
      PROVE  /\ g \in Draft
             /\ g.disposed = e.disposed /\ g.busy = e.busy /\ g.queue = e.queue
             /\ g.queueBytes = e.queueBytes /\ g.acceptedBytes = e.acceptedBytes
             /\ g.current = e.current /\ g.fragmentOffset = e.fragmentOffset
             /\ g.awaitingFlush = e.awaitingFlush /\ g.draining = e.draining
             /\ g.reservedBytes = e.reservedBytes /\ g.callbacks = e.callbacks
  BY <1>3, <1>4, <1>5 DEF Draft
<1> HIDE DEF f
<1>6. Settled(f)
  BY <1>1, <1>5 DEF Settled, Sound, Counted, Roomy, Outstanding, BusyFresh
<1>7. QED BY <1>2, <1>6

(* A fragment ends inside its message and never before it begins.          *)
LEMMA FragmentEndBounds ==
  ASSUME SenderAssumption, NEW m \in Message, NEW offset \in Nat, offset <= m.size
  PROVE  /\ FragmentEnd(m, offset) \in Nat
         /\ offset <= FragmentEnd(m, offset)
         /\ FragmentEnd(m, offset) <= m.size
<1>1. m.size \in Nat /\ FragmentBytes \in Nat
  BY DEF SenderAssumption, Message
<1>2. QED BY <1>1 DEF FragmentEnd, Min2

(* Handing over a fragment leaves exactly its callback outstanding.        *)
LEMMA SubmitSettled ==
  ASSUME SenderAssumption, Env, NEW d, Sound(d), BusyFresh(d),
         d.current # NoMessage, ~d.awaitingFlush, ~d.draining, ~d.disposed
  PROVE  Settled(Submit(d, FragmentEnd(d.current, d.fragmentOffset)))
<1> DEFINE end == FragmentEnd(d.current, d.fragmentOffset)
           cb == [message |-> d.current, bytes |-> end - d.fragmentOffset,
                  isLast |-> end >= d.current.size]
           fragment == [message |-> d.current, from |-> d.fragmentOffset,
                        to |-> end, fin |-> end >= d.current.size]
           cbs == Append(d.callbacks, cb)
           frags == Append(d.wire, fragment)
           e == [d EXCEPT !.awaitingFlush = TRUE, !.callbacks = cbs, !.wire = frags]
<1>1. Submit(d, end) = e
  BY DEF Submit
<1>2. /\ d \in Draft /\ d.current \in Message /\ d.fragmentOffset \in Nat
      /\ d.fragmentOffset <= d.current.size /\ d.current.size \in Nat
      /\ d.callbacks = <<>>
  BY DEF Sound, Outstanding, Draft, SenderAssumption, Message
<1>3. end \in Nat /\ d.fragmentOffset <= end /\ end <= d.current.size
  BY <1>2, FragmentEndBounds
<1> HIDE DEF end
<1>4. cb \in Callback /\ fragment \in Fragment
  BY <1>2, <1>3 DEF Callback, Fragment
<1>5. cb.message = d.current /\ d.fragmentOffset + cb.bytes <= d.current.size
  BY <1>2, <1>3
<1> HIDE DEF cb, fragment
<1>6. cbs \in Seq(Callback) /\ Len(cbs) = 1 /\ cbs[1] = cb
  BY <1>2, <1>4
<1>7. frags \in Seq(Fragment)
  BY <1>2, <1>4 DEF Draft
<1> HIDE DEF cbs, frags
<1>8. /\ e \in Draft
      /\ e.disposed = d.disposed /\ e.busy = d.busy /\ e.queue = d.queue
      /\ e.queueBytes = d.queueBytes /\ e.acceptedBytes = d.acceptedBytes
      /\ e.current = d.current /\ e.fragmentOffset = d.fragmentOffset
      /\ e.awaitingFlush = TRUE /\ e.draining = d.draining
      /\ e.reservedBytes = d.reservedBytes /\ e.callbacks = cbs
  BY <1>2, <1>6, <1>7 DEF Draft
<1> HIDE DEF e
<1>9. Outstanding(e)
  <2>1. e.draining = FALSE /\ e.disposed = FALSE
    BY <1>8 DEF Sound, Draft
  <2>2. /\ Len(e.callbacks) = 1 /\ e.callbacks[1].message = e.current
        /\ e.fragmentOffset + e.callbacks[1].bytes <= e.current.size
    BY <1>5, <1>6, <1>8
  <2>3. QED BY <1>2, <1>8, <2>1, <2>2 DEF Outstanding
<1>10. Settled(e)
  BY <1>8, <1>9 DEF Settled, Sound, Counted, Roomy, BusyFresh
<1>11. QED BY <1>1, <1>10 DEF end

(* commit() ends with something outstanding, or with a disposed sender.    *)
LEMMA CommitSettled ==
  ASSUME SenderAssumption, Env, NEW d, Sound(d), BusyFresh(d), NEW throws \in BOOLEAN,
         d.current # NoMessage, ~d.awaitingFlush, ~d.draining, ~d.disposed
  PROVE  Settled(Commit(d, throws))
<1> DEFINE e == [d EXCEPT !.drainLastBuffered = buffered, !.draining = TRUE]
<1>1. CASE FragmentBytes > 0 /\ buffered > HighWater
  <2>1. Commit(d, throws) = e
    BY <1>1 DEF Commit
  <2>2. /\ e \in Draft
        /\ e.disposed = d.disposed /\ e.busy = d.busy /\ e.queue = d.queue
        /\ e.queueBytes = d.queueBytes /\ e.acceptedBytes = d.acceptedBytes
        /\ e.current = d.current /\ e.fragmentOffset = d.fragmentOffset
        /\ e.awaitingFlush = d.awaitingFlush /\ e.draining = TRUE
        /\ e.reservedBytes = d.reservedBytes /\ e.callbacks = d.callbacks
    BY DEF Sound, Draft, Env
  <2> HIDE DEF e
  <2>3. Settled(e)
    BY <2>2 DEF Settled, Sound, Counted, Roomy, Outstanding, BusyFresh
  <2>4. QED BY <2>1, <2>3
<1>2. CASE ~(FragmentBytes > 0 /\ buffered > HighWater) /\ (readyState # "open" \/ throws)
  <2>1. Commit(d, throws) = Fail(d)
    BY <1>2 DEF Commit
  <2>2. QED BY <2>1, FailSettled DEF Sound, Outstanding
<1>3. CASE ~(FragmentBytes > 0 /\ buffered > HighWater) /\ ~(readyState # "open" \/ throws)
  <2>1. Commit(d, throws) = Submit(d, FragmentEnd(d.current, d.fragmentOffset))
    BY <1>3 DEF Commit
  <2>2. QED BY <1>3, <2>1, SubmitSettled
<1>4. QED BY <1>1, <1>2, <1>3

(* Taking the head of the queue moves its bytes from waiting to in flight. *)
LEMMA ShiftedSound ==
  ASSUME SenderAssumption, Env, NEW d, Sound(d), BusyFresh(d),
         d.current = NoMessage, d.queue # <<>>
  PROVE  LET e == Shifted(d)
         IN  /\ Sound(e) /\ BusyFresh(e)
             /\ e.current # NoMessage /\ e.awaitingFlush = d.awaitingFlush
             /\ e.draining = d.draining /\ e.disposed = d.disposed
<1> DEFINE m == Head(d.queue)
           q == Tail(d.queue)
           left == d.queueBytes - m.size
           e == [d EXCEPT !.current = m, !.fragmentOffset = 0, !.queue = q, !.queueBytes = left]
<1>1. Shifted(d) = e
  BY DEF Shifted
<1>2. /\ d \in Draft /\ d.queue \in Seq(Message) /\ d.queueBytes \in Nat
      /\ Len(d.callbacks) <= 1 /\ d.acceptedBytes \in Nat /\ d.reservedBytes \in Nat
  BY DEF Sound, Draft, Outstanding
<1>3. m \in Message /\ q \in Seq(Message) /\ Len(d.queue) = Len(q) + 1 /\ Len(q) \in Nat
  BY SMTT(30), <1>2
<1>4. m.size \in Nat /\ m.size <= d.queueBytes
  BY <1>2, SumSizesHead, MessageSized DEF Sound, Counted
<1>5. d.queueBytes = m.size + SumSizes(q)
  BY <1>2, SumSizesTail, MessageSized DEF Sound, Counted
<1> HIDE DEF m, q
<1>6. SumSizes(q) \in Nat
  BY <1>3, SumSizesNat, MessageSized
<1>7. left \in Nat /\ left = SumSizes(q) /\ left <= d.queueBytes
  <2>1. \A a, b, c \in Nat : a = b + c => a - b \in Nat /\ a - b = c /\ a - b <= a
    OBVIOUS
  <2>2. d.queueBytes \in Nat /\ m.size \in Nat
    BY <1>2, <1>4
  <2>3. QED BY <1>5, <1>6, <2>1, <2>2
<1>8. m # NoMessage
  <2>1. NoMessage \notin Message BY DEF SenderAssumption
  <2>2. QED BY <1>3, <2>1
<1>9. Len(q) = 0 => left = 0
  <2>1. Len(q) = 0 => q = <<>>
    BY <1>3
  <2>2. QED BY <1>7, <2>1, SumSizesEmpty, MessageSized
<1> HIDE DEF left
<1>10. /\ e \in Draft
       /\ e.disposed = d.disposed /\ e.busy = d.busy /\ e.queue = q
       /\ e.queueBytes = left /\ e.acceptedBytes = d.acceptedBytes
       /\ e.current = m /\ e.fragmentOffset = 0
       /\ e.awaitingFlush = d.awaitingFlush /\ e.draining = d.draining
       /\ e.reservedBytes = d.reservedBytes /\ e.callbacks = d.callbacks
  BY <1>2, <1>3, <1>7 DEF Draft
<1> HIDE DEF e
<1>11. Counted(e)
  <2>1. /\ d.acceptedBytes = d.queueBytes /\ d.reservedBytes = othersBytes + d.acceptedBytes
        /\ d.reservedBytes <= SharedMax /\ d.acceptedBytes <= AcceptBudget
    BY <1>2 DEF Sound, Counted, BytesOf
  <2>2. left + m.size = d.queueBytes
    BY <1>2, <1>4, <1>5, <1>6, <1>7
  <2>3. BytesOf(e.current) = m.size
    BY <1>8, <1>10 DEF BytesOf
  <2>4. QED BY <1>7, <1>10, <2>1, <2>2, <2>3 DEF Counted
<1>12. Roomy(e)
  <2>1. {MaxQueueMessages, MaxQueueBytes} \subseteq Nat
    BY DEF SenderAssumption
  <2>2. \/ Len(d.queue) <= MaxQueueMessages /\ d.queueBytes <= MaxQueueBytes
        \/ Len(q) = 0
    BY <1>3 DEF Sound, Roomy
  <2>3. Len(q) <= MaxQueueMessages /\ left <= MaxQueueBytes
    BY <1>2, <1>3, <1>7, <1>9, <2>1, <2>2
  <2>4. QED BY <1>10, <2>3 DEF Roomy
<1>13. Outstanding(e)
  BY <1>4, <1>8, <1>10 DEF Sound, Outstanding
<1>14. QED
  BY <1>1, <1>8, <1>10, <1>11, <1>12, <1>13 DEF Sound, BusyFresh

(* pump() never leaves work without something outstanding for it.          *)
LEMMA PumpSettled ==
  ASSUME SenderAssumption, Env, NEW d, Sound(d), BusyFresh(d), NEW throws \in BOOLEAN
  PROVE  Settled(Pump(d, throws))
<1>1. CASE d.disposed \/ d.awaitingFlush \/ d.draining
  BY <1>1 DEF Pump, Settled, Sound, Outstanding, BusyFresh
<1>2. CASE ~(d.disposed \/ d.awaitingFlush \/ d.draining) /\ d.current # NoMessage
  <2>1. Pump(d, throws) = Commit(d, throws)
    BY <1>2 DEF Pump
  <2>2. QED BY <1>2, <2>1, CommitSettled
<1>3. CASE ~(d.disposed \/ d.awaitingFlush \/ d.draining) /\ d.current = NoMessage
           /\ d.queue = <<>>
  BY <1>3 DEF Pump, Settled, BusyFresh
<1>4. CASE ~(d.disposed \/ d.awaitingFlush \/ d.draining) /\ d.current = NoMessage
           /\ d.queue # <<>>
  <2> DEFINE e == Shifted(d)
  <2>1. /\ Sound(e) /\ BusyFresh(e) /\ e.current # NoMessage
        /\ ~e.awaitingFlush /\ ~e.draining /\ ~e.disposed
    BY <1>4, ShiftedSound
  <2>2. Pump(d, throws) = Commit(e, throws)
    BY <1>4 DEF Pump
  <2> HIDE DEF e
  <2>3. QED BY <2>1, <2>2, CommitSettled
<1>5. QED BY <1>1, <1>2, <1>3, <1>4

------------------------------------------------------------------------------
(* The inductive invariant: a settled sender in an environment of the      *)
(* right types.                                                            *)
IInv ==
  /\ Settled(Now)
  /\ Env
  /\ readyState \in {"open", "closed"}
  /\ nextId \in Nat
  /\ emitted \in Seq(Signal)

(* The draft a handler starts from shows the current state field by        *)
(* field.                                                                  *)
LEMMA NowFields ==
  /\ Now.disposed = disposed /\ Now.busy = busy /\ Now.queue = queue
  /\ Now.queueBytes = queueBytes /\ Now.acceptedBytes = acceptedBytes
  /\ Now.current = current /\ Now.fragmentOffset = fragmentOffset
  /\ Now.awaitingFlush = awaitingFlush /\ Now.draining = draining
  /\ Now.drainLastBuffered = drainLastBuffered
  /\ Now.reservedBytes = reservedBytes /\ Now.callbacks = callbacks
  /\ Now.wire = wire /\ Now.completed = completed /\ Now.emitted = <<>>
BY DEF Now

(* The state a handler leaves is the draft it has built.                   *)
LEMMA BecomeSettled ==
  ASSUME NEW d, Settled(d), Become(d)
  PROVE  Settled(Now)' /\ othersBytes' = othersBytes /\ emitted' \in Seq(Signal)
<1>1. d \in Draft
  BY DEF Settled, Sound
<1>2. /\ d.disposed \in BOOLEAN /\ d.busy \in BOOLEAN /\ d.queue \in Seq(Message)
      /\ d.queueBytes \in Nat /\ d.acceptedBytes \in Nat
      /\ d.current \in Message \cup {NoMessage} /\ d.fragmentOffset \in Nat
      /\ d.awaitingFlush \in BOOLEAN /\ d.draining \in BOOLEAN
      /\ d.drainLastBuffered \in Level \cup {NoLevel} /\ d.reservedBytes \in Nat
      /\ d.callbacks \in Seq(Callback) /\ d.wire \in Seq(Fragment)
      /\ d.completed \in Seq(Message) /\ d.emitted \in Seq(Signal)
  BY <1>1 DEF Draft
<1> DEFINE n == Now'
<1>3. /\ n.disposed = d.disposed /\ n.busy = d.busy /\ n.queue = d.queue
      /\ n.queueBytes = d.queueBytes /\ n.acceptedBytes = d.acceptedBytes
      /\ n.current = d.current /\ n.fragmentOffset = d.fragmentOffset
      /\ n.awaitingFlush = d.awaitingFlush /\ n.draining = d.draining
      /\ n.reservedBytes = d.reservedBytes /\ n.callbacks = d.callbacks
  BY DEF Become, Now
<1>4. n \in Draft
  <2>1. <<>> \in Seq(Signal) OBVIOUS
  <2>2. QED BY <1>2, <2>1 DEF Become, Now, Draft
<1>5. othersBytes' = othersBytes /\ emitted' \in Seq(Signal)
  BY <1>2 DEF Become
<1> HIDE DEF n
<1>6. /\ d.queueBytes = SumSizes(d.queue)
      /\ d.acceptedBytes = d.queueBytes + BytesOf(d.current)
      /\ d.reservedBytes = othersBytes + d.acceptedBytes
      /\ d.reservedBytes <= SharedMax /\ d.acceptedBytes <= AcceptBudget
  BY DEF Settled, Sound, Counted
<1>7. /\ n.queueBytes = SumSizes(n.queue)
      /\ n.acceptedBytes = n.queueBytes + BytesOf(n.current)
      /\ n.reservedBytes = othersBytes' + n.acceptedBytes
      /\ n.reservedBytes <= SharedMax /\ n.acceptedBytes <= AcceptBudget
  BY <1>3, <1>5, <1>6
<1>8. Roomy(n) /\ Outstanding(n) /\ BusyFresh(n)
      /\ (n.current # NoMessage => n.awaitingFlush \/ n.draining)
      /\ (n.queue # <<>> => n.current # NoMessage)
  BY <1>3 DEF Settled, Sound, Roomy, Outstanding, BusyFresh
<1>9. QED
  BY <1>4, <1>5, <1>7, <1>8 DEF n, Settled, Sound, Counted, Roomy, Outstanding, BusyFresh

(* A state that satisfies the inductive invariant gives a handler a draft  *)
(* whose counters agree with its messages.                                 *)
LEMMA NowCounted ==
  ASSUME IInv
  PROVE  /\ queueBytes = SumSizes(queue)
         /\ acceptedBytes = queueBytes + BytesOf(current)
         /\ reservedBytes = othersBytes + acceptedBytes
         /\ reservedBytes <= SharedMax /\ acceptedBytes <= AcceptBudget
BY NowFields DEF IInv, Settled, Sound, Counted

(* ... and one that is sound as a whole.                                   *)
LEMMA NowSound ==
  ASSUME IInv
  PROVE  /\ Sound(Now) /\ BusyFresh(Now) /\ Now \in Draft
         /\ current # NoMessage => awaitingFlush \/ draining
         /\ queue # <<>> => current # NoMessage
BY NowFields DEF IInv, Settled, Sound

(* The constructor establishes the inductive invariant.                    *)
LEMMA InitIInv ==
  ASSUME SenderAssumption, Init
  PROVE  IInv
<1>1. /\ <<>> \in Seq(Message) /\ <<>> \in Seq(Callback) /\ <<>> \in Seq(Fragment)
      /\ <<>> \in Seq(Signal) /\ Len(<<>>) = 0
  OBVIOUS
<1>2. /\ {MaxQueueMessages, MaxQueueBytes, AcceptBudget, SharedMax} \subseteq Nat
      /\ 0 \in Level
  BY DEF SenderAssumption
<1>3. SumSizes(<<>>) = 0
  BY SumSizesEmpty, MessageSized
<1>4. Now \in Draft
  BY <1>1 DEF Init, Now, Draft
<1>5. Counted(Now)
  BY <1>2, <1>3, NowFields DEF Init, Counted, BytesOf
<1>6. Roomy(Now) /\ Outstanding(Now) /\ BusyFresh(Now)
  BY <1>1, <1>2, NowFields DEF Init, Roomy, Outstanding, BusyFresh
<1>7. Settled(Now)
  BY <1>4, <1>5, <1>6, NowFields DEF Init, Settled, Sound
<1>8. QED
  BY <1>1, <1>2, <1>7 DEF Init, IInv, Env

(* A handler that ends in a settled draft preserves the invariant.         *)
LEMMA HandlerIInv ==
  ASSUME SenderAssumption, IInv, NEW d, Settled(d), Become(d),
         UNCHANGED <<readyState, buffered>>, nextId' \in Nat
  PROVE  IInv'
BY BecomeSettled DEF IInv, Env

(* A message enqueue() accepts passed every limit.                         *)
LEMMA VerdictAccepted ==
  ASSUME NEW size, Verdict(size) = "accepted"
  PROVE  /\ ~disposed
         /\ ~(acceptedBytes + size > AcceptBudget)
         /\ current # NoMessage => /\ ~(Len(queue) + 1 > MaxQueueMessages)
                                   /\ ~(queueBytes + size > MaxQueueBytes)
         /\ reservedBytes + size <= SharedMax
BY DEF Verdict, TryReserve

(* What enqueue() hands to pump() is sound: the message is charged in full *)
(* to all three counters, and none of the limits it passed is exceeded.    *)
LEMMA AcceptedSound ==
  ASSUME SenderAssumption, IInv, NEW item \in Message, Verdict(item.size) = "accepted"
  PROVE  Sound(Accepted(item)) /\ BusyFresh(Accepted(item))
<1> DEFINE size == item.size
           q == Append(queue, item)
           qb == queueBytes + size
           acc == acceptedBytes + size
           res == reservedBytes + size
           d == [Now EXCEPT !.queue = q, !.queueBytes = qb, !.acceptedBytes = acc,
                            !.reservedBytes = res]
<1>1. Accepted(item) = RefreshBusy(d)
  BY NowFields DEF Accepted
<1>2. /\ Sound(Now) /\ Now \in Draft
      /\ current # NoMessage => awaitingFlush \/ draining
      /\ queue # <<>> => current # NoMessage
  BY NowSound
<1>3. /\ queue \in Seq(Message) /\ queueBytes \in Nat /\ acceptedBytes \in Nat
      /\ reservedBytes \in Nat /\ disposed \in BOOLEAN
      /\ current \in Message \cup {NoMessage}
  BY <1>2, NowFields DEF Draft
<1>4. size \in Nat
  BY MessageSized DEF Sized
<1>a. q \in Seq(Message) /\ Len(q) = Len(queue) + 1 /\ Len(queue) \in Nat
  BY <1>3
<1>6. SumSizes(q) = SumSizes(queue) + size
  BY <1>3, SumSizesAppend, MessageSized
<1>b. /\ reservedBytes + size <= SharedMax
      /\ ~(acceptedBytes + size > AcceptBudget)
      /\ current # NoMessage => /\ ~(Len(queue) + 1 > MaxQueueMessages)
                                /\ ~(queueBytes + size > MaxQueueBytes)
  BY VerdictAccepted
<1> HIDE DEF size, q
<1>c. qb \in Nat /\ acc \in Nat /\ res \in Nat
  BY <1>3, <1>4
<1>5. /\ q \in Seq(Message) /\ Len(q) = Len(queue) + 1 /\ Len(queue) \in Nat
      /\ qb \in Nat /\ acc \in Nat /\ res \in Nat
  BY <1>a, <1>c
<1>7. /\ queueBytes = SumSizes(queue) /\ acceptedBytes = queueBytes + BytesOf(current)
      /\ reservedBytes = othersBytes + acceptedBytes
  BY <1>2, NowFields DEF Sound, Counted
<1>8. BytesOf(current) \in Nat /\ othersBytes \in Nat
  BY <1>3, BytesOfNat DEF IInv, Env
<1>9. /\ qb = SumSizes(q) /\ acc = qb + BytesOf(current)
      /\ res = othersBytes + acc /\ res <= SharedMax /\ acc <= AcceptBudget
  <2>1. SharedMax \in Nat /\ AcceptBudget \in Nat
    BY DEF SenderAssumption
  <2> DEFINE b == BytesOf(current)
  <2>2. b \in Nat /\ acceptedBytes = queueBytes + b
    BY <1>7, <1>8
  <2> HIDE DEF b
  <2>3. acc = qb + BytesOf(current) /\ res = othersBytes + acc
    <3>1. acceptedBytes + size = (queueBytes + size) + b
      BY <1>3, <1>4, <2>2
    <3>2. reservedBytes + size = othersBytes + (acceptedBytes + size)
      BY <1>3, <1>4, <1>7, <1>8
    <3>3. QED BY <3>1, <3>2 DEF b
  <2>4. res <= SharedMax /\ acc <= AcceptBudget
    BY <1>b, <1>c, <2>1
  <2>5. qb = SumSizes(q)
    BY <1>6, <1>7
  <2>6. QED BY <2>3, <2>4, <2>5
<1>10. \/ Len(q) <= MaxQueueMessages /\ qb <= MaxQueueBytes
       \/ Len(q) = 1 /\ current = NoMessage
  <2>1. MaxQueueMessages \in Nat /\ MaxQueueBytes \in Nat
    BY DEF SenderAssumption
  <2>2. CASE current # NoMessage
    BY SMTT(30), <1>b, <1>5, <2>1, <2>2
  <2>3. CASE current = NoMessage
    BY <1>2, <1>5, <2>3
  <2>4. QED BY <2>2, <2>3
<1> HIDE DEF q, qb, acc, res
<1>11. /\ d \in Draft
       /\ d.disposed = Now.disposed /\ d.queue = q
       /\ d.queueBytes = qb /\ d.acceptedBytes = acc
       /\ d.current = Now.current /\ d.fragmentOffset = Now.fragmentOffset
       /\ d.awaitingFlush = Now.awaitingFlush /\ d.draining = Now.draining
       /\ d.reservedBytes = res /\ d.callbacks = Now.callbacks
  BY <1>2, <1>5 DEF Draft
<1> HIDE DEF d
<1>12. Counted(d)
  BY <1>9, <1>11, NowFields DEF Counted
<1>13. Roomy(d)
  BY <1>10, <1>11, NowFields DEF Roomy
<1>14. Outstanding(d)
  <2>1. ~disposed
    BY VerdictAccepted
  <2>2. QED BY <1>2, <1>11, <2>1, NowFields DEF Sound, Outstanding
<1>15. Sound(d)
  BY <1>11, <1>12, <1>13, <1>14 DEF Sound
<1>16. QED
  BY <1>1, <1>15, RefreshBusySound DEF IInv

(* enqueue() preserves the inductive invariant, with the pump it ends in.  *)
LEMMA EnqueueIInv ==
  ASSUME SenderAssumption, IInv, NEW tag \in Tag, NEW size \in Size, Enqueue(tag, size)
  PROVE  IInv'
<1> DEFINE item == [id |-> nextId, tag |-> tag, size |-> size]
<1>1. nextId \in Nat /\ nextId < MaxAccepted /\ MaxAccepted \in Nat
  BY DEF IInv, Enqueue, SenderAssumption
<1>2. item \in Message /\ item.size = size
  BY <1>1 DEF Message
<1>3. PICK throws \in BOOLEAN : Become(Pump(Accepted(item), throws))
  BY DEF Enqueue
<1>4. Verdict(item.size) = "accepted" /\ UNCHANGED <<readyState, buffered>> /\ nextId' = nextId + 1
  BY <1>2 DEF Enqueue
<1> HIDE DEF item
<1>5. Sound(Accepted(item)) /\ BusyFresh(Accepted(item))
  BY <1>2, <1>4, AcceptedSound
<1>6. Settled(Pump(Accepted(item), throws))
  BY <1>5, PumpSettled DEF IInv
<1>7. QED BY <1>1, <1>3, <1>4, <1>6, HandlerIInv

(* cancel() returns exactly the bytes of the messages it removes.          *)
LEMMA CancelIInv ==
  ASSUME SenderAssumption, IInv, NEW tag \in Tag, Cancel(tag)
  PROVE  IInv'
<1> DEFINE scan == CancelScan(queue, tag)
           kept == scan.kept
           gone == scan.removedBytes
           qb == queueBytes - gone
           acc == acceptedBytes - gone
           res == Released(reservedBytes, gone)
           d == [Now EXCEPT !.queue = kept, !.queueBytes = qb, !.acceptedBytes = acc,
                            !.reservedBytes = res]
<1>1. Become(RefreshBusy(d)) /\ UNCHANGED <<readyState, buffered, nextId>>
  BY NowFields DEF Cancel
<1>2. /\ Sound(Now) /\ Now \in Draft
      /\ current # NoMessage => awaitingFlush \/ draining
      /\ queue # <<>> => current # NoMessage
  BY NowSound
<1>3. /\ queue \in Seq(Message) /\ queueBytes \in Nat /\ acceptedBytes \in Nat
      /\ reservedBytes \in Nat /\ current \in Message \cup {NoMessage}
  BY <1>2, NowFields DEF Draft
<1>4. /\ kept \in Seq(Message) /\ gone \in Nat
      /\ SumSizes(kept) + gone = SumSizes(queue)
      /\ Len(kept) <= Len(queue)
      /\ queue = <<>> => kept = <<>>
  BY <1>3, CancelScanSplits, MessageSized
<1> HIDE DEF kept, gone, scan
<1>5. SumSizes(kept) \in Nat
  BY <1>4, SumSizesNat, MessageSized
<1>6. /\ queueBytes = SumSizes(queue) /\ acceptedBytes = queueBytes + BytesOf(current)
      /\ reservedBytes = othersBytes + acceptedBytes
      /\ reservedBytes <= SharedMax /\ acceptedBytes <= AcceptBudget
  BY <1>2, NowFields DEF Sound, Counted
<1>7. BytesOf(current) \in Nat /\ othersBytes \in Nat /\ SharedMax \in Nat /\ AcceptBudget \in Nat
  BY <1>3, BytesOfNat DEF IInv, Env, SenderAssumption
<1>8. /\ qb \in Nat /\ acc \in Nat /\ res \in Nat /\ qb <= queueBytes
      /\ qb = SumSizes(kept) /\ acc = qb + BytesOf(current)
      /\ res = othersBytes + acc /\ res <= SharedMax /\ acc <= AcceptBudget
  <2> DEFINE b == BytesOf(current)
             k == SumSizes(kept)
  <2>1. /\ b \in Nat /\ k \in Nat /\ acceptedBytes = queueBytes + b
        /\ queueBytes = k + gone
    BY <1>4, <1>5, <1>6, <1>7
  <2> HIDE DEF b, k
  <2>2. /\ qb = k /\ qb \in Nat /\ qb <= queueBytes
        /\ acc = qb + b /\ acc \in Nat /\ acc <= acceptedBytes
    BY <1>3, <1>4, <2>1
  <2>a. /\ reservedBytes = othersBytes + acceptedBytes /\ reservedBytes \in Nat
        /\ othersBytes \in Nat /\ acceptedBytes \in Nat /\ gone \in Nat
        /\ reservedBytes <= SharedMax /\ acceptedBytes <= AcceptBudget
        /\ SharedMax \in Nat /\ AcceptBudget \in Nat
        /\ acc = acceptedBytes - gone
    BY <1>3, <1>4, <1>6, <1>7
  <2>b. acc \in Nat /\ acc <= acceptedBytes
    BY <2>2
  <2> HIDE DEF acc
  <2>3. /\ reservedBytes - gone = othersBytes + acc
        /\ reservedBytes - gone \in Nat /\ reservedBytes - gone <= reservedBytes
    BY <2>a, <2>b
  <2>4. res = reservedBytes - gone
    BY <2>3 DEF Released
  <2>5. res <= SharedMax /\ acc <= AcceptBudget
    <3> HIDE DEF res
    <3>1. QED BY <2>a, <2>b, <2>3, <2>4
  <2>6. QED BY <2>2, <2>3, <2>4, <2>5 DEF b, k
<1> HIDE DEF qb, acc, res
<1>9. /\ d \in Draft
      /\ d.disposed = Now.disposed /\ d.queue = kept
      /\ d.queueBytes = qb /\ d.acceptedBytes = acc
      /\ d.current = Now.current /\ d.fragmentOffset = Now.fragmentOffset
      /\ d.awaitingFlush = Now.awaitingFlush /\ d.draining = Now.draining
      /\ d.reservedBytes = res /\ d.callbacks = Now.callbacks
  BY <1>2, <1>4, <1>8 DEF Draft
<1> HIDE DEF d
<1>10. Counted(d)
  BY <1>8, <1>9, NowFields DEF Counted
<1>11. Roomy(d)
  <2>1. /\ MaxQueueMessages \in Nat /\ MaxQueueBytes \in Nat
        /\ Len(queue) \in Nat /\ Len(kept) \in Nat
    BY <1>3, <1>4 DEF SenderAssumption
  <2>2. CASE queue = <<>>
    <3>1. Len(kept) = 0 /\ qb = 0
      BY <1>4, <1>8, <2>2, SumSizesEmpty, MessageSized
    <3>2. QED BY <1>9, <2>1, <3>1 DEF Roomy
  <2>3. CASE queue # <<>>
    <3>1. Len(queue) <= MaxQueueMessages /\ queueBytes <= MaxQueueBytes
      BY <1>2, <2>3, NowFields DEF Sound, Roomy
    <3>2. Len(kept) <= MaxQueueMessages
      <4> DEFINE n == Len(kept)
                 m == Len(queue)
      <4>1. /\ n \in Nat /\ m \in Nat /\ n <= m
            /\ m <= MaxQueueMessages /\ MaxQueueMessages \in Nat
        BY <1>4, <2>1, <3>1
      <4> HIDE DEF n, m
      <4>2. n <= MaxQueueMessages
        BY <4>1
      <4>3. QED BY <4>2 DEF n
    <3>3. qb <= MaxQueueBytes
      <4>1. qb \in Nat /\ queueBytes \in Nat /\ qb <= queueBytes
        BY <1>3, <1>8
      <4>2. QED BY <2>1, <3>1, <4>1
    <3>4. QED BY <1>9, <3>2, <3>3 DEF Roomy
  <2>4. QED BY <2>2, <2>3
<1>12. Outstanding(d)
  BY <1>2, <1>4, <1>9, NowFields DEF Sound, Outstanding
<1>13. Sound(d)
  BY <1>9, <1>10, <1>11, <1>12 DEF Sound
<1> DEFINE e == RefreshBusy(d)
<1>14. /\ Sound(e) /\ BusyFresh(e) /\ e.current = current
       /\ e.awaitingFlush = awaitingFlush /\ e.draining = draining /\ e.queue = kept
  BY <1>9, <1>13, RefreshBusySound, RefreshBusyDraft, NowFields DEF IInv
<1>15. Become(e)
  BY <1>1
<1> HIDE DEF e
<1>16. Settled(e)
  BY <1>2, <1>4, <1>14 DEF Settled
<1>17. QED
  BY <1>1, <1>15, <1>16, HandlerIInv DEF IInv

(* dispose() preserves the inductive invariant.                            *)
LEMMA DisposeIInv ==
  ASSUME SenderAssumption, IInv, Dispose
  PROVE  IInv'
<1>1. Settled(Disposed(Now))
  BY NowSound, DisposedSettled DEF Sound, Outstanding, IInv
<1>2. QED BY <1>1, HandlerIInv DEF Dispose, IInv

------------------------------------------------------------------------------
(* The callback of an identified flush is the only one owed.               *)
LEMMA IdentifiedCallback ==
  ASSUME SenderAssumption, IInv, callbacks # <<>>, Identified(Head(callbacks))
  PROVE  /\ ~disposed /\ awaitingFlush /\ ~draining
         /\ Tail(callbacks) = <<>>
         /\ Head(callbacks).message = current /\ current \in Message
         /\ Head(callbacks) \in Callback
         /\ fragmentOffset + Head(callbacks).bytes <= current.size
<1>1. Sound(Now) /\ Now \in Draft
  BY NowSound
<1>2. /\ callbacks \in Seq(Callback) /\ awaitingFlush \in BOOLEAN /\ draining \in BOOLEAN
      /\ current \in Message \cup {NoMessage}
  BY <1>1, NowFields DEF Draft
<1>3. ~disposed /\ current = Head(callbacks).message
  BY DEF Identified
<1>4. awaitingFlush /\ ~draining
  BY <1>1, <1>2, <1>3, NowFields DEF Sound, Outstanding
<1>5. Len(callbacks) = 1 /\ fragmentOffset + callbacks[1].bytes <= current.size
  BY <1>1, <1>4, NowFields DEF Sound, Outstanding
<1>6. Head(callbacks) = callbacks[1] /\ Head(callbacks) \in Callback /\ Tail(callbacks) = <<>>
  <2>1. callbacks # <<>> /\ callbacks \in Seq(Callback) /\ Len(callbacks) = 1
    BY <1>2, <1>5
  <2>2. Tail(callbacks) \in Seq(Callback) /\ Len(Tail(callbacks)) = 0
    BY <2>1
  <2>3. Tail(callbacks) = <<>>
    <3> DEFINE rest == Tail(callbacks)
    <3> HIDE DEF rest
    <3>1. rest \in Seq(Callback) /\ Len(rest) = 0 => rest = <<>>
      OBVIOUS
    <3>2. QED BY <2>2, <3>1 DEF rest
  <2>4. QED BY <2>1, <2>3
<1>7. current \in Message
  BY <1>3, <1>6 DEF Callback
<1>8. QED BY <1>3, <1>4, <1>5, <1>6, <1>7

(* A callback nobody waits for only leaves the list of those owed.         *)
LEMMA LateFlushIInv ==
  ASSUME SenderAssumption, IInv, LateFlush
  PROVE  IInv'
<1> DEFINE cbs == Tail(callbacks)
           d == [Now EXCEPT !.callbacks = cbs]
<1>1. Become(d) /\ UNCHANGED <<readyState, buffered, nextId>>
  BY NowFields DEF LateFlush
<1>2. /\ Sound(Now) /\ Now \in Draft /\ BusyFresh(Now)
      /\ current # NoMessage => awaitingFlush \/ draining
      /\ queue # <<>> => current # NoMessage
  BY NowSound
<1>3. callbacks # <<>> /\ ~Identified(Head(callbacks)) /\ callbacks \in Seq(Callback)
  BY <1>2, NowFields DEF LateFlush, Draft
<1>4. disposed
  <2>1. SUFFICES ASSUME ~disposed PROVE FALSE
    OBVIOUS
  <2>2. awaitingFlush /\ callbacks[1].message = current
    BY <1>2, <1>3, <2>1, NowFields DEF Sound, Outstanding
  <2>3. Head(callbacks) = callbacks[1]
    BY <1>3
  <2>4. QED BY <1>3, <2>1, <2>2, <2>3 DEF Identified
<1>5. Len(callbacks) <= 1
  BY <1>2, NowFields DEF Sound, Outstanding
<1>6. cbs \in Seq(Callback) /\ Len(cbs) <= 1
  BY <1>3, <1>5
<1> HIDE DEF cbs
<1>7. /\ d \in Draft
      /\ d.disposed = Now.disposed /\ d.busy = Now.busy /\ d.queue = Now.queue
      /\ d.queueBytes = Now.queueBytes /\ d.acceptedBytes = Now.acceptedBytes
      /\ d.current = Now.current /\ d.fragmentOffset = Now.fragmentOffset
      /\ d.awaitingFlush = Now.awaitingFlush /\ d.draining = Now.draining
      /\ d.reservedBytes = Now.reservedBytes /\ d.callbacks = cbs
  BY <1>2, <1>6 DEF Draft
<1> HIDE DEF d
<1>8. Outstanding(d)
  BY <1>2, <1>4, <1>6, <1>7, NowFields DEF Sound, Outstanding
<1>9. Counted(d) /\ Roomy(d) /\ BusyFresh(d)
  BY <1>2, <1>7 DEF Sound, Counted, Roomy, BusyFresh
<1>10. Settled(d)
  BY <1>2, <1>7, <1>8, <1>9, NowFields DEF Settled, Sound
<1>11. QED BY <1>1, <1>10, HandlerIInv DEF IInv

(* What onFlush() starts from: nothing outstanding, the counters untouched.*)
LEMMA FlushedDraft ==
  ASSUME SenderAssumption, IInv, callbacks # <<>>, Identified(Head(callbacks))
  PROVE  /\ Flushed \in Draft
         /\ Flushed.disposed = FALSE /\ Flushed.busy = busy /\ Flushed.queue = queue
         /\ Flushed.queueBytes = queueBytes /\ Flushed.acceptedBytes = acceptedBytes
         /\ Flushed.current = current /\ Flushed.fragmentOffset = fragmentOffset
         /\ Flushed.awaitingFlush = FALSE /\ Flushed.draining = FALSE
         /\ Flushed.reservedBytes = reservedBytes /\ Flushed.callbacks = <<>>
         /\ Flushed.completed = completed /\ Flushed.wire = wire
         /\ Flushed.fragmentOffset = fragmentOffset
<1> DEFINE cbs == Tail(callbacks)
<1>1. Now \in Draft
  BY NowSound
<1>2. Flushed = [Now EXCEPT !.callbacks = cbs, !.awaitingFlush = FALSE]
  BY NowFields DEF Flushed
<1>a. Tail(callbacks) = <<>>
  BY IdentifiedCallback
<1>b. ~disposed /\ ~draining
  BY IdentifiedCallback
<1>3. cbs = <<>> /\ ~disposed /\ ~draining
  BY <1>a, <1>b
<1> HIDE DEF cbs
<1>4. cbs \in Seq(Callback)
  BY <1>3
<1>5. ASSUME NEW d, d = [Now EXCEPT !.callbacks = cbs, !.awaitingFlush = FALSE]
      PROVE  /\ d \in Draft
             /\ d.disposed = Now.disposed /\ d.busy = Now.busy /\ d.queue = Now.queue
             /\ d.queueBytes = Now.queueBytes /\ d.acceptedBytes = Now.acceptedBytes
             /\ d.current = Now.current /\ d.fragmentOffset = Now.fragmentOffset
             /\ d.awaitingFlush = FALSE /\ d.draining = Now.draining
             /\ d.reservedBytes = Now.reservedBytes /\ d.callbacks = cbs
             /\ d.completed = Now.completed /\ d.wire = Now.wire
             /\ d.fragmentOffset = Now.fragmentOffset
  BY <1>1, <1>4, <1>5 DEF Draft
<1>6. disposed \in BOOLEAN /\ draining \in BOOLEAN
  BY <1>1, NowFields DEF Draft
<1>7. QED BY <1>2, <1>3, <1>5, <1>6, NowFields

(* A failed write preserves the inductive invariant: the sender gives      *)
(* everything back and falls silent.                                       *)
LEMMA FlushFailedIInv ==
  ASSUME SenderAssumption, IInv, FlushFailed
  PROVE  IInv'
<1>1. /\ callbacks # <<>> /\ Identified(Head(callbacks)) /\ Become(Fail(Flushed))
      /\ UNCHANGED <<readyState, buffered, nextId>>
  BY DEF FlushFailed
<1>2. Counted(Flushed)
  <2> DEFINE d == Flushed
  <2>1. /\ d.queue = queue /\ d.queueBytes = queueBytes /\ d.acceptedBytes = acceptedBytes
        /\ d.current = current /\ d.reservedBytes = reservedBytes
    BY <1>1, FlushedDraft
  <2> HIDE DEF d
  <2>2. Counted(d)
    BY <2>1, NowCounted DEF Counted
  <2>3. QED BY <2>2 DEF d
<1>3. Flushed \in Draft /\ Len(Flushed.callbacks) <= 1
  <2>1. Flushed \in Draft /\ Flushed.callbacks = <<>>
    BY <1>1, FlushedDraft
  <2>2. Len(<<>>) = 0
    OBVIOUS
  <2>3. QED BY <2>1, <2>2
<1>4. Settled(Fail(Flushed))
  BY <1>2, <1>3, FailSettled DEF IInv
<1>5. QED BY <1>1, <1>4, HandlerIInv DEF IInv

(* A fragment that is not the last moves the offset to its end.            *)
LEMMA FlushPartSound ==
  ASSUME SenderAssumption, IInv, callbacks # <<>>, Identified(Head(callbacks))
  PROVE  LET d == [Flushed EXCEPT !.emitted = <<"progress">>,
                       !.fragmentOffset = fragmentOffset + Head(callbacks).bytes]
         IN  Sound(d) /\ BusyFresh(d)
<1> DEFINE moved == fragmentOffset + Head(callbacks).bytes
           signals == <<"progress">>
           d == [Flushed EXCEPT !.emitted = signals, !.fragmentOffset = moved]
<1>1. callbacks # <<>> /\ Identified(Head(callbacks))
  OBVIOUS
<1>3. /\ Flushed \in Draft /\ Flushed.fragmentOffset = fragmentOffset
      /\ Flushed.disposed = FALSE /\ Flushed.callbacks = <<>>
      /\ Flushed.awaitingFlush = FALSE /\ Flushed.draining = FALSE
      /\ Flushed.current = current
  BY <1>1, FlushedDraft
<1>4. moved \in Nat /\ moved <= current.size
  <2>1. Head(callbacks).bytes \in Nat /\ fragmentOffset \in Nat
    BY <1>1, <1>3, IdentifiedCallback DEF Callback, Draft
  <2>2. QED BY <1>1, <2>1, IdentifiedCallback
<1>5. signals \in Seq(Signal)
  BY DEF Signal
<1> HIDE DEF moved, signals
<1>6. /\ d \in Draft
      /\ d.disposed = Flushed.disposed /\ d.busy = Flushed.busy /\ d.queue = Flushed.queue
      /\ d.queueBytes = Flushed.queueBytes /\ d.acceptedBytes = Flushed.acceptedBytes
      /\ d.current = Flushed.current /\ d.fragmentOffset = moved
      /\ d.awaitingFlush = Flushed.awaitingFlush /\ d.draining = Flushed.draining
      /\ d.reservedBytes = Flushed.reservedBytes /\ d.callbacks = Flushed.callbacks
  BY <1>3, <1>4, <1>5 DEF Draft
<1> HIDE DEF d
<1>7. Counted(d) /\ Roomy(d) /\ BusyFresh(d)
  BY <1>1, <1>6, FlushedDraft, NowSound, NowFields DEF Sound, Counted, Roomy, BusyFresh
<1>8. Outstanding(d)
  BY <1>3, <1>4, <1>6 DEF Outstanding
<1>9. QED BY <1>6, <1>7, <1>8 DEF Sound, d, moved, signals

(* ... and preserves the inductive invariant with the pump it ends in.     *)
LEMMA FlushPartIInv ==
  ASSUME SenderAssumption, IInv, FlushPart
  PROVE  IInv'
<1> DEFINE d == [Flushed EXCEPT !.emitted = <<"progress">>,
                     !.fragmentOffset = fragmentOffset + Head(callbacks).bytes]
<1>1. /\ callbacks # <<>> /\ Identified(Head(callbacks))
      /\ UNCHANGED <<readyState, buffered, nextId>>
  BY DEF FlushPart
<1>2. PICK throws \in BOOLEAN : Become(Pump(d, throws))
  BY <1>1, FlushedDraft DEF FlushPart
<1>3. Sound(d) /\ BusyFresh(d)
  BY <1>1, FlushPartSound
<1> HIDE DEF d
<1>4. Settled(Pump(d, throws))
  BY <1>3, PumpSettled DEF IInv
<1>5. QED BY <1>1, <1>2, <1>4, HandlerIInv DEF IInv

(* The last fragment gives back exactly the bytes of its message.          *)
LEMMA FinishedSound ==
  ASSUME SenderAssumption, IInv, callbacks # <<>>, Identified(Head(callbacks))
  PROVE  Sound(Finished(current)) /\ BusyFresh(Finished(current))
<1> DEFINE size == current.size
           acc == acceptedBytes - size
           res == Released(reservedBytes, size)
           signals == <<"progress">>
           done == Append(completed, current)
           d == [Flushed EXCEPT !.emitted = signals, !.current = NoMessage,
                     !.fragmentOffset = 0, !.acceptedBytes = acc,
                     !.reservedBytes = res, !.completed = done]
<1>1. Finished(current) = RefreshBusy(d)
  BY FlushedDraft DEF Finished
<1>2. /\ Sound(Now) /\ Now \in Draft
      /\ current \in Message
  BY NowSound, IdentifiedCallback
<1>3. /\ acceptedBytes \in Nat /\ reservedBytes \in Nat /\ queueBytes \in Nat
      /\ completed \in Seq(Message) /\ othersBytes \in Nat
      /\ SharedMax \in Nat /\ AcceptBudget \in Nat
  BY <1>2, NowFields DEF Draft, IInv, Env, SenderAssumption
<1>4. size \in Nat
  BY <1>2, MessageSized DEF Sized
<1>5. /\ queueBytes = SumSizes(queue) /\ acceptedBytes = queueBytes + size
      /\ reservedBytes = othersBytes + acceptedBytes
      /\ reservedBytes <= SharedMax /\ acceptedBytes <= AcceptBudget
  <2>1. current # NoMessage
    BY <1>2 DEF SenderAssumption
  <2>2. QED BY <1>2, <2>1, NowFields DEF Sound, Counted, BytesOf
<1>6. done \in Seq(Message) /\ signals \in Seq(Signal)
  BY <1>2, <1>3 DEF Signal
<1>a. /\ acceptedBytes = queueBytes + size /\ acceptedBytes <= AcceptBudget
      /\ reservedBytes = othersBytes + acceptedBytes /\ reservedBytes <= SharedMax
  BY <1>5
<1> HIDE DEF size, done, signals
<1>7. /\ acc \in Nat /\ acc = queueBytes /\ acc <= AcceptBudget
  BY <1>3, <1>4, <1>a
<1>8. /\ res \in Nat /\ res = othersBytes + acc /\ res <= SharedMax
  <2>1. /\ reservedBytes - size = othersBytes + acc /\ reservedBytes - size \in Nat
        /\ reservedBytes - size <= SharedMax
    BY <1>3, <1>4, <1>a
  <2>2. res = reservedBytes - size
    BY <2>1 DEF Released
  <2> HIDE DEF res
  <2>3. QED BY <2>1, <2>2
<1> HIDE DEF acc, res
<1>9. /\ d \in Draft
      /\ d.disposed = Flushed.disposed /\ d.queue = Flushed.queue
      /\ d.queueBytes = Flushed.queueBytes /\ d.acceptedBytes = acc
      /\ d.current = NoMessage /\ d.fragmentOffset = 0
      /\ d.awaitingFlush = Flushed.awaitingFlush /\ d.draining = Flushed.draining
      /\ d.reservedBytes = res /\ d.callbacks = Flushed.callbacks
  BY <1>6, <1>7, <1>8, FlushedDraft DEF Draft
<1> HIDE DEF d
<1>10. Counted(d)
  <2>1. d.queue = queue /\ d.queueBytes = queueBytes
    BY <1>9, FlushedDraft
  <2>2. BytesOf(d.current) = 0
    BY <1>9 DEF BytesOf
  <2>3. acc = queueBytes + 0
    BY <1>3, <1>7
  <2>4. QED BY <1>5, <1>7, <1>8, <1>9, <2>1, <2>2, <2>3 DEF Counted
<1>11. Roomy(d)
  <2>1. current # NoMessage
    BY <1>2 DEF SenderAssumption
  <2>2. Len(queue) <= MaxQueueMessages /\ queueBytes <= MaxQueueBytes
    BY <1>2, <2>1, NowFields DEF Sound, Roomy
  <2>3. d.queue = queue /\ d.queueBytes = queueBytes
    BY <1>9, FlushedDraft
  <2>4. QED BY <2>2, <2>3 DEF Roomy
<1>12. Outstanding(d)
  <2>1. d.callbacks = <<>> /\ d.awaitingFlush = FALSE /\ d.draining = FALSE /\ d.disposed = FALSE
    BY <1>9, FlushedDraft
  <2>2. Len(<<>>) = 0
    OBVIOUS
  <2>3. QED BY <1>9, <2>1, <2>2 DEF Outstanding
<1>13. Sound(d)
  BY <1>9, <1>10, <1>11, <1>12 DEF Sound
<1>14. QED BY <1>1, <1>13, RefreshBusySound DEF IInv

(* The write of a last fragment preserves the inductive invariant,         *)
(* whether or not the next message starts at once.                         *)
LEMMA FlushLastIInv ==
  ASSUME SenderAssumption, IInv, FlushLast
  PROVE  IInv'
<1>1. /\ callbacks # <<>> /\ Identified(Head(callbacks))
      /\ UNCHANGED <<readyState, buffered, nextId>>
  BY DEF FlushLast
<1>2. Head(callbacks).message = current
  BY <1>1, IdentifiedCallback
<1>3. PICK throws \in BOOLEAN : Become(Pump(Finished(current), throws))
  BY <1>2 DEF FlushLast
<1>4. Settled(Pump(Finished(current), throws))
  BY <1>1, FinishedSound, PumpSettled DEF IInv
<1>5. QED BY <1>1, <1>3, <1>4, HandlerIInv DEF IInv

------------------------------------------------------------------------------
(* The poll either fails, or arms itself again, or lets pump() go on.      *)
LEMMA DrainPollIInv ==
  ASSUME SenderAssumption, IInv, DrainPoll
  PROVE  IInv'
<1> DEFINE fell == drainLastBuffered # NoLevel /\ buffered < drainLastBuffered
           signals == IF fell THEN <<"progress">> ELSE <<>>
           d == [Now EXCEPT !.draining = FALSE, !.drainLastBuffered = buffered,
                            !.emitted = signals]
           dFail == [Now EXCEPT !.draining = FALSE]
           dStay == [d EXCEPT !.draining = TRUE]
           dGo == [d EXCEPT !.drainLastBuffered = NoLevel]
<1>1. /\ draining /\ UNCHANGED <<readyState, buffered, nextId>>
      /\ \/ Become(Fail(dFail))
         \/ Become(dStay)
         \/ \E throws \in BOOLEAN : Become(Pump(dGo, throws))
  BY DEF DrainPoll
<1>2. /\ Sound(Now) /\ Now \in Draft /\ BusyFresh(Now)
      /\ current # NoMessage => awaitingFlush \/ draining
      /\ queue # <<>> => current # NoMessage
  BY NowSound
<1>3. current # NoMessage /\ draining /\ ~awaitingFlush /\ ~disposed /\ callbacks = <<>>
  <2>1. /\ ~(awaitingFlush /\ draining)
        /\ awaitingFlush \/ draining => current # NoMessage
        /\ ~awaitingFlush /\ ~disposed => callbacks = <<>>
        /\ disposed => current = NoMessage
    BY <1>2, NowFields DEF Sound, Outstanding
  <2>2. QED BY <1>1, <2>1
<1>4. signals \in Seq(Signal)
  <2>1. <<"progress">> \in Seq(Signal) /\ <<>> \in Seq(Signal)
    BY DEF Signal
  <2> HIDE DEF fell
  <2>2. QED BY <2>1
<1> HIDE DEF signals
<1>5. buffered \in Level
  BY DEF IInv, Env
<1>6. /\ d \in Draft
      /\ d.disposed = Now.disposed /\ d.busy = Now.busy /\ d.queue = Now.queue
      /\ d.queueBytes = Now.queueBytes /\ d.acceptedBytes = Now.acceptedBytes
      /\ d.current = Now.current /\ d.fragmentOffset = Now.fragmentOffset
      /\ d.awaitingFlush = Now.awaitingFlush /\ d.draining = FALSE
      /\ d.reservedBytes = Now.reservedBytes /\ d.callbacks = Now.callbacks
  BY <1>2, <1>4, <1>5 DEF Draft
<1>7. CASE Become(Fail(dFail))
  <2>1. /\ dFail \in Draft /\ dFail.queue = Now.queue
        /\ dFail.queueBytes = Now.queueBytes /\ dFail.acceptedBytes = Now.acceptedBytes
        /\ dFail.current = Now.current /\ dFail.reservedBytes = Now.reservedBytes
        /\ dFail.callbacks = Now.callbacks
    BY <1>2 DEF Draft
  <2> HIDE DEF dFail
  <2>2. Counted(dFail) /\ Len(dFail.callbacks) <= 1
    BY <1>2, <2>1 DEF Sound, Counted, Outstanding
  <2>3. Settled(Fail(dFail))
    BY <2>1, <2>2, FailSettled DEF IInv
  <2>4. QED BY <1>1, <1>7, <2>3, HandlerIInv DEF IInv
<1>8. CASE Become(dStay)
  <2> HIDE DEF d
  <2>1. /\ dStay \in Draft
        /\ dStay.disposed = d.disposed /\ dStay.busy = d.busy /\ dStay.queue = d.queue
        /\ dStay.queueBytes = d.queueBytes /\ dStay.acceptedBytes = d.acceptedBytes
        /\ dStay.current = d.current /\ dStay.fragmentOffset = d.fragmentOffset
        /\ dStay.awaitingFlush = d.awaitingFlush /\ dStay.draining = TRUE
        /\ dStay.reservedBytes = d.reservedBytes /\ dStay.callbacks = d.callbacks
    BY <1>6 DEF Draft
  <2> HIDE DEF dStay
  <2>2. Counted(dStay) /\ Roomy(dStay) /\ BusyFresh(dStay)
    BY <1>2, <1>6, <2>1 DEF Sound, Counted, Roomy, BusyFresh
  <2>3. Outstanding(dStay)
    BY <1>2, <1>3, <1>6, <2>1, NowFields DEF Sound, Outstanding
  <2>4. Settled(dStay)
    BY <1>3, <1>6, <2>1, <2>2, <2>3, NowFields DEF Settled, Sound
  <2>5. QED BY <1>1, <1>8, <2>4, HandlerIInv DEF IInv
<1>9. CASE \E throws \in BOOLEAN : Become(Pump(dGo, throws))
  <2> HIDE DEF d
  <2>1. /\ dGo \in Draft
        /\ dGo.disposed = d.disposed /\ dGo.busy = d.busy /\ dGo.queue = d.queue
        /\ dGo.queueBytes = d.queueBytes /\ dGo.acceptedBytes = d.acceptedBytes
        /\ dGo.current = d.current /\ dGo.fragmentOffset = d.fragmentOffset
        /\ dGo.awaitingFlush = d.awaitingFlush /\ dGo.draining = d.draining
        /\ dGo.reservedBytes = d.reservedBytes /\ dGo.callbacks = d.callbacks
    BY <1>6 DEF Draft
  <2> HIDE DEF dGo
  <2>2. Counted(dGo) /\ Roomy(dGo) /\ BusyFresh(dGo)
    BY <1>2, <1>6, <2>1 DEF Sound, Counted, Roomy, BusyFresh
  <2>3. Outstanding(dGo)
    BY <1>2, <1>3, <1>6, <2>1, NowFields DEF Sound, Outstanding
  <2>4. PICK throws \in BOOLEAN : Become(Pump(dGo, throws))
    BY <1>9
  <2>5. Settled(Pump(dGo, throws))
    BY <2>1, <2>2, <2>3, PumpSettled DEF Sound, IInv
  <2>6. QED BY <1>1, <2>4, <2>5, HandlerIInv DEF IInv
<1>10. QED BY <1>1, <1>7, <1>8, <1>9

(* What the sender does not see of the socket cannot disturb it.           *)
LEMMA SocketIInv ==
  ASSUME SenderAssumption, IInv,
         (\E level \in Level : SocketLevel(level)) \/ SocketLeavesOpen
  PROVE  IInv'
<1>1. <<>> \in Seq(Signal)
  OBVIOUS
<1>2. /\ UNCHANGED <<disposed, busy, queue, queueBytes, acceptedBytes, current,
                     fragmentOffset, awaitingFlush, draining, drainLastBuffered,
                     reservedBytes, othersBytes, callbacks, wire, completed, nextId>>
      /\ emitted' = <<>> /\ buffered' \in Level /\ readyState' \in {"open", "closed"}
  BY DEF SocketLevel, SocketLeavesOpen, senderVars, IInv, Env
<1>3. Now' = Now
  BY <1>2 DEF Now
<1>4. Settled(Now)'
  BY <1>2, <1>3 DEF IInv, Settled, Sound, Counted, Roomy, Outstanding, BusyFresh
<1>5. QED BY <1>1, <1>2, <1>4 DEF IInv, Env

(* Other senders move the shared counter and their own share together.     *)
LEMMA OthersIInv ==
  ASSUME SenderAssumption, IInv, NEW bytes \in Size,
         OthersReserve(bytes) \/ OthersRelease(bytes)
  PROVE  IInv'
<1>1. /\ UNCHANGED <<disposed, busy, queue, queueBytes, acceptedBytes, current,
                     fragmentOffset, awaitingFlush, draining, drainLastBuffered,
                     readyState, buffered, callbacks, wire, completed, nextId>>
      /\ emitted' = <<>> /\ <<>> \in Seq(Signal)
  BY DEF OthersReserve, OthersRelease, senderVars
<1>2. /\ Sound(Now) /\ Now \in Draft /\ BusyFresh(Now)
      /\ current # NoMessage => awaitingFlush \/ draining
      /\ queue # <<>> => current # NoMessage
  BY NowSound
<1>3. /\ reservedBytes \in Nat /\ othersBytes \in Nat /\ acceptedBytes \in Nat
      /\ SharedMax \in Nat /\ bytes \in Nat
  BY <1>2, NowFields DEF Draft, IInv, Env, SenderAssumption
<1>4. /\ reservedBytes = othersBytes + acceptedBytes /\ reservedBytes <= SharedMax
  BY NowCounted
<1>5. /\ reservedBytes' \in Nat /\ othersBytes' \in Nat
      /\ reservedBytes' = othersBytes' + acceptedBytes /\ reservedBytes' <= SharedMax
  <2>1. CASE OthersReserve(bytes)
    BY SMTT(30), <1>3, <1>4, <2>1 DEF OthersReserve, TryReserve
  <2>2. CASE OthersRelease(bytes)
    <3>1. reservedBytes' = Released(reservedBytes, bytes) /\ othersBytes' = othersBytes - bytes
          /\ bytes <= othersBytes
      BY <2>2 DEF OthersRelease
    <3>2. reservedBytes - bytes \in Nat /\ othersBytes - bytes \in Nat
      BY <1>3, <1>4, <3>1
    <3>3. reservedBytes' = reservedBytes - bytes
      BY <1>3, <3>1, <3>2 DEF Released
    <3>4. QED BY <1>3, <1>4, <3>1, <3>2, <3>3
  <2>3. QED BY <2>1, <2>2
<1> DEFINE n == Now'
<1>6. n = [Now EXCEPT !.reservedBytes = reservedBytes']
  BY <1>1 DEF Now
<1>7. /\ n \in Draft
      /\ n.disposed = Now.disposed /\ n.busy = Now.busy /\ n.queue = Now.queue
      /\ n.queueBytes = Now.queueBytes /\ n.acceptedBytes = Now.acceptedBytes
      /\ n.current = Now.current /\ n.fragmentOffset = Now.fragmentOffset
      /\ n.awaitingFlush = Now.awaitingFlush /\ n.draining = Now.draining
      /\ n.reservedBytes = reservedBytes' /\ n.callbacks = Now.callbacks
  <2> HIDE DEF n
  <2>1. QED BY <1>2, <1>5, <1>6 DEF Draft
<1> HIDE DEF n
<1>8. /\ n.queueBytes = SumSizes(n.queue)
      /\ n.acceptedBytes = n.queueBytes + BytesOf(n.current)
      /\ n.reservedBytes = othersBytes' + n.acceptedBytes
      /\ n.reservedBytes <= SharedMax /\ n.acceptedBytes <= AcceptBudget
  BY <1>5, <1>7, NowCounted, NowFields
<1>9. /\ Roomy(n) /\ Outstanding(n) /\ BusyFresh(n)
      /\ n.current # NoMessage => n.awaitingFlush \/ n.draining
      /\ n.queue # <<>> => n.current # NoMessage
  BY <1>2, <1>7, NowFields DEF Sound, Roomy, Outstanding, BusyFresh
<1>10. Settled(Now)'
  BY <1>7, <1>8, <1>9 DEF n, Settled, Sound, Counted, Roomy, Outstanding, BusyFresh
<1>11. QED BY <1>1, <1>5, <1>10 DEF IInv, Env

------------------------------------------------------------------------------
(* The inductive invariant holds in every reachable state.                 *)
THEOREM Invariance == Spec => []IInv
<1>1. Init => IInv
  BY InitIInv, SenderAssumption
<1>2. IInv /\ [Next]_vars => IInv'
  <2> SUFFICES ASSUME IInv, [Next]_vars PROVE IInv'
    OBVIOUS
  <2>1. CASE \E tag \in Tag, size \in Size : Enqueue(tag, size)
    BY <2>1, EnqueueIInv, SenderAssumption
  <2>2. CASE \E tag \in Tag : Cancel(tag)
    BY <2>2, CancelIInv, SenderAssumption
  <2>3. CASE Dispose
    BY <2>3, DisposeIInv, SenderAssumption
  <2>4. CASE LateFlush
    BY <2>4, LateFlushIInv, SenderAssumption
  <2>5. CASE FlushFailed
    BY <2>5, FlushFailedIInv, SenderAssumption
  <2>6. CASE FlushPart
    BY <2>6, FlushPartIInv, SenderAssumption
  <2>7. CASE FlushLast
    BY <2>7, FlushLastIInv, SenderAssumption
  <2>8. CASE DrainPoll
    BY <2>8, DrainPollIInv, SenderAssumption
  <2>9. CASE (\E level \in Level : SocketLevel(level)) \/ SocketLeavesOpen
    BY <2>9, SocketIInv, SenderAssumption
  <2>10. CASE \E bytes \in Size : OthersReserve(bytes) \/ OthersRelease(bytes)
    BY <2>10, OthersIInv, SenderAssumption
  <2>11. CASE UNCHANGED vars
    <3>1. Now' = Now /\ UNCHANGED <<othersBytes, buffered, readyState, nextId, emitted>>
      BY <2>11 DEF vars, senderVars, Now
    <3>2. Settled(Now)'
      BY <3>1 DEF IInv, Settled, Sound, Counted, Roomy, Outstanding, BusyFresh
    <3>3. QED BY <3>1, <3>2 DEF IInv, Env
  <2>12. QED
    BY <2>1, <2>2, <2>3, <2>4, <2>5, <2>6, <2>7, <2>8, <2>9, <2>10, <2>11 DEF Next
<1>3. QED BY <1>1, <1>2, PTL DEF Spec

(* Every variable keeps its type.                                          *)
THEOREM TypeCorrect == Spec => []TypeOK
<1>1. IInv => TypeOK
  BY NowFields DEF IInv, Settled, Sound, Draft, Env, TypeOK
<1>2. QED BY <1>1, Invariance, PTL

(* The counters always equal what they count and the shared budget is      *)
(* never exceeded, for any sizes, limits and interleaving.                 *)
THEOREM AccountingHolds == Spec => []Accounting
<1>1. IInv => Accounting
  BY NowCounted DEF Accounting, InFlightBytes, BytesOf
<1>2. QED BY <1>1, Invariance, PTL

(* The limits enqueue() checks hold at every moment.                       *)
THEOREM LimitsHold == Spec => []WithinLimits
<1>1. IInv => WithinLimits
  <2> SUFFICES ASSUME IInv PROVE WithinLimits
    OBVIOUS
  <2>1. acceptedBytes <= AcceptBudget
    BY NowCounted
  <2>2. Roomy(Now) /\ (queue # <<>> => current # NoMessage)
    BY NowSound DEF Sound
  <2>3. queue = <<>> => Len(queue) = 0
    OBVIOUS
  <2>4. QED BY <2>1, <2>2, <2>3, NowFields DEF Roomy, WithinLimits
<1>2. QED BY <1>1, Invariance, PTL

(* A sender with anything left to send always has exactly one event ahead  *)
(* of it: a callback or a poll.                                            *)
THEOREM WakeUpsAreNotLost == Spec => []NoLostWakeup
<1>1. IInv => NoLostWakeup
  <2> SUFFICES ASSUME IInv PROVE NoLostWakeup
    OBVIOUS
  <2>1. /\ Sound(Now) /\ Now \in Draft
        /\ current # NoMessage => awaitingFlush \/ draining
        /\ queue # <<>> => current # NoMessage
    BY NowSound
  <2>2. /\ ~(awaitingFlush /\ draining)
        /\ awaitingFlush \/ draining => current # NoMessage
        /\ Len(callbacks) <= 1
        /\ awaitingFlush => Len(callbacks) = 1 /\ callbacks[1].message = current
        /\ ~awaitingFlush /\ ~disposed => callbacks = <<>>
        /\ disposed => current = NoMessage
    BY <2>1, NowFields DEF Sound, Outstanding
  <2>3. callbacks \in Seq(Callback) /\ Len(callbacks) \in Nat
    BY <2>1, NowFields DEF Draft
  <2>4. Owed \subseteq {1}
    BY <2>2, <2>3 DEF Owed
  <2>5. ASSUME awaitingFlush PROVE 1 \in Owed
    <3>1. Len(callbacks) = 1 /\ callbacks[1].message = current /\ ~disposed
      BY <2>2, <2>5
    <3>2. 1 \in 1..Len(callbacks)
      BY <3>1
    <3>3. QED BY <3>1, <3>2 DEF Owed, Identified
  <2>6. ASSUME NEW i \in Owed PROVE awaitingFlush
    <3>1. ~disposed /\ i \in 1..Len(callbacks)
      BY DEF Owed, Identified
    <3>2. callbacks # <<>>
      BY <3>1
    <3>3. QED BY <2>2, <3>1, <3>2
  <2>7. awaitingFlush <=> Owed # {}
    BY <2>5, <2>6
  <2>8. current # NoMessage <=> awaitingFlush \/ draining
    BY <2>1, <2>2
  <2>9. QED BY <2>1, <2>2, <2>4, <2>7, <2>8 DEF NoLostWakeup
<1>2. QED BY <1>1, Invariance, PTL

(* The busy edge the heartbeat listens to is never stale.                  *)
THEOREM BusyIsCurrent == Spec => []BusyMatchesWork
<1>1. IInv => BusyMatchesWork
  BY NowSound, NowFields DEF BusyFresh, BusyMatchesWork
<1>2. QED BY <1>1, Invariance, PTL

(* With the queue's byte limit at least the accept budget, as proxy.ts     *)
(* sets it, no message is ever refused for the queue's bytes.              *)
THEOREM QueueBytesRedundant ==
  ASSUME MaxQueueBytes >= AcceptBudget
  PROVE  Spec => []QueueBytesNeverReject
<1>1. IInv => QueueBytesNeverReject
  <2> SUFFICES ASSUME IInv,
                      NEW size \in Size, Verdict(size) = "queue-bytes"
               PROVE  FALSE
    BY DEF QueueBytesNeverReject
  <2>1. ~(acceptedBytes + size > AcceptBudget) /\ queueBytes + size > MaxQueueBytes
    BY DEF Verdict
  <2> DEFINE b == BytesOf(current)
  <2>2. b \in Nat /\ acceptedBytes = queueBytes + b
    <3>1. current \in Message \cup {NoMessage}
      BY NowSound, NowFields DEF Draft
    <3>2. QED BY <3>1, BytesOfNat, NowCounted, SenderAssumption
  <2> HIDE DEF b
  <2>3. acceptedBytes \in Nat /\ queueBytes \in Nat
    BY NowSound, NowFields DEF Draft
  <2>4. size \in Nat /\ MaxQueueBytes \in Nat /\ AcceptBudget \in Nat
    BY SenderAssumption DEF SenderAssumption
  <2>5. QED BY <2>1, <2>2, <2>3, <2>4
<1>2. QED BY <1>1, Invariance, PTL

------------------------------------------------------------------------------
(* A draft that reports a failure is disposed of.  No operator on drafts   *)
(* takes a field away, which is all that is needed of a draft here.        *)
Calm == Signal \ {"failure"}
Quiet(d) == d.disposed \/ d.emitted \in Seq(Calm)
Shaped(d) == {"disposed", "busy", "emitted"} \subseteq DOMAIN d

(* Notifications other than a failure keep a draft quiet.                  *)
LEMMA CalmSignals ==
  /\ <<>> \in Seq(Calm) /\ <<"progress">> \in Seq(Calm)
  /\ \A s \in Seq(Calm) : Append(s, "busy") \in Seq(Calm) /\ Append(s, "idle") \in Seq(Calm)
BY DEF Calm, Signal

(* refreshBusy() reports an edge, never a failure.                         *)
LEMMA RefreshBusyQuiet ==
  ASSUME NEW d, Shaped(d), Quiet(d)
  PROVE  Shaped(RefreshBusy(d)) /\ Quiet(RefreshBusy(d))
<1> DEFINE active == d.acceptedBytes > 0
           signals == Append(d.emitted, IF active THEN "busy" ELSE "idle")
           e == [d EXCEPT !.busy = active, !.emitted = signals]
<1>1. RefreshBusy(d) = IF active = d.busy THEN d ELSE e
  BY DEF RefreshBusy, Shaped
<1>2. d.emitted \in Seq(Calm) => signals \in Seq(Calm)
  BY CalmSignals
<1> HIDE DEF active, signals
<1>3. e.disposed = d.disposed /\ e.emitted = signals /\ DOMAIN e = DOMAIN d
  BY DEF Shaped
<1> HIDE DEF e
<1>4. QED BY <1>1, <1>2, <1>3 DEF Quiet, Shaped

(* dispose() and fail() leave the draft disposed of.                       *)
LEMMA DisposedQuiet ==
  ASSUME NEW d, Shaped(d)
  PROVE  Quiet(Disposed(d)) /\ Quiet(Fail(d))
<1> DEFINE rest == Released(d.reservedBytes, d.acceptedBytes)
           e == [d EXCEPT !.disposed = TRUE, !.busy = FALSE, !.queue = <<>>,
                          !.queueBytes = 0, !.acceptedBytes = 0, !.current = NoMessage,
                          !.fragmentOffset = 0, !.awaitingFlush = FALSE, !.draining = FALSE,
                          !.drainLastBuffered = NoLevel, !.reservedBytes = rest]
<1>0. Disposed(d) = e
  BY DEF Disposed
<1> HIDE DEF rest
<1>1. e.disposed = TRUE /\ DOMAIN e = DOMAIN d
  <2> DEFINE first == [d EXCEPT !.disposed = TRUE, !.busy = FALSE, !.queue = <<>>,
                                !.queueBytes = 0, !.acceptedBytes = 0, !.current = NoMessage]
  <2>1. first.disposed = TRUE /\ DOMAIN first = DOMAIN d
    BY DEF Shaped
  <2>2. e = [first EXCEPT !.fragmentOffset = 0, !.awaitingFlush = FALSE, !.draining = FALSE,
                          !.drainLastBuffered = NoLevel, !.reservedBytes = rest]
    OBVIOUS
  <2> HIDE DEF first, e
  <2>3. QED BY <2>1, <2>2 DEF Shaped
<1>2. Fail(d) = [e EXCEPT !.emitted = Append(e.emitted, "failure")]
  BY <1>0 DEF Fail
<1> HIDE DEF e
<1>3. Fail(d).disposed = TRUE
  BY <1>1, <1>2 DEF Shaped
<1>4. QED BY <1>0, <1>1, <1>3 DEF Quiet

(* commit() fails only by disposing of the sender ...                      *)
LEMMA CommitQuiet ==
  ASSUME NEW d, Shaped(d), Quiet(d), NEW throws \in BOOLEAN
  PROVE  Quiet(Commit(d, throws))
<1>1. CASE FragmentBytes > 0 /\ buffered > HighWater
  <2> DEFINE e == [d EXCEPT !.drainLastBuffered = buffered, !.draining = TRUE]
  <2>1. Commit(d, throws) = e
    BY <1>1 DEF Commit
  <2>2. e.disposed = d.disposed /\ e.emitted = d.emitted
    BY DEF Shaped
  <2> HIDE DEF e
  <2>3. QED BY <2>1, <2>2 DEF Quiet
<1>2. CASE ~(FragmentBytes > 0 /\ buffered > HighWater) /\ (readyState # "open" \/ throws)
  BY <1>2, DisposedQuiet DEF Commit
<1>3. CASE ~(FragmentBytes > 0 /\ buffered > HighWater) /\ ~(readyState # "open" \/ throws)
  <2> DEFINE e == Submit(d, FragmentEnd(d.current, d.fragmentOffset))
  <2>1. Commit(d, throws) = e
    BY <1>3 DEF Commit
  <2>2. e.disposed = d.disposed /\ e.emitted = d.emitted
    BY DEF Submit, Shaped
  <2> HIDE DEF e
  <2>3. QED BY <2>1, <2>2 DEF Quiet
<1>4. QED BY <1>1, <1>2, <1>3

(* ... and pump() does nothing else than to commit.                        *)
LEMMA PumpQuiet ==
  ASSUME NEW d, Shaped(d), Quiet(d), NEW throws \in BOOLEAN
  PROVE  Quiet(Pump(d, throws))
<1>1. CASE d.disposed \/ d.awaitingFlush \/ d.draining
  BY <1>1 DEF Pump
<1>2. CASE ~(d.disposed \/ d.awaitingFlush \/ d.draining) /\ d.current # NoMessage
  BY <1>2, CommitQuiet DEF Pump
<1>3. CASE ~(d.disposed \/ d.awaitingFlush \/ d.draining) /\ d.current = NoMessage
  <2> DEFINE e == Shifted(d)
  <2>1. e.disposed = d.disposed /\ e.emitted = d.emitted /\ DOMAIN e = DOMAIN d
    BY DEF Shifted, Shaped
  <2>2. Pump(d, throws) = IF d.queue = <<>> THEN d ELSE Commit(e, throws)
    BY <1>3 DEF Pump
  <2> HIDE DEF e
  <2>3. Shaped(e) /\ Quiet(e)
    BY <2>1 DEF Shaped, Quiet
  <2>4. QED BY <2>2, <2>3, CommitQuiet
<1>4. QED BY <1>1, <1>2, <1>3

(* What a handler leaves of a quiet draft.                                 *)
LEMMA BecomeQuiet ==
  ASSUME NEW d, Quiet(d), Become(d), NEW i \in 1 .. Len(emitted'), emitted'[i] = "failure"
  PROVE  disposed'
<1>1. disposed' = d.disposed /\ emitted' = d.emitted
  BY DEF Become
<1>2. CASE d.emitted \in Seq(Calm)
  <2>1. emitted'[i] \in Calm
    BY <1>1, <1>2
  <2>2. QED BY <2>1 DEF Calm
<1>3. QED BY <1>1, <1>2 DEF Quiet

(* Every handler of a live sender builds a quiet draft.                    *)
LEMMA HandlerQuiet ==
  ASSUME Next, ~disposed, NEW i \in 1 .. Len(emitted'), emitted'[i] = "failure"
  PROVE  disposed'
<1>0. <<>> \in Seq(Calm) /\ <<"progress">> \in Seq(Calm)
  BY CalmSignals
<1>1. ASSUME NEW tag \in Tag, NEW size \in Size, Enqueue(tag, size) PROVE disposed'
  <2> DEFINE item == [id |-> nextId, tag |-> tag, size |-> size]
             d == [Now EXCEPT !.queue = Append(Now.queue, item),
                              !.queueBytes = Now.queueBytes + item.size,
                              !.acceptedBytes = Now.acceptedBytes + item.size,
                              !.reservedBytes = Now.reservedBytes + item.size]
  <2>1. PICK throws \in BOOLEAN : Become(Pump(Accepted(item), throws))
    BY <1>1 DEF Enqueue
  <2>2. Shaped(d) /\ Quiet(d)
    BY <1>0 DEF Now, Shaped, Quiet
  <2>3. Accepted(item) = RefreshBusy(d)
    BY DEF Accepted
  <2> HIDE DEF d, item
  <2>4. QED BY <2>1, <2>2, <2>3, RefreshBusyQuiet, PumpQuiet, BecomeQuiet
<1>2. ASSUME NEW tag \in Tag, Cancel(tag) PROVE disposed'
  <2> DEFINE scan == CancelScan(queue, tag)
             d == [Now EXCEPT !.queue = scan.kept,
                              !.queueBytes = Now.queueBytes - scan.removedBytes,
                              !.acceptedBytes = Now.acceptedBytes - scan.removedBytes,
                              !.reservedBytes = Released(Now.reservedBytes, scan.removedBytes)]
  <2>1. Become(RefreshBusy(d))
    BY <1>2 DEF Cancel
  <2> HIDE DEF scan
  <2>2. Shaped(d) /\ Quiet(d)
    BY <1>0 DEF Now, Shaped, Quiet
  <2> HIDE DEF d
  <2>3. QED BY <2>1, <2>2, RefreshBusyQuiet, BecomeQuiet
<1>3. CASE Dispose
  <2>1. Shaped(Now)
    BY DEF Now, Shaped
  <2>2. QED BY <1>3, <2>1, DisposedQuiet, BecomeQuiet DEF Dispose
<1>4. CASE LateFlush
  <2> DEFINE d == [Now EXCEPT !.callbacks = Tail(Now.callbacks)]
  <2>1. Become(d)
    BY <1>4 DEF LateFlush
  <2>2. Quiet(d)
    BY <1>0 DEF Now, Quiet
  <2> HIDE DEF d
  <2>3. QED BY <2>1, <2>2, BecomeQuiet
<1>5. CASE FlushFailed
  <2>1. Shaped(Flushed)
    BY DEF Flushed, Now, Shaped
  <2>2. QED BY <1>5, <2>1, DisposedQuiet, BecomeQuiet DEF FlushFailed
<1>6. CASE FlushPart
  <2> DEFINE d == [Flushed EXCEPT !.emitted = <<"progress">>,
                                  !.fragmentOffset = Flushed.fragmentOffset + Head(callbacks).bytes]
  <2>1. PICK throws \in BOOLEAN : Become(Pump(d, throws))
    BY <1>6 DEF FlushPart
  <2>2. Shaped(d) /\ Quiet(d)
    BY <1>0 DEF Flushed, Now, Shaped, Quiet
  <2> HIDE DEF d
  <2>3. QED BY <2>1, <2>2, PumpQuiet, BecomeQuiet
<1>7. CASE FlushLast
  <2> DEFINE m == Head(callbacks).message
             acc == Flushed.acceptedBytes - m.size
             res == Released(Flushed.reservedBytes, m.size)
             done == Append(Flushed.completed, m)
             d == [Flushed EXCEPT !.emitted = <<"progress">>,
                                  !.current = NoMessage, !.fragmentOffset = 0,
                                  !.acceptedBytes = acc, !.reservedBytes = res,
                                  !.completed = done]
  <2>1. PICK throws \in BOOLEAN : Become(Pump(Finished(m), throws))
    BY <1>7 DEF FlushLast
  <2>2. Finished(m) = RefreshBusy(d)
    BY DEF Finished
  <2> HIDE DEF m, acc, res, done
  <2>3. Shaped(Flushed)
    BY DEF Flushed, Now, Shaped
  <2>4. Shaped(d) /\ Quiet(d)
    BY <1>0, <2>3 DEF Shaped, Quiet
  <2> HIDE DEF d
  <2>5. QED BY <2>1, <2>2, <2>4, RefreshBusyQuiet, PumpQuiet, BecomeQuiet
<1>8. CASE DrainPoll
  <2> DEFINE signals == IF drainLastBuffered # NoLevel /\ buffered < drainLastBuffered
                          THEN <<"progress">> ELSE <<>>
             d == [Now EXCEPT !.draining = FALSE, !.drainLastBuffered = buffered,
                              !.emitted = signals]
             f == [Now EXCEPT !.draining = FALSE]
             w == [d EXCEPT !.draining = TRUE]
             p == [d EXCEPT !.drainLastBuffered = NoLevel]
  <2>1. \/ Become(Fail(f)) \/ Become(w) \/ \E throws \in BOOLEAN : Become(Pump(p, throws))
    BY <1>8 DEF DrainPoll
  <2>2. signals \in Seq(Calm)
    BY <1>0
  <2> HIDE DEF signals
  <2>3. Shaped(f) /\ Shaped(w) /\ Quiet(w) /\ Shaped(p) /\ Quiet(p)
    BY <2>2 DEF Now, Shaped, Quiet
  <2> HIDE DEF d, f, w, p
  <2>4. QED BY <2>1, <2>3, DisposedQuiet, PumpQuiet, BecomeQuiet
<1>9. CASE \/ (\E level \in Level : SocketLevel(level)) \/ SocketLeavesOpen
           \/ \E bytes \in Size : OthersReserve(bytes) \/ OthersRelease(bytes)
  BY <1>9 DEF SocketLevel, SocketLeavesOpen, OthersReserve, OthersRelease
<1>10. QED
  BY <1>1, <1>2, <1>3, <1>4, <1>5, <1>6, <1>7, <1>8, <1>9 DEF Next

(* After disposal only a late callback, the socket and the other senders   *)
(* take steps, and none of them is heard.                                  *)
LEMMA DisposedSilent ==
  ASSUME IInv, Next, disposed
  PROVE  disposed' /\ emitted' = <<>> /\ UNCHANGED <<wire, completed, acceptedBytes, busy>>
<1>1. ~draining
  BY NowSound, NowFields DEF Sound, Outstanding
<1>2. CASE LateFlush
  <2> DEFINE d == [Now EXCEPT !.callbacks = Tail(Now.callbacks)]
  <2>1. Become(d)
    BY <1>2 DEF LateFlush
  <2>2. /\ d.disposed = disposed /\ d.emitted = <<>> /\ d.wire = wire
        /\ d.completed = completed /\ d.acceptedBytes = acceptedBytes /\ d.busy = busy
    BY DEF Now
  <2> HIDE DEF d
  <2>3. QED BY <2>1, <2>2 DEF Become
<1>3. CASE \/ (\E level \in Level : SocketLevel(level)) \/ SocketLeavesOpen
           \/ \E bytes \in Size : OthersReserve(bytes) \/ OthersRelease(bytes)
  BY <1>3 DEF SocketLevel, SocketLeavesOpen, OthersReserve, OthersRelease, senderVars
<1>4. ~Dispose /\ ~FlushFailed /\ ~FlushPart /\ ~FlushLast /\ ~DrainPoll
  BY <1>1 DEF Dispose, FlushFailed, FlushPart, FlushLast, DrainPoll, Identified
<1>5. ASSUME NEW tag \in Tag PROVE ~Cancel(tag)
  BY DEF Cancel
<1>6. ASSUME NEW tag \in Tag, NEW size \in Size PROVE ~Enqueue(tag, size)
  BY VerdictAccepted DEF Enqueue
<1>7. QED
  BY <1>2, <1>3, <1>4, <1>5, <1>6 DEF Next

(* Disposal is terminal: nothing that comes later writes, charges a byte   *)
(* or notifies the carrier, and a failure is reported once, by the step    *)
(* that disposes.                                                          *)
THEOREM DisposalIsTerminal == Spec => TerminalSilence
<1> DEFINE A == /\ disposed => /\ disposed' /\ emitted' = <<>>
                               /\ UNCHANGED <<wire, completed, acceptedBytes, busy>>
                /\ (\E i \in 1..Len(emitted') : emitted'[i] = "failure") => disposed' /\ ~disposed
<1>1. ASSUME IInv, Next PROVE A
  <2>1. CASE disposed
    <3>1. emitted' = <<>> /\ Len(<<>>) = 0
      BY <1>1, <2>1, DisposedSilent
    <3>2. QED BY <1>1, <2>1, <3>1, DisposedSilent
  <2>2. CASE ~disposed
    BY <1>1, <2>2, HandlerQuiet
  <2>3. QED BY <2>1, <2>2
<1>2. IInv /\ [Next]_vars => [A]_vars
  BY <1>1
<1>3. QED BY <1>2, Invariance, PTL DEF Spec, TerminalSilence

------------------------------------------------------------------------------
(* The wire.  Fragment i of w fits those before it.                        *)
FitsBefore(w, i) ==
  LET f == w[i]
      starts == i = 1 \/ w[i - 1].fin
  IN  /\ f.fin <=> f.to = f.message.size
      /\ f.from < f.to \/ f.message.size = 0
      /\ starts => f.from = 0 /\ \A j \in 1..i - 1 : w[j].message.id < f.message.id
      /\ ~starts => f.message = w[i - 1].message /\ f.from = w[i - 1].to

(* Every message on the wire is older than the one numbered id.            *)
OlderThan(w, id) == \A j \in 1..Len(w) : w[j].message.id < id

(* The next fragment starts a message.                                     *)
BetweenMessages(w) == Len(w) = 0 \/ w[Len(w)].fin

(* The wire ends inside message m, at byte `at'.                           *)
EndsInside(w, m, at, fin) ==
  Len(w) > 0 /\ w[Len(w)].message = m /\ w[Len(w)].to = at /\ w[Len(w)].fin = fin

(* Waiting messages are numbered in the order in which they will leave,    *)
(* after everything on the wire.                                           *)
Numbered(d, next) ==
  /\ \A i, j \in 1..Len(d.queue) : i < j => d.queue[i].id < d.queue[j].id
  /\ \A i \in 1..Len(d.queue) :
       /\ OlderThan(d.wire, d.queue[i].id) /\ d.queue[i].id < next
       /\ d.current # NoMessage => d.current.id < d.queue[i].id
  /\ OlderThan(d.wire, next)
  /\ d.current # NoMessage => d.current.id < next

(* Where the sender believes to be in the message in flight is where the   *)
(* wire ends.                                                              *)
InStep(d) ==
  /\ d.current = NoMessage => BetweenMessages(d.wire)
  /\ d.current # NoMessage /\ ~d.awaitingFlush =>
       \/ /\ d.fragmentOffset = 0 /\ BetweenMessages(d.wire)
          /\ OlderThan(d.wire, d.current.id)
       \/ EndsInside(d.wire, d.current, d.fragmentOffset, FALSE)
  /\ d.awaitingFlush =>
       EndsInside(d.wire, d.current, d.fragmentOffset + d.callbacks[1].bytes,
                  d.callbacks[1].isLast)

(* What a handler keeps of the wire; once disposed, nothing is added.      *)
Wired(d, next) ==
  /\ \A i \in 1..Len(d.wire) : FitsBefore(d.wire, i)
  /\ ~d.disposed => Numbered(d, next) /\ InStep(d)

(* The messages a caller may still hope for, oldest first.                 *)
PendingOf(d) == (IF d.current = NoMessage THEN <<>> ELSE <<d.current>>) \o d.queue

(* A step of a handler that delivers nothing: it leaves what is pending as *)
(* it was, or loses all of it with the sender.                             *)
PassesOn(e, d) ==
  /\ e.completed = d.completed
  /\ \/ e.disposed = d.disposed /\ PendingOf(e) = PendingOf(d)
     \/ e.disposed /\ PendingOf(e) = <<>>

(* Wired and PassesOn only look at some fields of a draft.                 *)
SameWire(e, d) ==
  /\ e.disposed = d.disposed /\ e.queue = d.queue /\ e.current = d.current
  /\ e.fragmentOffset = d.fragmentOffset /\ e.awaitingFlush = d.awaitingFlush
  /\ e.callbacks = d.callbacks /\ e.wire = d.wire /\ e.completed = d.completed

LEMMA SameWireWired ==
  ASSUME NEW d, NEW e, SameWire(e, d), NEW next
  PROVE  PassesOn(e, d) /\ (Wired(d, next) => Wired(e, next))
BY DEF SameWire, Wired, Numbered, InStep, PassesOn, PendingOf

(* refreshBusy() touches neither the wire nor what is pending.             *)
LEMMA RefreshBusySameWire ==
  ASSUME NEW d,
         {"busy", "emitted", "disposed", "queue", "current", "fragmentOffset",
          "awaitingFlush", "callbacks", "wire", "completed"} \subseteq DOMAIN d
  PROVE  SameWire(RefreshBusy(d), d)
<1> DEFINE active == d.acceptedBytes > 0
           signals == Append(d.emitted, IF active THEN "busy" ELSE "idle")
           e == [d EXCEPT !.busy = active, !.emitted = signals]
<1>1. RefreshBusy(d) = IF active = d.busy THEN d ELSE e
  BY DEF RefreshBusy
<1> HIDE DEF active, signals
<1>2. SameWire(e, d)
  BY DEF SameWire
<1>3. SameWire(d, d)
  BY DEF SameWire
<1> HIDE DEF e
<1>4. QED BY <1>1, <1>2, <1>3

(* dispose() and fail() lose what is pending and leave the wire alone.     *)
LEMMA DisposedFields ==
  ASSUME NEW d \in Draft
  PROVE  /\ Disposed(d).disposed /\ PendingOf(Disposed(d)) = <<>>
         /\ Disposed(d).wire = d.wire /\ Disposed(d).completed = d.completed
         /\ Fail(d).disposed /\ PendingOf(Fail(d)) = <<>>
         /\ Fail(d).wire = d.wire /\ Fail(d).completed = d.completed
<1> DEFINE rest == Released(d.reservedBytes, d.acceptedBytes)
           e == Disposed(d)
           f == Fail(d)
<1>0. e = [d EXCEPT !.disposed = TRUE, !.busy = FALSE, !.queue = <<>>,
                    !.queueBytes = 0, !.acceptedBytes = 0, !.current = NoMessage,
                    !.fragmentOffset = 0, !.awaitingFlush = FALSE, !.draining = FALSE,
                    !.drainLastBuffered = NoLevel, !.reservedBytes = rest]
  BY DEF Disposed
<1> HIDE DEF rest, e
<1>1. /\ e.disposed = TRUE /\ e.queue = <<>> /\ e.current = NoMessage
      /\ e.wire = d.wire /\ e.completed = d.completed /\ DOMAIN e = DOMAIN d
  BY <1>0 DEF Draft
<1>2. f = [e EXCEPT !.emitted = Append(e.emitted, "failure")]
  BY DEF Fail, e
<1> HIDE DEF f
<1>3. /\ f.disposed = TRUE /\ f.queue = <<>> /\ f.current = NoMessage
      /\ f.wire = d.wire /\ f.completed = d.completed
  BY <1>1, <1>2
<1>4. PendingOf(e) = <<>> /\ PendingOf(f) = <<>>
  BY <1>1, <1>3 DEF PendingOf
<1>5. QED BY <1>1, <1>3, <1>4 DEF e, f

(* ... so they keep the wire well formed, and nothing passes them.         *)
LEMMA DisposedWired ==
  ASSUME NEW d \in Draft, NEW next, Wired(d, next)
  PROVE  /\ Wired(Disposed(d), next) /\ PassesOn(Disposed(d), d)
         /\ Wired(Fail(d), next) /\ PassesOn(Fail(d), d)
BY DisposedFields DEF Wired, PassesOn

(* The next fragment of the message in flight begins where the wire ends.  *)
LEMMA SubmitWired ==
  ASSUME SenderAssumption, NEW d, Sound(d), NEW next, Wired(d, next),
         d.current # NoMessage, ~d.awaitingFlush, ~d.draining, ~d.disposed
  PROVE  LET e == Submit(d, FragmentEnd(d.current, d.fragmentOffset))
         IN  Wired(e, next) /\ PassesOn(e, d)
<1> DEFINE end == FragmentEnd(d.current, d.fragmentOffset)
           isLast == end >= d.current.size
           cb == [message |-> d.current, bytes |-> end - d.fragmentOffset,
                  isLast |-> isLast]
           fragment == [message |-> d.current, from |-> d.fragmentOffset,
                        to |-> end, fin |-> isLast]
           cbs == Append(d.callbacks, cb)
           frags == Append(d.wire, fragment)
           e == [d EXCEPT !.awaitingFlush = TRUE, !.callbacks = cbs, !.wire = frags]
<1>1. Submit(d, end) = e
  BY DEF Submit
<1>2. /\ d \in Draft /\ d.current \in Message /\ d.fragmentOffset \in Nat
      /\ d.fragmentOffset <= d.current.size /\ d.current.size \in Nat
      /\ d.callbacks = <<>> /\ d.wire \in Seq(Fragment)
  BY DEF Sound, Outstanding, Draft, SenderAssumption, Message
<1>3. end \in Nat /\ d.fragmentOffset <= end /\ end <= d.current.size
  BY <1>2, FragmentEndBounds
<1>a. d.fragmentOffset < d.current.size => d.fragmentOffset < end
  BY <1>2 DEF FragmentEnd, Min2, SenderAssumption
<1> HIDE DEF end
<1>4. isLast \in BOOLEAN /\ (isLast <=> end = d.current.size)
  BY SMTT(30), <1>2, <1>3
<1> HIDE DEF isLast
<1>5. /\ cb \in Callback /\ cb.isLast = isLast
      /\ d.fragmentOffset + cb.bytes = end
      /\ fragment \in Fragment /\ fragment.message = d.current
      /\ fragment.from = d.fragmentOffset /\ fragment.to = end /\ fragment.fin = isLast
  BY SMTT(30), <1>2, <1>3, <1>4 DEF Callback, Fragment
<1> HIDE DEF cb, fragment
<1>6. cbs[1] = cb
  BY <1>2, <1>5
<1> DEFINE n == Len(d.wire)
<1>7. /\ n \in Nat /\ Len(frags) = n + 1 /\ frags[n + 1] = fragment
      /\ \A i \in 1..n : frags[i] = d.wire[i]
  BY SMTT(30), <1>2, <1>5
<1> HIDE DEF cbs, frags
<1>8. /\ e.disposed = d.disposed /\ e.queue = d.queue
      /\ e.current = d.current /\ e.fragmentOffset = d.fragmentOffset
      /\ e.awaitingFlush = TRUE /\ e.callbacks = cbs /\ e.wire = frags
      /\ e.completed = d.completed
  BY <1>2 DEF Draft
<1> HIDE DEF e
<1>9. /\ Numbered(d, next)
      /\ \/ /\ d.fragmentOffset = 0 /\ BetweenMessages(d.wire)
            /\ OlderThan(d.wire, d.current.id)
         \/ EndsInside(d.wire, d.current, d.fragmentOffset, FALSE)
      /\ \A i \in 1..n : FitsBefore(d.wire, i)
  BY DEF Wired, InStep
<1>10. FitsBefore(frags, n + 1)
  <2>1. (n + 1) - 1 = n /\ (n + 1 = 1 <=> n = 0)
    BY <1>7
  <2>2. fragment.fin <=> fragment.to = fragment.message.size
    BY <1>4, <1>5
  <2>3. CASE /\ d.fragmentOffset = 0 /\ BetweenMessages(d.wire)
             /\ OlderThan(d.wire, d.current.id)
    <3>1. fragment.from < fragment.to \/ fragment.message.size = 0
      BY <1>2, <1>a, <1>5, <2>3
    <3>2. n + 1 = 1 \/ frags[n].fin
      <4>1. n = 0 \/ (n \in 1..n /\ d.wire[n].fin)
        BY <1>7, <2>3 DEF BetweenMessages
      <4>2. CASE n = 0
        BY <4>2
      <4>3. CASE n \in 1..n /\ d.wire[n].fin
        <5>1. frags[n] = d.wire[n] BY <1>7, <4>3
        <5>2. QED BY <4>3, <5>1
      <4>4. QED BY <4>1, <4>2, <4>3
    <3>3. \A j \in 1..n : frags[j].message.id < fragment.message.id
      BY <1>5, <1>7, <2>3 DEF OlderThan
    <3>4. QED BY <1>5, <1>7, <2>1, <2>2, <2>3, <3>1, <3>2, <3>3 DEF FitsBefore
  <2>4. CASE EndsInside(d.wire, d.current, d.fragmentOffset, FALSE)
    <3>1. /\ n > 0 /\ frags[n].message = d.current /\ frags[n].to = d.fragmentOffset
          /\ frags[n].fin = FALSE
      <4>1. /\ n > 0 /\ d.wire[n].message = d.current /\ d.wire[n].to = d.fragmentOffset
            /\ d.wire[n].fin = FALSE
        BY <2>4 DEF EndsInside
      <4>2. n \in 1..n BY <1>7, <4>1
      <4>3. frags[n] = d.wire[n] BY <1>7, <4>2
      <4>4. QED BY <4>1, <4>3
    <3>2. d.fragmentOffset # d.current.size
      <4>1. n \in 1..n BY <1>7, <3>1
      <4>2. FitsBefore(d.wire, n) BY <1>9, <4>1
      <4>3. d.wire[n].fin <=> d.wire[n].to = d.wire[n].message.size
        BY <4>2 DEF FitsBefore
      <4>4. QED BY <1>7, <3>1, <4>1, <4>3
    <3>3. fragment.from < fragment.to
      BY <1>2, <1>a, <1>5, <3>2
    <3>4. ~(n + 1 = 1 \/ frags[n].fin)
      BY SMTT(30), <1>7, <3>1
    <3>5. QED BY <1>5, <1>7, <2>1, <2>2, <3>1, <3>3, <3>4 DEF FitsBefore
  <2>5. QED BY <1>9, <2>3, <2>4
<1>11. ASSUME NEW i \in 1..n PROVE FitsBefore(frags, i)
  <2>1. FitsBefore(d.wire, i) BY <1>9
  <2>2. frags[i] = d.wire[i] /\ (i # 1 => frags[i - 1] = d.wire[i - 1])
    BY SMTT(30), <1>7
  <2>3. \A j \in 1..i - 1 : frags[j] = d.wire[j]
    BY <1>7
  <2>4. QED BY <2>1, <2>2, <2>3 DEF FitsBefore
<1>12. \A i \in 1..Len(frags) : FitsBefore(frags, i)
  <2>1. TAKE i \in 1..Len(frags)
  <2>2. i \in 1..n \/ i = n + 1 BY <1>7
  <2>3. QED BY <1>10, <1>11, <2>2
<1>13. ASSUME NEW id, OlderThan(d.wire, id), d.current.id < id PROVE OlderThan(frags, id)
  <2>1. SUFFICES ASSUME NEW j \in 1..Len(frags) PROVE frags[j].message.id < id
    BY DEF OlderThan
  <2>2. j \in 1..n \/ j = n + 1 BY <1>7
  <2>3. QED BY <1>5, <1>7, <1>13, <2>2 DEF OlderThan
<1>14. Numbered(e, next)
  BY <1>8, <1>9, <1>13 DEF Numbered
<1>15. InStep(e)
  <2>1. EndsInside(frags, d.current, end, isLast)
    BY <1>5, <1>7 DEF EndsInside
  <2>2. QED BY <1>5, <1>6, <1>8, <2>1 DEF InStep
<1>16. Wired(e, next) /\ PassesOn(e, d)
  BY <1>8, <1>12, <1>14, <1>15 DEF Wired, PassesOn, PendingOf
<1>17. QED BY <1>1, <1>16 DEF end

(* commit() waits, fails or submits.                                       *)
LEMMA CommitWired ==
  ASSUME SenderAssumption, NEW d, Sound(d), NEW next, Wired(d, next),
         NEW throws \in BOOLEAN,
         d.current # NoMessage, ~d.awaitingFlush, ~d.draining, ~d.disposed
  PROVE  Wired(Commit(d, throws), next) /\ PassesOn(Commit(d, throws), d)
<1> DEFINE e == [d EXCEPT !.drainLastBuffered = buffered, !.draining = TRUE]
<1>1. CASE FragmentBytes > 0 /\ buffered > HighWater
  <2>1. Commit(d, throws) = e
    BY <1>1 DEF Commit
  <2>2. /\ e.disposed = d.disposed /\ e.queue = d.queue
        /\ e.current = d.current /\ e.fragmentOffset = d.fragmentOffset
        /\ e.awaitingFlush = d.awaitingFlush /\ e.callbacks = d.callbacks
        /\ e.wire = d.wire /\ e.completed = d.completed
    BY DEF Sound, Draft
  <2> HIDE DEF e
  <2>3. Wired(e, next) /\ PassesOn(e, d)
    BY <2>2 DEF Wired, Numbered, InStep, PassesOn, PendingOf
  <2>4. QED BY <2>1, <2>3
<1>2. CASE ~(FragmentBytes > 0 /\ buffered > HighWater) /\ (readyState # "open" \/ throws)
  BY <1>2, DisposedWired DEF Commit, Sound
<1>3. CASE ~(FragmentBytes > 0 /\ buffered > HighWater) /\ ~(readyState # "open" \/ throws)
  <2>1. Commit(d, throws) = Submit(d, FragmentEnd(d.current, d.fragmentOffset))
    BY <1>3 DEF Commit
  <2>2. QED BY <1>3, <2>1, SubmitWired
<1>4. QED BY <1>1, <1>2, <1>3

(* The head of the queue becomes the message in flight: nothing of it is   *)
(* on the wire, and what is pending stays the same.                        *)
LEMMA ShiftedWired ==
  ASSUME SenderAssumption, NEW d, Sound(d), NEW next, Wired(d, next),
         d.current = NoMessage, d.queue # <<>>, ~d.awaitingFlush, ~d.disposed
  PROVE  Wired(Shifted(d), next) /\ PassesOn(Shifted(d), d)
<1> DEFINE m == Head(d.queue)
           q == Tail(d.queue)
           left == d.queueBytes - m.size
           e == [d EXCEPT !.current = m, !.fragmentOffset = 0, !.queue = q, !.queueBytes = left]
<1>1. Shifted(d) = e
  BY DEF Shifted
<1>2. d \in Draft /\ d.queue \in Seq(Message)
  BY DEF Sound, Draft
<1>3. /\ m \in Message /\ m = d.queue[1] /\ 1 \in 1..Len(d.queue)
      /\ q \in Seq(Message) /\ Len(d.queue) = Len(q) + 1 /\ Len(q) \in Nat
      /\ \A i \in 1..Len(q) : q[i] = d.queue[i + 1] /\ i + 1 \in 1..Len(d.queue)
  BY SMTT(30), <1>2
<1>4. <<m>> \o q = d.queue
  BY <1>2
<1>a. <<>> \o d.queue = d.queue
  BY <1>2
<1>5. m # NoMessage
  BY <1>3 DEF SenderAssumption
<1> HIDE DEF m, q, left
<1>6. /\ e.disposed = d.disposed /\ e.queue = q /\ e.current = m
      /\ e.fragmentOffset = 0 /\ e.awaitingFlush = d.awaitingFlush
      /\ e.callbacks = d.callbacks /\ e.wire = d.wire /\ e.completed = d.completed
  BY <1>2 DEF Draft
<1> HIDE DEF e
<1>7. Numbered(d, next) /\ BetweenMessages(d.wire)
  BY DEF Wired, InStep
<1>8. Numbered(e, next)
  <2>1. /\ \A i, j \in 1..Len(d.queue) : i < j => d.queue[i].id < d.queue[j].id
        /\ \A i \in 1..Len(d.queue) : OlderThan(d.wire, d.queue[i].id) /\ d.queue[i].id < next
        /\ OlderThan(d.wire, next)
    BY <1>7 DEF Numbered
  <2>2. \A i, j \in 1..Len(q) : i < j => q[i].id < q[j].id
    <3>1. TAKE i, j \in 1..Len(q)
    <3>2. i < j => i + 1 < j + 1 BY <1>3
    <3>3. QED BY <1>3, <2>1, <3>2
  <2>3. \A i \in 1..Len(q) : /\ OlderThan(d.wire, q[i].id) /\ q[i].id < next
                             /\ m.id < q[i].id
    <3>1. TAKE i \in 1..Len(q)
    <3>2. 1 < i + 1 BY <1>3
    <3>3. QED BY <1>3, <2>1, <3>2
  <2>4. m.id < next
    BY <1>3, <2>1
  <2>5. QED BY <1>6, <2>1, <2>2, <2>3, <2>4 DEF Numbered
<1>9. InStep(e)
  <2>1. OlderThan(d.wire, m.id)
    BY <1>3, <1>7 DEF Numbered
  <2>2. QED BY <1>5, <1>6, <1>7, <2>1 DEF InStep
<1>10. PassesOn(e, d)
  BY <1>4, <1>a, <1>5, <1>6 DEF PassesOn, PendingOf
<1>11. QED BY <1>1, <1>6, <1>8, <1>9, <1>10 DEF Wired

(* pump() keeps the wire well formed and delivers nothing by itself.       *)
LEMMA PumpWired ==
  ASSUME SenderAssumption, Env, NEW d, Sound(d), BusyFresh(d), NEW next, Wired(d, next),
         NEW throws \in BOOLEAN
  PROVE  Wired(Pump(d, throws), next) /\ PassesOn(Pump(d, throws), d)
<1>1. CASE d.disposed \/ d.awaitingFlush \/ d.draining
  BY <1>1 DEF Pump, PassesOn
<1>2. CASE ~(d.disposed \/ d.awaitingFlush \/ d.draining) /\ d.current # NoMessage
  <2>1. Pump(d, throws) = Commit(d, throws)
    BY <1>2 DEF Pump
  <2>2. QED BY <1>2, <2>1, CommitWired
<1>3. CASE ~(d.disposed \/ d.awaitingFlush \/ d.draining) /\ d.current = NoMessage
           /\ d.queue = <<>>
  BY <1>3 DEF Pump, PassesOn
<1>4. CASE ~(d.disposed \/ d.awaitingFlush \/ d.draining) /\ d.current = NoMessage
           /\ d.queue # <<>>
  <2> DEFINE e == Shifted(d)
  <2>1. /\ Sound(e) /\ e.current # NoMessage
        /\ ~e.awaitingFlush /\ ~e.draining /\ ~e.disposed
    BY <1>4, ShiftedSound
  <2>2. Wired(e, next) /\ PassesOn(e, d)
    BY <1>4, ShiftedWired
  <2>3. Pump(d, throws) = Commit(e, throws)
    BY <1>4 DEF Pump
  <2> HIDE DEF e
  <2>4. Wired(Commit(e, throws), next) /\ PassesOn(Commit(e, throws), e)
    BY <2>1, <2>2, CommitWired
  <2>5. PassesOn(Commit(e, throws), d)
    BY <2>2, <2>4 DEF PassesOn
  <2>6. QED BY <2>3, <2>4, <2>5
<1>5. QED BY <1>1, <1>2, <1>3, <1>4

(* The abstract pipe's view of a step of the sender.                       *)
PipeStep == [Pipe!Next]_(Pipe!pipeVars)

(* The state a handler leaves, seen as a wire and as a pipe.               *)
LEMMA BecomeWired ==
  ASSUME NEW d, Become(d), Wired(d, nextId')
  PROVE  /\ Wired(Now, nextId)'
         /\ disposed' = d.disposed /\ completed' = d.completed
         /\ PendingOf(Now)' = PendingOf(d)
<1> DEFINE n == Now'
<1>1. SameWire(n, d)
  BY DEF Become, Now, SameWire
<1>2. Wired(n, nextId') /\ PendingOf(n) = PendingOf(d)
  <2> HIDE DEF n
  <2>1. QED BY <1>1, SameWireWired DEF SameWire, PendingOf
<1>3. QED BY <1>2 DEF Become, Wired, PendingOf, Numbered, InStep

(* A handler that delivers nothing is a step of the pipe: it stutters or   *)
(* the pipe breaks.                                                        *)
LEMMA PassingStep ==
  ASSUME NEW d, Become(d), Wired(d, nextId'), PassesOn(d, Now), ~disposed
  PROVE  PipeStep
<1>1. /\ disposed' = d.disposed /\ completed' = d.completed
      /\ PendingOf(Now)' = PendingOf(d)
  BY BecomeWired
<1>2. Now.disposed = disposed /\ Now.completed = completed
  BY NowFields
<1>3. /\ PendingOf(Now) = (IF current = NoMessage THEN <<>> ELSE <<current>>) \o queue
      /\ PendingOf(Now)' = ((IF current = NoMessage THEN <<>> ELSE <<current>>) \o queue)'
  BY NowFields DEF PendingOf, Now
<1>4. CASE d.disposed = disposed /\ PendingOf(d) = PendingOf(Now)
  BY <1>1, <1>2, <1>3, <1>4 DEF PassesOn, PipeStep, Pipe!pipeVars
<1>5. CASE d.disposed /\ PendingOf(d) = <<>>
  <2>1. Pipe!Close
    BY <1>1, <1>2, <1>3, <1>5 DEF PassesOn, Pipe!Close
  <2>2. QED BY <2>1 DEF PipeStep, Pipe!Next
<1>6. QED BY <1>2, <1>4, <1>5 DEF PassesOn

(* What joins the end of the queue joins the end of what is pending.       *)
LEMMA PendingAppend ==
  ASSUME NEW c \in Message \cup {NoMessage}, NEW q \in Seq(Message), NEW m \in Message
  PROVE  (IF c = NoMessage THEN <<>> ELSE <<c>>) \o Append(q, m)
           = Append((IF c = NoMessage THEN <<>> ELSE <<c>>) \o q, m)
<1>1. CASE c = NoMessage
  BY <1>1
<1>2. CASE c # NoMessage
  <2>1. c \in Message /\ <<c>> \in Seq(Message)
    BY <1>2
  <2> DEFINE f == <<c>>
  <2>3. f \in Seq(Message)
    BY <2>1
  <2> HIDE DEF f
  <2>2. f \o Append(q, m) = Append(f \o q, m)
    BY <2>3
  <2>4. QED BY <1>2, <2>2 DEF f
<1>3. QED BY <1>1, <1>2

(* A message that enqueue() accepts is the last in line, on the wire and   *)
(* in the pipe.                                                            *)
LEMMA EnqueueWired ==
  ASSUME SenderAssumption, IInv, Wired(Now, nextId),
         NEW tag \in Tag, NEW size \in Size, Enqueue(tag, size)
  PROVE  Wired(Now, nextId)' /\ PipeStep
<1> DEFINE item == [id |-> nextId, tag |-> tag, size |-> size]
           q == Append(queue, item)
           qb == queueBytes + item.size
           acc == acceptedBytes + item.size
           res == reservedBytes + item.size
           d == [Now EXCEPT !.queue = q, !.queueBytes = qb, !.acceptedBytes = acc,
                            !.reservedBytes = res]
           a == Accepted(item)
<1>1. nextId \in Nat /\ nextId < MaxAccepted /\ MaxAccepted \in Nat
  BY DEF IInv, Enqueue, SenderAssumption
<1>2. item \in Message /\ item.size = size /\ item.id = nextId
  BY <1>1 DEF Message
<1>3. PICK throws \in BOOLEAN : Become(Pump(a, throws))
  BY DEF Enqueue
<1>4. Verdict(item.size) = "accepted" /\ nextId' = nextId + 1
  BY <1>2 DEF Enqueue
<1>5. ~disposed
  BY <1>4, VerdictAccepted
<1>6. Sound(a) /\ BusyFresh(a)
  BY <1>2, <1>4, AcceptedSound
<1>7. a = RefreshBusy(d)
  BY NowFields DEF Accepted
<1>8. queue \in Seq(Message) /\ current \in Message \cup {NoMessage}
      /\ wire \in Seq(Fragment)
  BY NowSound, NowFields DEF Draft
<1>9. /\ d.disposed = disposed /\ d.queue = q /\ d.current = current
      /\ d.fragmentOffset = fragmentOffset /\ d.awaitingFlush = awaitingFlush
      /\ d.callbacks = callbacks /\ d.wire = wire /\ d.completed = completed
      /\ {"busy", "emitted", "disposed", "queue", "current", "fragmentOffset",
          "awaitingFlush", "callbacks", "wire", "completed"} \subseteq DOMAIN d
  <2> HIDE DEF q, qb, acc, res, item
  <2>1. QED BY DEF Now
<1> DEFINE n == Len(queue)
<1>10. /\ n \in Nat /\ Len(q) = n + 1 /\ q[n + 1] = item
       /\ \A i \in 1..n : q[i] = queue[i]
       /\ q \in Seq(Message)
  BY <1>2, <1>8
<1> HIDE DEF q, item, d, a
<1>11. SameWire(a, d)
  BY <1>7, <1>9, RefreshBusySameWire
<1>12. Numbered(Now, nextId) /\ InStep(Now) /\ \A i \in 1..Len(wire) : FitsBefore(wire, i)
  BY <1>5, NowFields DEF Wired
<1>13. /\ \A i, j \in 1..n : i < j => queue[i].id < queue[j].id
       /\ \A i \in 1..n :
            /\ OlderThan(wire, queue[i].id) /\ queue[i].id < nextId
            /\ current # NoMessage => current.id < queue[i].id
       /\ OlderThan(wire, nextId)
       /\ current # NoMessage => current.id < nextId
  BY <1>12, NowFields DEF Numbered
<1>14. /\ \A i \in 1..n : queue[i].id \in Nat
       /\ \A i \in 1..Len(wire) : wire[i].message.id \in Nat
       /\ current # NoMessage => current.id \in Nat
  <2>1. \A m \in Message : m.id \in Nat
    BY <1>1 DEF Message
  <2>2. \A f \in Fragment : f.message \in Message
    BY DEF Fragment
  <2>3. \A i \in 1..n : queue[i] \in Message
    BY <1>8
  <2>4. \A i \in 1..Len(wire) : wire[i] \in Fragment
    BY <1>8
  <2>5. QED BY <1>8, <2>1, <2>2, <2>3, <2>4
<1>15. Numbered(d, nextId + 1)
  <2>1. OlderThan(wire, nextId + 1)
    BY SMTT(30), <1>1, <1>13, <1>14 DEF OlderThan
  <2>2. \A i \in 1..n + 1 :
          /\ OlderThan(wire, q[i].id) /\ q[i].id < nextId + 1
          /\ current # NoMessage => current.id < q[i].id
    <3>1. TAKE i \in 1..n + 1
    <3>2. CASE i = n + 1
      BY <1>1, <1>2, <1>10, <1>13, <3>2
    <3>3. CASE i # n + 1
      <4>1. i \in 1..n BY <1>10, <3>3
      <4>2. q[i] = queue[i] /\ queue[i].id < nextId /\ queue[i].id \in Nat
        BY <1>10, <1>13, <1>14, <4>1
      <4>3. QED BY SMTT(30), <1>1, <1>13, <4>1, <4>2
    <3>4. QED BY <3>2, <3>3
  <2>3. \A i, j \in 1..n + 1 : i < j => q[i].id < q[j].id
    <3>1. TAKE i, j \in 1..n + 1
    <3>2. HAVE i < j
    <3>3. i \in 1..n /\ q[i] = queue[i] /\ queue[i].id < nextId
      BY SMTT(30), <1>10, <1>13, <3>2
    <3>4. CASE j = n + 1
      BY <1>2, <1>10, <3>3, <3>4
    <3>5. CASE j # n + 1
      <4>1. j \in 1..n /\ q[j] = queue[j] BY SMTT(30), <1>10, <3>5
      <4>2. QED BY <1>13, <3>2, <3>3, <4>1
    <3>6. QED BY <3>4, <3>5
  <2>4. current # NoMessage => current.id < nextId + 1
    BY <1>1, <1>13, <1>14
  <2>5. QED BY <1>9, <1>10, <2>1, <2>2, <2>3, <2>4 DEF Numbered
<1>16. InStep(d)
  BY <1>9, <1>12, NowFields DEF InStep
<1>17. Wired(d, nextId')
  BY <1>4, <1>9, <1>12, <1>15, <1>16 DEF Wired
<1>18. Wired(a, nextId') /\ PassesOn(a, d)
  BY <1>11, <1>17, SameWireWired
<1> DEFINE e == Pump(a, throws)
<1>19. Wired(e, nextId') /\ PassesOn(e, a)
  BY <1>6, <1>18, PumpWired DEF IInv
<1>20. Become(e) BY <1>3
<1> HIDE DEF e
<1>21. /\ Wired(Now, nextId)' /\ disposed' = e.disposed /\ completed' = e.completed
       /\ PendingOf(Now)' = PendingOf(e)
  BY <1>19, <1>20, BecomeWired
<1>22. /\ PendingOf(Now) = (IF current = NoMessage THEN <<>> ELSE <<current>>) \o queue
       /\ PendingOf(Now)' = ((IF current = NoMessage THEN <<>> ELSE <<current>>) \o queue)'
  BY NowFields DEF PendingOf, Now
<1>23. PendingOf(d) = Append(PendingOf(Now), item)
  <2>1. PendingOf(d) = (IF current = NoMessage THEN <<>> ELSE <<current>>) \o Append(queue, item)
    BY <1>9 DEF PendingOf, q
  <2>2. queue \in Seq(Message) /\ current \in Message \cup {NoMessage} /\ item \in Message
    BY <1>2, <1>8
  <2>3. (IF current = NoMessage THEN <<>> ELSE <<current>>) \o Append(queue, item)
          = Append((IF current = NoMessage THEN <<>> ELSE <<current>>) \o queue, item)
    BY <2>2, PendingAppend, Zenon
  <2>4. QED BY <1>22, <2>1, <2>3, Zenon
<1>24. e.completed = completed
  BY <1>9, <1>18, <1>19 DEF PassesOn
<1>25. \/ ~e.disposed /\ PendingOf(e) = Append(PendingOf(Now), item)
       \/ e.disposed /\ PendingOf(e) = <<>>
  BY <1>5, <1>9, <1>18, <1>19, <1>23 DEF PassesOn
<1>26. CASE ~e.disposed /\ PendingOf(e) = Append(PendingOf(Now), item)
  <2>1. Pipe!Accept(item)
    BY <1>5, <1>21, <1>22, <1>24, <1>26 DEF Pipe!Accept
  <2>2. QED BY <1>2, <1>21, <2>1 DEF PipeStep, Pipe!Next
<1>27. CASE e.disposed /\ PendingOf(e) = <<>>
  <2>1. Pipe!Close
    BY <1>5, <1>21, <1>22, <1>24, <1>27 DEF Pipe!Close
  <2>2. QED BY <1>21, <2>1 DEF PipeStep, Pipe!Next
<1>28. QED BY <1>25, <1>26, <1>27

(* The first of one more than a queue, and the rest.                       *)
LEMMA HeadOfConcat ==
  ASSUME NEW S, NEW c \in S, NEW q \in Seq(S)
  PROVE  /\ <<c>> \o q # <<>> /\ Head(<<c>> \o q) = c
         /\ Tail(<<c>> \o q) = q /\ <<>> \o q = q
OBVIOUS

(* cancel() leaves the waiting messages of other streams in their order.   *)
LEMMA KeptNumbered ==
  ASSUME NEW d, NEW e, NEW tag, NEW at, NEW next, Numbered(d, next),
         KeptUpTo(at, e.queue, d.queue, Len(d.queue), tag),
         e.wire = d.wire, e.current = d.current
  PROVE  Numbered(e, next)
<1> DEFINE R == 1..Len(e.queue)
           Q == 1..Len(d.queue)
<1>1. /\ \A i \in R : at[i] \in Q
      /\ \A i, j \in R : i < j => at[i] < at[j]
      /\ \A i \in R : e.queue[i] = d.queue[at[i]]
  BY DEF KeptUpTo
<1>2. /\ \A i, j \in Q : i < j => d.queue[i].id < d.queue[j].id
      /\ \A i \in Q : OlderThan(d.wire, d.queue[i].id) /\ d.queue[i].id < next
      /\ \A i \in Q : d.current # NoMessage => d.current.id < d.queue[i].id
      /\ OlderThan(d.wire, next)
      /\ d.current # NoMessage => d.current.id < next
  BY DEF Numbered
<1> HIDE DEF R, Q
<1>3. \A i, j \in R : i < j => e.queue[i].id < e.queue[j].id
  BY <1>1, <1>2, Zenon
<1>4. \A i \in R :
        /\ OlderThan(e.wire, e.queue[i].id) /\ e.queue[i].id < next
        /\ e.current # NoMessage => e.current.id < e.queue[i].id
  <2>1. TAKE i \in R
  <2>2. at[i] \in Q /\ e.queue[i] = d.queue[at[i]] BY <1>1
  <2>3. /\ OlderThan(d.wire, d.queue[at[i]].id) /\ d.queue[at[i]].id < next
        /\ d.current # NoMessage => d.current.id < d.queue[at[i]].id
    BY <1>2, <2>2, Zenon
  <2>4. QED BY <2>2, <2>3, Zenon
<1>5. OlderThan(e.wire, next) /\ (e.current # NoMessage => e.current.id < next)
  BY <1>2, Zenon
<1>6. QED BY <1>3, <1>4, <1>5, Zenon DEF Numbered, R

(* The pipe loses exactly the waiting messages that carry the tag.         *)
LEMMA KeptWithdrawn ==
  ASSUME NEW c \in Message, NEW q \in Seq(Message), NEW r \in Seq(Message),
         NEW tag, NEW at, KeptUpTo(at, r, q, Len(q), tag)
  PROVE  LET p == <<c>> \o q
         IN  /\ p # <<>>
             /\ Pipe!LeavesOf(<<c>> \o r, p,
                              {1} \cup {i \in 1..Len(p) : p[i].tag # tag})
<1> DEFINE p == <<c>> \o q
           s == <<c>> \o r
           K == {1} \cup {i \in 1..Len(p) : p[i].tag # tag}
           to == [i \in 1..Len(r) + 1 |-> IF i = 1 THEN 1 ELSE at[i - 1] + 1]
<1>1. /\ at \in [1..Len(r) -> 1..Len(q)]
      /\ \A i, j \in 1..Len(r) : i < j => at[i] < at[j]
      /\ \A i \in 1..Len(r) : r[i] = q[at[i]]
      /\ \A k \in 1..Len(q) : q[k].tag # tag <=> \E i \in 1..Len(r) : at[i] = k
  BY DEF KeptUpTo
<1>2. Len(r) \in Nat /\ Len(q) \in Nat
  OBVIOUS
<1>3. /\ Len(p) = Len(q) + 1 /\ p[1] = c
      /\ \A i \in 1..Len(q) : p[i + 1] = q[i]
      /\ Len(s) = Len(r) + 1 /\ s[1] = c
      /\ \A i \in 1..Len(r) : s[i + 1] = r[i]
  OBVIOUS
<1>4. p # <<>>
  BY <1>2, <1>3
<1> HIDE DEF p, s
<1>5. /\ to[1] = 1
      /\ \A i \in 1..Len(r) : to[i + 1] = at[i] + 1 /\ i + 1 \in 1..Len(r) + 1
  BY <1>2
<1>6. ASSUME NEW i \in 1..Len(r) + 1, i # 1
      PROVE  i - 1 \in 1..Len(r) /\ (i - 1) + 1 = i /\ to[i] = at[i - 1] + 1
             /\ at[i - 1] \in 1..Len(q)
  <2>1. i - 1 \in 1..Len(r) /\ (i - 1) + 1 = i
    BY <1>2, <1>6
  <2>2. to[i] = at[i - 1] + 1
    BY <1>6
  <2>3. QED BY <1>1, <2>1, <2>2
<1>7. to \in [1..Len(s) -> K]
  <2>1. ASSUME NEW i \in 1..Len(r) + 1 PROVE (IF i = 1 THEN 1 ELSE at[i - 1] + 1) \in K
    <3>1. CASE i = 1 BY <3>1
    <3>2. CASE i # 1
      <4>1. q[at[i - 1]].tag # tag
        BY <1>1, <1>6, <3>2
      <4>2. p[at[i - 1] + 1].tag # tag /\ at[i - 1] + 1 \in 1..Len(p)
        BY SMTT(30), <1>2, <1>3, <1>6, <3>2, <4>1
      <4>3. QED BY <3>2, <4>2
    <3>3. QED BY <3>1, <3>2
  <2> HIDE DEF K
  <2>2. QED BY <1>3, <2>1
<1> HIDE DEF to
<1>8. \A i, j \in 1..Len(s) : i < j => to[i] < to[j]
  <2>1. SUFFICES ASSUME NEW i \in 1..Len(r) + 1, NEW j \in 1..Len(r) + 1, i < j
                 PROVE  to[i] < to[j]
    BY <1>3
  <2>2. j # 1 BY <1>2, <2>1
  <2>3. CASE i = 1
    BY <1>2, <1>5, <1>6, <2>2, <2>3
  <2>4. CASE i # 1
    <3>1. i - 1 < j - 1 BY <1>2, <2>1
    <3>2. at[i - 1] < at[j - 1] BY <1>1, <1>6, <2>2, <2>4, <3>1
    <3>3. QED BY <1>2, <1>6, <2>2, <2>4, <3>2
  <2>5. QED BY <2>3, <2>4
<1>9. \A k \in K : \E i \in 1..Len(s) : to[i] = k
  <2>1. TAKE k \in K
  <2>2. CASE k = 1
    BY <1>2, <1>3, <1>5, <2>2
  <2>3. CASE k # 1
    <3>1. k \in 1..Len(p) /\ p[k].tag # tag
      BY <2>3
    <3>2. k - 1 \in 1..Len(q) /\ (k - 1) + 1 = k
      BY <1>2, <1>3, <2>3, <3>1
    <3>3. q[k - 1].tag # tag
      BY <1>3, <3>1, <3>2
    <3>4. PICK i \in 1..Len(r) : at[i] = k - 1
      BY <1>1, <3>2, <3>3
    <3>5. to[i + 1] = k /\ i + 1 \in 1..Len(s)
      BY <1>3, <1>5, <3>2, <3>4
    <3>6. QED BY <3>5
  <2>4. QED BY <2>2, <2>3
<1>10. \A i \in 1..Len(s) : s[i] = p[to[i]]
  <2>1. SUFFICES ASSUME NEW i \in 1..Len(r) + 1 PROVE s[i] = p[to[i]]
    BY <1>3
  <2>2. CASE i = 1
    BY <1>3, <1>5, <2>2
  <2>3. CASE i # 1
    <3>1. s[i] = r[i - 1] /\ p[at[i - 1] + 1] = q[at[i - 1]]
      BY <1>3, <1>6, <2>3
    <3>2. QED BY <1>1, <1>6, <2>3, <3>1
  <2>4. QED BY <2>2, <2>3
<1>11. Pipe!LeavesOf(s, p, K)
  BY <1>7, <1>8, <1>9, <1>10 DEF Pipe!LeavesOf
<1>12. QED BY <1>4, <1>11 DEF p, s

(* cancel(): nothing of the message in flight is taken back.               *)
LEMMA CancelWired ==
  ASSUME SenderAssumption, IInv, Wired(Now, nextId), NEW tag \in Tag, Cancel(tag)
  PROVE  Wired(Now, nextId)' /\ PipeStep
<1> DEFINE scan == CancelScan(queue, tag)
           kept == scan.kept
           qb == queueBytes - scan.removedBytes
           acc == acceptedBytes - scan.removedBytes
           res == Released(reservedBytes, scan.removedBytes)
           d == [Now EXCEPT !.queue = kept, !.queueBytes = qb, !.acceptedBytes = acc,
                            !.reservedBytes = res]
           e == RefreshBusy(d)
<1>1. Become(e) /\ nextId' = nextId /\ ~disposed
  BY NowFields DEF Cancel
<1>2. /\ queue \in Seq(Message) /\ current \in Message \cup {NoMessage}
      /\ queue # <<>> => current # NoMessage
  BY NowSound, NowFields DEF Draft
<1>3. /\ kept \in Seq(Message)
      /\ queue = <<>> => kept = <<>>
  BY <1>2, CancelScanSplits, MessageSized
<1>4. PICK at : KeptUpTo(at, kept, queue, Len(queue), tag)
  BY <1>2, CancelScanKeeps, MessageSized
<1> HIDE DEF scan, kept, qb, acc, res
<1>5. /\ d.disposed = disposed /\ d.queue = kept /\ d.current = current
      /\ d.fragmentOffset = fragmentOffset /\ d.awaitingFlush = awaitingFlush
      /\ d.callbacks = callbacks /\ d.wire = wire /\ d.completed = completed
      /\ {"busy", "emitted", "disposed", "queue", "current", "fragmentOffset",
          "awaitingFlush", "callbacks", "wire", "completed"} \subseteq DOMAIN d
  BY DEF Now
<1> HIDE DEF d
<1>6. SameWire(e, d)
  BY <1>5, RefreshBusySameWire
<1>7. Wired(d, nextId)
  <2>1. Numbered(Now, nextId) /\ InStep(Now) /\ \A i \in 1..Len(wire) : FitsBefore(wire, i)
    BY <1>1, NowFields DEF Wired
  <2>2. Numbered(d, nextId)
    BY <1>2, <1>4, <1>5, <2>1, KeptNumbered, NowFields
  <2>3. InStep(d)
    BY <1>5, <2>1, NowFields DEF InStep
  <2>4. QED BY <1>5, <2>1, <2>2, <2>3 DEF Wired
<1> HIDE DEF e
<1>8. Wired(e, nextId') /\ PassesOn(e, d)
  BY <1>1, <1>6, <1>7, SameWireWired
<1>9. /\ Wired(Now, nextId)' /\ disposed' = disposed /\ completed' = completed
      /\ PendingOf(Now)' = PendingOf(d)
  <2>1. e.disposed = disposed /\ PendingOf(e) = PendingOf(d) /\ e.completed = completed
    BY <1>5, <1>6 DEF SameWire, PendingOf
  <2>2. QED BY <1>1, <1>8, <2>1, BecomeWired
<1>10. /\ PendingOf(Now) = (IF current = NoMessage THEN <<>> ELSE <<current>>) \o queue
       /\ PendingOf(Now)' = ((IF current = NoMessage THEN <<>> ELSE <<current>>) \o queue)'
       /\ PendingOf(d) = (IF current = NoMessage THEN <<>> ELSE <<current>>) \o kept
  BY <1>5, NowFields DEF PendingOf, Now
<1>11. CASE current = NoMessage
  <2>1. kept = queue
    BY <1>2, <1>3, <1>11
  <2>2. QED BY <1>9, <1>10, <2>1 DEF PipeStep, Pipe!pipeVars
<1>12. CASE current # NoMessage
  <2>1. PendingOf(Now) = <<current>> \o queue /\ PendingOf(d) = <<current>> \o kept
    BY <1>10, <1>12
  <2>2. current \in Message
    BY <1>2, <1>12
  <2> DEFINE p == PendingOf(Now)
  <2>3. p # <<>> /\ Pipe!LeavesOf(PendingOf(d), p,
                                  {1} \cup {i \in 1..Len(p) : p[i].tag # tag})
    BY <1>2, <1>3, <1>4, <2>1, <2>2, KeptWithdrawn
  <2>4. Pipe!Withdraw(tag)
    BY <1>1, <1>9, <1>10, <2>3 DEF Pipe!Withdraw
  <2>5. QED BY <1>9, <2>4 DEF PipeStep, Pipe!Next
<1>13. QED BY <1>9, <1>11, <1>12

(* dispose(), a failed write and a callback nobody waits for.              *)
LEMMA DisposeWired ==
  ASSUME SenderAssumption, IInv, Wired(Now, nextId), Dispose
  PROVE  Wired(Now, nextId)' /\ PipeStep
<1>1. Now \in Draft
  BY NowSound
<1>2. Wired(Disposed(Now), nextId) /\ PassesOn(Disposed(Now), Now)
  BY <1>1, DisposedWired
<1>3. Become(Disposed(Now)) /\ nextId' = nextId /\ ~disposed
  BY DEF Dispose
<1> DEFINE e == Disposed(Now)
<1>4. Become(e) /\ Wired(e, nextId') /\ PassesOn(e, Now)
  BY <1>2, <1>3
<1> HIDE DEF e
<1>5. QED BY <1>3, <1>4, BecomeWired, PassingStep

LEMMA LateFlushWired ==
  ASSUME SenderAssumption, IInv, Wired(Now, nextId), LateFlush
  PROVE  Wired(Now, nextId)' /\ PipeStep
<1> DEFINE cbs == Tail(callbacks)
           d == [Now EXCEPT !.callbacks = cbs]
<1>1. Become(d) /\ nextId' = nextId /\ callbacks # <<>> /\ ~Identified(Head(callbacks))
  BY NowFields DEF LateFlush
<1>2. callbacks \in Seq(Callback)
  BY NowSound, NowFields DEF Draft
<1>3. disposed
  <2>1. SUFFICES ASSUME ~disposed PROVE FALSE
    OBVIOUS
  <2>2. awaitingFlush /\ callbacks[1].message = current
    BY <1>1, <2>1, NowSound, NowFields DEF Sound, Outstanding
  <2>3. Head(callbacks) = callbacks[1]
    BY <1>1, <1>2
  <2>4. QED BY <1>1, <2>1, <2>2, <2>3 DEF Identified
<1> HIDE DEF cbs
<1>4. /\ d.disposed = disposed /\ d.wire = wire /\ d.queue = queue
      /\ d.current = current /\ d.completed = completed
  BY DEF Now
<1> HIDE DEF d
<1>5. Wired(d, nextId')
  BY <1>3, <1>4, NowFields DEF Wired
<1>6. /\ Wired(Now, nextId)' /\ disposed' = disposed /\ completed' = completed
      /\ PendingOf(Now)' = PendingOf(Now)
  BY <1>1, <1>4, <1>5, BecomeWired, NowFields DEF PendingOf
<1>7. /\ PendingOf(Now) = (IF current = NoMessage THEN <<>> ELSE <<current>>) \o queue
      /\ PendingOf(Now)' = ((IF current = NoMessage THEN <<>> ELSE <<current>>) \o queue)'
  BY NowFields DEF PendingOf, Now
<1>8. QED BY <1>6, <1>7 DEF PipeStep, Pipe!pipeVars

LEMMA FlushFailedWired ==
  ASSUME SenderAssumption, IInv, Wired(Now, nextId), FlushFailed
  PROVE  Wired(Now, nextId)' /\ PipeStep
<1>1. /\ callbacks # <<>> /\ Identified(Head(callbacks)) /\ Become(Fail(Flushed))
      /\ nextId' = nextId /\ ~disposed
  BY DEF FlushFailed, Identified
<1> DEFINE d == Flushed
           e == Fail(d)
<1>2. /\ d \in Draft /\ d.wire = wire /\ d.completed = completed
  BY <1>1, FlushedDraft
<1>3. e.disposed /\ e.completed = d.completed /\ e.wire = d.wire /\ PendingOf(e) = <<>>
  BY <1>2, DisposedFields
<1>4. Become(e) BY <1>1
<1> HIDE DEF d, e
<1>5. Wired(e, nextId') /\ PassesOn(e, Now)
  BY <1>2, <1>3, NowFields DEF Wired, PassesOn
<1>6. QED BY <1>1, <1>4, <1>5, BecomeWired, PassingStep

(* A fragment that is not the last leaves the wire inside its message.     *)
LEMMA FlushPartWired ==
  ASSUME SenderAssumption, IInv, Wired(Now, nextId), FlushPart
  PROVE  Wired(Now, nextId)' /\ PipeStep
<1> DEFINE moved == fragmentOffset + Head(callbacks).bytes
           signals == <<"progress">>
           d == [Flushed EXCEPT !.emitted = signals, !.fragmentOffset = moved]
<1>1. /\ callbacks # <<>> /\ Identified(Head(callbacks)) /\ ~Head(callbacks).isLast
      /\ nextId' = nextId /\ ~disposed
  BY DEF FlushPart, Identified
<1>2. PICK throws \in BOOLEAN : Become(Pump(d, throws))
  BY <1>1, FlushedDraft DEF FlushPart
<1>3. Sound(d) /\ BusyFresh(d)
  BY <1>1, FlushPartSound
<1>4. /\ Flushed \in Draft
      /\ Flushed.disposed = FALSE /\ Flushed.queue = queue /\ Flushed.current = current
      /\ Flushed.awaitingFlush = FALSE /\ Flushed.wire = wire
      /\ Flushed.completed = completed
  BY <1>1, FlushedDraft
<1>5. /\ awaitingFlush /\ Head(callbacks) = callbacks[1] /\ Head(callbacks) \in Callback
      /\ current \in Message
  <2>1. callbacks \in Seq(Callback)
    BY NowSound, NowFields DEF Draft
  <2>2. QED BY <1>1, <2>1, IdentifiedCallback
<1>6. EndsInside(wire, current, moved, FALSE)
  <2>1. InStep(Now)
    BY <1>1, NowFields DEF Wired
  <2>2. EndsInside(wire, current, fragmentOffset + callbacks[1].bytes, callbacks[1].isLast)
    BY <1>5, <2>1, NowFields DEF InStep
  <2>3. callbacks[1].isLast = FALSE
    BY <1>1, <1>5 DEF Callback
  <2>4. QED BY <1>5, <2>2, <2>3
<1> HIDE DEF moved, signals
<1>7. /\ d.disposed = FALSE /\ d.queue = queue /\ d.current = current
      /\ d.fragmentOffset = moved /\ d.awaitingFlush = FALSE /\ d.wire = wire
      /\ d.completed = completed
  BY <1>4 DEF Draft
<1> HIDE DEF d
<1>8. Wired(d, nextId') /\ PassesOn(d, Now)
  <2>1. Numbered(Now, nextId) /\ \A i \in 1..Len(wire) : FitsBefore(wire, i)
    BY <1>1, NowFields DEF Wired
  <2>2. Numbered(d, nextId)
    BY <1>7, <2>1, NowFields DEF Numbered
  <2>3. InStep(d)
    <3>1. d.current # NoMessage
      BY <1>5, <1>7 DEF SenderAssumption
    <3>2. QED BY <1>6, <1>7, <3>1 DEF InStep
  <2>4. PassesOn(d, Now)
    BY <1>1, <1>7, NowFields, NowSound DEF PassesOn, PendingOf, Draft
  <2>5. QED BY <1>1, <1>7, <2>1, <2>2, <2>3, <2>4 DEF Wired
<1> DEFINE e == Pump(d, throws)
<1>9. Wired(e, nextId') /\ PassesOn(e, d)
  BY <1>3, <1>8, PumpWired DEF IInv
<1>10. Become(e) BY <1>2
<1> HIDE DEF e
<1>11. PassesOn(e, Now)
  BY <1>8, <1>9 DEF PassesOn
<1>12. QED BY <1>1, <1>9, <1>10, <1>11, BecomeWired, PassingStep

(* A last fragment leaves the wire between two messages and delivers the   *)
(* oldest one.                                                             *)
LEMMA FlushLastWired ==
  ASSUME SenderAssumption, IInv, Wired(Now, nextId), FlushLast
  PROVE  Wired(Now, nextId)' /\ PipeStep
<1> DEFINE size == current.size
           acc == acceptedBytes - size
           res == Released(reservedBytes, size)
           signals == <<"progress">>
           done == Append(completed, current)
           d == [Flushed EXCEPT !.emitted = signals, !.current = NoMessage,
                     !.fragmentOffset = 0, !.acceptedBytes = acc,
                     !.reservedBytes = res, !.completed = done]
           a == Finished(current)
<1>1. /\ callbacks # <<>> /\ Identified(Head(callbacks)) /\ Head(callbacks).isLast
      /\ nextId' = nextId /\ ~disposed
  BY DEF FlushLast, Identified
<1>2. Head(callbacks).message = current
  BY <1>1, IdentifiedCallback
<1>3. PICK throws \in BOOLEAN : Become(Pump(a, throws))
  BY <1>2 DEF FlushLast
<1>4. Sound(a) /\ BusyFresh(a)
  BY <1>1, FinishedSound
<1>5. a = RefreshBusy(d)
  BY <1>1, FlushedDraft DEF Finished
<1>6. /\ Flushed \in Draft
      /\ Flushed.disposed = FALSE /\ Flushed.queue = queue
      /\ Flushed.awaitingFlush = FALSE /\ Flushed.wire = wire
  BY <1>1, FlushedDraft
<1>7. /\ awaitingFlush /\ Head(callbacks) = callbacks[1]
      /\ current \in Message /\ queue \in Seq(Message)
  <2>1. callbacks \in Seq(Callback) /\ queue \in Seq(Message)
    BY NowSound, NowFields DEF Draft
  <2>2. QED BY <1>1, <2>1, IdentifiedCallback
<1>8. BetweenMessages(wire)
  <2>1. InStep(Now)
    BY <1>1, NowFields DEF Wired
  <2>2. EndsInside(wire, current, fragmentOffset + callbacks[1].bytes, callbacks[1].isLast)
    BY <1>7, <2>1, NowFields DEF InStep
  <2>3. callbacks[1].isLast
    BY <1>1, <1>7
  <2>4. QED BY <2>2, <2>3 DEF EndsInside, BetweenMessages
<1> HIDE DEF size, acc, res, signals, done
<1>9. /\ d.disposed = FALSE /\ d.queue = queue /\ d.current = NoMessage
      /\ d.fragmentOffset = 0 /\ d.awaitingFlush = FALSE /\ d.wire = wire
      /\ d.completed = done
      /\ {"busy", "emitted", "disposed", "queue", "current", "fragmentOffset",
          "awaitingFlush", "callbacks", "wire", "completed"} \subseteq DOMAIN d
  BY <1>6 DEF Draft
<1> HIDE DEF d, a
<1>10. SameWire(a, d)
  BY <1>5, <1>9, RefreshBusySameWire
<1>11. Wired(d, nextId')
  <2>1. Numbered(Now, nextId) /\ \A i \in 1..Len(wire) : FitsBefore(wire, i)
    BY <1>1, NowFields DEF Wired
  <2>2. Numbered(d, nextId)
    BY <1>9, <2>1, NowFields DEF Numbered
  <2>3. InStep(d)
    BY <1>8, <1>9 DEF InStep
  <2>4. QED BY <1>1, <1>9, <2>1, <2>2, <2>3 DEF Wired
<1> DEFINE e == Pump(a, throws)
<1>12. Wired(a, nextId') /\ PassesOn(a, d)
  BY <1>10, <1>11, SameWireWired
<1>13. Wired(e, nextId') /\ PassesOn(e, a)
  BY <1>4, <1>12, PumpWired DEF IInv
<1>14. Become(e) BY <1>3
<1> HIDE DEF e
<1>15. /\ Wired(Now, nextId)' /\ disposed' = e.disposed /\ completed' = e.completed
       /\ PendingOf(Now)' = PendingOf(e)
  BY <1>13, <1>14, BecomeWired
<1>16. /\ PendingOf(Now) = (IF current = NoMessage THEN <<>> ELSE <<current>>) \o queue
       /\ PendingOf(Now)' = ((IF current = NoMessage THEN <<>> ELSE <<current>>) \o queue)'
  BY NowFields DEF PendingOf, Now
<1>17. /\ PendingOf(Now) # <<>> /\ Head(PendingOf(Now)) = current
       /\ Tail(PendingOf(Now)) = queue /\ PendingOf(d) = queue
  <2>1. current # NoMessage
    BY <1>7 DEF SenderAssumption
  <2>2. PendingOf(Now) = <<current>> \o queue /\ PendingOf(d) = <<>> \o queue
    BY <1>9, <1>16, <2>1 DEF PendingOf
  <2>3. QED BY <1>7, <2>2, HeadOfConcat
<1>18. e.completed = Append(completed, Head(PendingOf(Now)))
  BY <1>9, <1>12, <1>13, <1>17 DEF PassesOn, done
<1>19. \/ ~e.disposed /\ PendingOf(e) = Tail(PendingOf(Now))
       \/ e.disposed /\ PendingOf(e) = <<>>
  BY <1>9, <1>12, <1>13, <1>17 DEF PassesOn
<1>20. CASE ~e.disposed /\ PendingOf(e) = Tail(PendingOf(Now))
  <2>1. Pipe!Deliver
    BY <1>1, <1>15, <1>16, <1>17, <1>18, <1>20 DEF Pipe!Deliver
  <2>2. QED BY <1>15, <2>1 DEF PipeStep, Pipe!Next
<1>21. CASE e.disposed /\ PendingOf(e) = <<>>
  <2>1. Pipe!Close
    BY <1>1, <1>15, <1>16, <1>17, <1>18, <1>21 DEF Pipe!Close
  <2>2. QED BY <1>15, <2>1 DEF PipeStep, Pipe!Next
<1>22. QED BY <1>19, <1>20, <1>21

(* A poll that finds the socket drained hands pump() the message it was    *)
(* about to submit.                                                        *)
LEMMA DrainGoSound ==
  ASSUME SenderAssumption, IInv, draining, NEW signals \in Seq(Signal)
  PROVE  LET d == [[Now EXCEPT !.draining = FALSE, !.drainLastBuffered = buffered,
                               !.emitted = signals]
                     EXCEPT !.drainLastBuffered = NoLevel]
         IN  Sound(d) /\ BusyFresh(d) /\ SameWire(d, Now)
<1> DEFINE d0 == [Now EXCEPT !.draining = FALSE, !.drainLastBuffered = buffered,
                             !.emitted = signals]
           d == [d0 EXCEPT !.drainLastBuffered = NoLevel]
<1>1. Sound(Now) /\ Now \in Draft /\ BusyFresh(Now)
  BY NowSound
<1>2. d0 = [Now EXCEPT !.draining = FALSE, !.drainLastBuffered = buffered,
                       !.emitted = signals]
  OBVIOUS
<1> HIDE DEF d0
<1>3. /\ d0 \in Draft /\ d0.draining = FALSE /\ d0.busy = Now.busy
      /\ d0.queueBytes = Now.queueBytes /\ d0.acceptedBytes = Now.acceptedBytes
      /\ d0.reservedBytes = Now.reservedBytes /\ SameWire(d0, Now)
  BY <1>1, <1>2 DEF Draft, SameWire, IInv, Env
<1>4. /\ d \in Draft /\ d.draining = FALSE /\ d.busy = Now.busy
      /\ d.queueBytes = Now.queueBytes /\ d.acceptedBytes = Now.acceptedBytes
      /\ d.reservedBytes = Now.reservedBytes /\ SameWire(d, Now)
  BY <1>3 DEF Draft, SameWire
<1> HIDE DEF d
<1>5. Counted(d) /\ Roomy(d) /\ BusyFresh(d)
  BY <1>1, <1>4 DEF Sound, Counted, Roomy, BusyFresh, SameWire
<1>6. ~awaitingFlush
  BY <1>1, NowFields DEF Sound, Outstanding
<1>7. Outstanding(d)
  BY <1>1, <1>4, <1>6, NowFields DEF Sound, Outstanding, SameWire
<1>8. QED BY <1>4, <1>5, <1>7 DEF Sound, d, d0

(* The poll does not touch the wire before pump() does.                    *)
LEMMA DrainPollWired ==
  ASSUME SenderAssumption, IInv, Wired(Now, nextId), DrainPoll
  PROVE  Wired(Now, nextId)' /\ PipeStep
<1> DEFINE fell == drainLastBuffered # NoLevel /\ buffered < drainLastBuffered
           signals == IF fell THEN <<"progress">> ELSE <<>>
           d == [Now EXCEPT !.draining = FALSE, !.drainLastBuffered = buffered,
                            !.emitted = signals]
           dFail == [Now EXCEPT !.draining = FALSE]
           dStay == [d EXCEPT !.draining = TRUE]
           dGo == [d EXCEPT !.drainLastBuffered = NoLevel]
<1>1. /\ draining /\ nextId' = nextId
      /\ \/ Become(Fail(dFail))
         \/ Become(dStay)
         \/ \E throws \in BOOLEAN : Become(Pump(dGo, throws))
  BY DEF DrainPoll
<1>2. Now \in Draft /\ ~disposed
  BY <1>1, NowSound, NowFields DEF Sound, Outstanding
<1>3. signals \in Seq(Signal)
  <2>1. <<"progress">> \in Seq(Signal) /\ <<>> \in Seq(Signal)
    BY DEF Signal
  <2> HIDE DEF fell
  <2>2. QED BY <2>1
<1> HIDE DEF signals
<1>4. CASE Become(Fail(dFail))
  <2>1. dFail \in Draft /\ SameWire(dFail, Now)
    BY <1>2 DEF Draft, SameWire
  <2> HIDE DEF dFail
  <2>2. Wired(dFail, nextId') /\ PassesOn(dFail, Now)
    BY <1>1, <2>1, SameWireWired
  <2>3. Wired(Fail(dFail), nextId') /\ PassesOn(Fail(dFail), dFail)
    BY <2>1, <2>2, DisposedWired
  <2>4. PassesOn(Fail(dFail), Now)
    BY <2>2, <2>3 DEF PassesOn
  <2>5. QED BY <1>2, <1>4, <2>3, <2>4, BecomeWired, PassingStep
<1>5. CASE Become(dStay)
  <2>1. SameWire(dStay, Now)
    BY <1>2 DEF Draft, SameWire
  <2> HIDE DEF dStay
  <2>2. Wired(dStay, nextId') /\ PassesOn(dStay, Now)
    BY <1>1, <2>1, SameWireWired
  <2>3. QED BY <1>2, <1>5, <2>2, BecomeWired, PassingStep
<1>6. CASE \E throws \in BOOLEAN : Become(Pump(dGo, throws))
  <2>1. PICK throws \in BOOLEAN : Become(Pump(dGo, throws))
    BY <1>6
  <2>2. Sound(dGo) /\ BusyFresh(dGo) /\ SameWire(dGo, Now)
    BY <1>1, <1>3, DrainGoSound
  <2> HIDE DEF dGo
  <2>3. Wired(dGo, nextId') /\ PassesOn(dGo, Now)
    BY <1>1, <2>2, SameWireWired
  <2>4. Wired(Pump(dGo, throws), nextId') /\ PassesOn(Pump(dGo, throws), dGo)
    BY <2>2, <2>3, PumpWired DEF IInv
  <2>5. PassesOn(Pump(dGo, throws), Now)
    BY <2>3, <2>4 DEF PassesOn
  <2>6. QED BY <1>2, <2>1, <2>4, <2>5, BecomeWired, PassingStep
<1>7. QED BY <1>1, <1>4, <1>5, <1>6

(* The socket and the other senders write nothing here.                    *)
LEMMA OutsideWired ==
  ASSUME Wired(Now, nextId),
         \/ (\E level \in Level : SocketLevel(level)) \/ SocketLeavesOpen
         \/ \E bytes \in Size : OthersReserve(bytes) \/ OthersRelease(bytes)
         \/ UNCHANGED vars
  PROVE  Wired(Now, nextId)' /\ PipeStep
<1>1. UNCHANGED <<disposed, queue, current, fragmentOffset, awaitingFlush,
                  callbacks, wire, completed, nextId>>
  BY DEF SocketLevel, SocketLeavesOpen, OthersReserve, OthersRelease, senderVars, vars
<1> DEFINE n == Now'
<1>2. SameWire(n, Now)
  BY <1>1 DEF Now, SameWire
<1>3. Wired(n, nextId)
  <2> HIDE DEF n
  <2>1. QED BY <1>2, SameWireWired
<1>4. PipeStep
  BY <1>1 DEF PipeStep, Pipe!pipeVars
<1>5. QED BY <1>1, <1>3, <1>4 DEF Wired, Numbered, InStep

(* Every step keeps the sender in step with the wire and is a step of the  *)
(* abstract pipe.                                                          *)
LEMMA NextWired ==
  ASSUME IInv, Wired(Now, nextId), [Next]_vars
  PROVE  Wired(Now, nextId)' /\ PipeStep
<1>1. CASE \E tag \in Tag, size \in Size : Enqueue(tag, size)
  BY <1>1, EnqueueWired, SenderAssumption
<1>2. CASE \E tag \in Tag : Cancel(tag)
  BY <1>2, CancelWired, SenderAssumption
<1>3. CASE Dispose
  BY <1>3, DisposeWired, SenderAssumption
<1>4. CASE LateFlush
  BY <1>4, LateFlushWired, SenderAssumption
<1>5. CASE FlushFailed
  BY <1>5, FlushFailedWired, SenderAssumption
<1>6. CASE FlushPart
  BY <1>6, FlushPartWired, SenderAssumption
<1>7. CASE FlushLast
  BY <1>7, FlushLastWired, SenderAssumption
<1>8. CASE DrainPoll
  BY <1>8, DrainPollWired, SenderAssumption
<1>9. CASE \/ (\E level \in Level : SocketLevel(level)) \/ SocketLeavesOpen
           \/ \E bytes \in Size : OthersReserve(bytes) \/ OthersRelease(bytes)
           \/ UNCHANGED vars
  BY <1>9, OutsideWired
<1>10. QED
  BY <1>1, <1>2, <1>3, <1>4, <1>5, <1>6, <1>7, <1>8, <1>9 DEF Next

(* Nothing has been written when the sender is built.                      *)
LEMMA InitWired ==
  ASSUME Init
  PROVE  Wired(Now, nextId)
<1>1. wire = <<>> /\ queue = <<>> /\ current = NoMessage /\ awaitingFlush = FALSE
      /\ Len(<<>>) = 0
  BY DEF Init
<1>2. Numbered(Now, nextId)
  BY <1>1, NowFields DEF Numbered, OlderThan
<1>3. InStep(Now)
  BY <1>1, NowFields DEF InStep, BetweenMessages
<1>4. QED BY <1>1, <1>2, <1>3, NowFields DEF Wired

(* The sender is in step with its wire in every reachable state.           *)
THEOREM WireInvariance == Spec => []Wired(Now, nextId)
<1>1. Init => Wired(Now, nextId)
  BY InitWired
<1>2. IInv /\ Wired(Now, nextId) /\ [Next]_vars => Wired(Now, nextId)'
  BY NextWired
<1>3. QED BY <1>1, <1>2, Invariance, PTL DEF Spec

(* One message of a caller is one message on the wire: contiguous, whole   *)
(* but for a disposal, never mixed with another, in the order accepted.    *)
THEOREM WireIsWellFormed == Spec => []WireWellFormed
<1>1. Wired(Now, nextId) => WireWellFormed
  BY NowFields DEF Wired, FitsBefore, WireWellFormed
<1>2. QED BY <1>1, WireInvariance, PTL

(* The sender implements the abstract pipe: every handler is one step of   *)
(* it, or none.                                                            *)
THEOREM ImplementsPipe == Spec => PipeSpec
<1>1. Init => Pipe!Init
  <2>1. SUFFICES ASSUME Init PROVE Pipe!Init
    OBVIOUS
  <2>2. disposed = FALSE /\ current = NoMessage /\ queue = <<>> /\ completed = <<>>
    BY <2>1 DEF Init
  <2>3. <<>> \o <<>> = <<>>
    OBVIOUS
  <2>4. QED BY <2>2, <2>3 DEF Pipe!Init
<1>2. IInv /\ Wired(Now, nextId) /\ [Next]_vars => [Pipe!Next]_(Pipe!pipeVars)
  BY NextWired DEF PipeStep
<1>3. QED
  BY <1>1, <1>2, Invariance, WireInvariance, PTL DEF Spec, PipeSpec, Pipe!Spec
==============================================================================
