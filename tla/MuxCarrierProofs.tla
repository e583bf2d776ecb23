-------------------------- MODULE MuxCarrierProofs ---------------------------
(***************************************************************************)
(* The carrier never loses a stream: proofs about MuxCarrier for every     *)
(* number of streams and every limit, for a browser that gives each stream *)
(* an id of its own.                                                       *)
(***************************************************************************)
EXTENDS MuxCarrier, WellFoundedInduction, TLAPS

------------------------------------------------------------------------------
(* Loops.                                                                  *)

(* Induction over the natural numbers, stated for sets.                    *)
LEMMA NatSetInduction ==
  ASSUME NEW S, S \subseteq Nat, 0 \in S, \A n \in S : n + 1 \in S
  PROVE  S = Nat
<1> DEFINE Lt == {p \in Nat \X Nat : p[1] < p[2]}
           B == Nat \ S
<1>1. Lt = OpToRel(<, Nat)
  BY DEF OpToRel
<1>2. IsWellFoundedOn(Lt, Nat)
  BY <1>1, NatLessThanWellFounded
<1>3. SUFFICES ASSUME B # {} PROVE FALSE
  OBVIOUS
<1>4. B \subseteq Nat OBVIOUS
<1> HIDE DEF Lt, B
<1>5. PICK x \in B : \A y \in B : ~(<<y, x>> \in Lt)
  BY <1>2, <1>3, <1>4, WFMin
<1>6. x \in Nat /\ x # 0 /\ x \notin S
  BY DEF B
<1>7. x - 1 \in Nat /\ x - 1 \notin S
  BY <1>6
<1>8. x - 1 \in B /\ <<x - 1, x>> \in Lt
  BY <1>6, <1>7 DEF B, Lt
<1>9. QED BY <1>5, <1>8

(* What holds at the start of a loop and is kept by each turn holds after  *)
(* all of them.                                                            *)
LEMMA LoopInvariance ==
  ASSUME NEW N \in Nat, NEW T, 0 \in T, \A n \in 1..N : n - 1 \in T => n \in T
  PROVE  \A n \in 0..N : n \in T
<1> DEFINE S == {n \in Nat : n <= N => n \in T}
<1>1. 0 \in S
  OBVIOUS
<1>2. ASSUME NEW n \in S PROVE n + 1 \in S
  <2>1. CASE n + 1 <= N
    <3>1. n + 1 \in 1..N /\ (n + 1) - 1 = n /\ n \in T
      BY <2>1
    <3>2. QED BY <3>1
  <2>2. CASE ~(n + 1 <= N)
    BY <2>2
  <2>3. QED BY <2>1, <2>2
<1>3. S = Nat
  <2> HIDE DEF S
  <2>1. S \subseteq Nat BY DEF S
  <2>2. QED BY <1>1, <1>2, <2>1, NatSetInduction
<1>4. QED BY <1>3

(* f is the run of the loop that starts with b and turns by F.             *)
IsRun(f, b, N, F) ==
  f = [n \in 0..N |-> IF n = 0 THEN b ELSE F[<<f[n - 1], n>>]]

(* A loop whose turns stay in a set has a run.                             *)
LEMMA LoopExists ==
  ASSUME NEW S, NEW b \in S, NEW N \in Nat, NEW F \in [S \X (1..N) -> S]
  PROVE  \E f \in [0..N -> S] : IsRun(f, b, N, F)
<1> DEFINE Runs(f, m) == /\ f \in [0..m -> S] /\ f[0] = b
                         /\ \A n \in 1..m : f[n] = F[<<f[n - 1], n>>]
           T == {m \in 0..N : \E f : Runs(f, m)}
<1>1. 0 \in T
  <2>1. Runs([n \in 0..0 |-> b], 0)
    OBVIOUS
  <2> HIDE DEF Runs
  <2>2. QED BY <2>1
<1>2. ASSUME NEW m \in 1..N, m - 1 \in T PROVE m \in T
  <2>1. PICK f : Runs(f, m - 1)
    BY <1>2, Zenon
  <2> DEFINE g == [n \in 0..m |-> IF n = m THEN F[<<f[m - 1], m>>] ELSE f[n]]
  <2>2. F[<<f[m - 1], m>>] \in S
    BY <2>1
  <2>3. g \in [0..m -> S] /\ g[0] = b
    BY <2>1, <2>2
  <2>4. ASSUME NEW n \in 1..m PROVE g[n] = F[<<g[n - 1], n>>]
    <3>1. g[n - 1] = f[n - 1]
      OBVIOUS
    <3>2. CASE n = m
      <4>1. g[m] = F[<<f[m - 1], m>>]
        OBVIOUS
      <4>2. QED BY <3>1, <3>2, <4>1, Zenon
    <3>3. CASE n # m
      <4>1. n \in 1..m - 1
        <5> HIDE DEF g, Runs, T
        <5>1. QED BY <3>3
      <4>2. f[n] = F[<<f[n - 1], n>>] BY <2>1, <4>1, Zenon
      <4>3. g[n] = f[n] BY <3>3
      <4>4. QED BY <3>1, <4>2, <4>3, Zenon
    <3>4. QED BY <3>2, <3>3
  <2>5. Runs(g, m) BY <2>3, <2>4
  <2> HIDE DEF Runs, g
  <2>6. QED BY <2>5
<1>3. \A m \in 0..N : m \in T
  <2> HIDE DEF T
  <2>1. QED BY <1>1, <1>2, LoopInvariance
<1>4. PICK f : Runs(f, N)
  BY <1>3
<1>5. f = [n \in 0..N |-> IF n = 0 THEN b ELSE F[<<f[n - 1], n>>]]
  <2>1. \A n \in 0..N : f[n] = IF n = 0 THEN b ELSE F[<<f[n - 1], n>>]
    BY <1>4
  <2>2. QED BY <1>4, <2>1
<1>6. QED BY <1>4, <1>5 DEF IsRun

------------------------------------------------------------------------------
(* Sequences.  at names the positions K of q in order, and r holds what is *)
(* there.                                                                  *)
Lists(at, r, q, K) ==
  /\ at \in [1..Len(r) -> K]
  /\ \A i, j \in 1..Len(r) : i < j => at[i] < at[j]
  /\ \A i \in 1..Len(r) : r[i] = q[at[i]]
  /\ \A k \in K : \E i \in 1..Len(r) : at[i] = k

LEMMA ListsMore ==
  ASSUME NEW M, NEW r \in Seq(M), NEW q, NEW n \in Nat, NEW K \in SUBSET (1..n),
         q[n + 1] \in M, NEW at, Lists(at, r, q, K)
  PROVE  \E to : Lists(to, Append(r, q[n + 1]), q, K \cup {n + 1})
<1> DEFINE m == Len(r)
           new == Append(r, q[n + 1])
           to == [i \in 1..m + 1 |-> IF i <= m THEN at[i] ELSE n + 1]
<1>1. /\ at \in [1..m -> K]
      /\ \A i, j \in 1..m : i < j => at[i] < at[j]
      /\ \A i \in 1..m : r[i] = q[at[i]]
      /\ \A k \in K : \E i \in 1..m : at[i] = k
  BY DEF Lists
<1>2. m \in Nat /\ Len(new) = m + 1 /\ new[m + 1] = q[n + 1]
      /\ \A i \in 1..m : new[i] = r[i]
  OBVIOUS
<1> HIDE DEF m, new
<1>3. to[m + 1] = n + 1 /\ \A i \in 1..m : to[i] = at[i] /\ i \in 1..m + 1
  BY <1>2
<1>4. to \in [1..m + 1 -> K \cup {n + 1}]
  BY <1>1, <1>2
<1> HIDE DEF to
<1>5. \A i, j \in 1..m + 1 : i < j => to[i] < to[j]
  <2>1. TAKE i, j \in 1..m + 1
  <2>2. HAVE i < j
  <2>3. i \in 1..m /\ at[i] \in 1..n
    <3>1. i \in 1..m BY <1>2, <2>2
    <3>2. at[i] \in K BY <1>1, <3>1
    <3>3. QED BY <3>1, <3>2
  <2>4. CASE j = m + 1
    <3>1. to[j] = n + 1 /\ to[i] = at[i] BY <1>3, <2>3, <2>4
    <3>2. QED BY <2>3, <3>1
  <2>5. CASE j # m + 1
    <3>1. j \in 1..m BY <1>2, <2>5
    <3>2. QED BY <1>1, <1>3, <2>2, <2>3, <3>1
  <2>6. QED BY <2>4, <2>5
<1>6. \A i \in 1..m + 1 : new[i] = q[to[i]]
  BY <1>1, <1>2, <1>3
<1>7. \A k \in K \cup {n + 1} : \E i \in 1..m + 1 : to[i] = k
  <2>1. TAKE k \in K \cup {n + 1}
  <2>2. CASE k = n + 1
    <3>1. m + 1 \in 1..m + 1 BY <1>2
    <3>2. QED BY <1>3, <2>2, <3>1
  <2>3. CASE k \in K
    BY <1>1, <1>3, <2>3
  <2>4. QED BY <2>2, <2>3
<1>8. Lists(to, new, q, K \cup {n + 1})
  BY <1>2, <1>4, <1>5, <1>6, <1>7 DEF Lists
<1>9. QED BY <1>8 DEF new

(* What cancel(s) leaves of a queue.                                       *)
Staying(q, n, s) == {k \in 1..n : k = 1 \/ ~(q[k].tagged /\ q[k].stream = s)}

LEMMA UnsentStep ==
  ASSUME NEW M, NEW q \in Seq(M), NEW s
  PROVE  LET u == Unsent(q, s)
         IN  /\ u \in [0..Len(q) -> Seq(M)] /\ u[0] = <<>>
             /\ \A n \in 1..Len(q) :
                  u[n] = IF n > 1 /\ q[n].tagged /\ q[n].stream = s THEN u[n - 1]
                         ELSE Append(u[n - 1], q[n])
<1> DEFINE N == Len(q)
           Turn(p, n) == IF n > 1 /\ q[n].tagged /\ q[n].stream = s THEN p
                         ELSE Append(p, q[n])
           F == [x \in Seq(M) \X (1..N) |-> Turn(x[1], x[2])]
           u == Unsent(q, s)
           Body(f) == [n \in 0..N |-> IF n = 0 THEN <<>> ELSE Turn(f[n - 1], n)]
<1>1. N \in Nat /\ \A n \in 1..N : q[n] \in M
  OBVIOUS
<1>2. u = CHOOSE f : f = Body(f)
  BY DEF Unsent
<1>3. <<>> \in Seq(M)
  OBVIOUS
<1>4. \A p \in Seq(M), n \in 1..N : Turn(p, n) \in Seq(M)
  BY <1>1
<1> HIDE DEF N, Turn
<1>5. F \in [Seq(M) \X (1..N) -> Seq(M)]
  BY <1>4
<1>6. \A p \in Seq(M), n \in 1..N : F[<<p, n>>] = Turn(p, n)
  OBVIOUS
<1> HIDE DEF F
<1>7. PICK f \in [0..N -> Seq(M)] : IsRun(f, <<>>, N, F)
  BY <1>1, <1>3, <1>5, LoopExists
<1>8. f = Body(f)
  <2>1. ASSUME NEW n \in 0..N, n # 0 PROVE F[<<f[n - 1], n>>] = Turn(f[n - 1], n)
    <3>1. n \in 1..N /\ n - 1 \in 0..N BY <1>1, <2>1
    <3>2. f[n - 1] \in Seq(M) BY <3>1
    <3>3. QED BY <1>6, <3>1, <3>2
  <2>2. QED BY <1>7, <2>1, Zenon DEF IsRun
<1>9. u = Body(u)
  BY <1>2, <1>8
<1> HIDE DEF u
<1>10. u[0] = <<>> /\ \A n \in 1..N : u[n] = Turn(u[n - 1], n)
  <2>1. \A n \in 0..N : u[n] = IF n = 0 THEN <<>> ELSE Turn(u[n - 1], n)
    BY <1>9
  <2>2. QED BY <1>1, <2>1
<1>11. \A n \in 0..N : n \in {m \in 0..N : u[m] \in Seq(M)}
  <2> DEFINE T == {m \in 0..N : u[m] \in Seq(M)}
  <2>1. 0 \in T
    <3>1. 0 \in 0..N BY <1>1
    <3>2. QED BY <1>3, <1>10, <3>1, Zenon
  <2>2. ASSUME NEW n \in 1..N, n - 1 \in T PROVE n \in T
    <3>1. u[n - 1] \in Seq(M) /\ n \in 0..N BY <1>1, <2>2
    <3>2. Turn(u[n - 1], n) \in Seq(M) BY <1>4, <3>1
    <3>3. u[n] = Turn(u[n - 1], n) BY <1>10
    <3>4. QED BY <3>1, <3>2, <3>3
  <2> HIDE DEF T
  <2>3. QED BY <1>1, <2>1, <2>2, LoopInvariance DEF T
<1>12. u \in [0..N -> Seq(M)]
  BY <1>9, <1>11
<1>13. QED BY <1>10, <1>12 DEF u, N, Turn

LEMMA UnsentKeeps ==
  ASSUME NEW M, NEW q \in Seq(M), NEW s
  PROVE  /\ WithoutUnsent(q, s) \in Seq(M)
         /\ \E at : Lists(at, WithoutUnsent(q, s), q, Staying(q, Len(q), s))
<1> DEFINE N == Len(q)
           u == Unsent(q, s)
           T == {n \in 0..N : \E at : Lists(at, u[n], q, Staying(q, n, s))}
<1>1. /\ u \in [0..N -> Seq(M)] /\ u[0] = <<>>
      /\ \A n \in 1..N :
           u[n] = IF n > 1 /\ q[n].tagged /\ q[n].stream = s THEN u[n - 1]
                  ELSE Append(u[n - 1], q[n])
  BY UnsentStep
<1>2. N \in Nat /\ \A n \in 1..N : q[n] \in M
  OBVIOUS
<1>3. WithoutUnsent(q, s) = u[N]
  BY DEF WithoutUnsent
<1> HIDE DEF u, N
<1>4. 0 \in T
  <2>1. Staying(q, 0, s) = {} /\ Len(<<>>) = 0
    BY DEF Staying
  <2> DEFINE none == [i \in 1..0 |-> i]
  <2>2. Lists(none, <<>>, q, {})
    BY DEF Lists
  <2> HIDE DEF none
  <2>3. 0 \in 0..N /\ Lists(none, u[0], q, Staying(q, 0, s))
    <3>1. 0 \in 0..N BY <1>2
    <3>2. QED BY <1>1, <2>1, <2>2, <3>1, Zenon
  <2>4. QED BY <2>3
<1>5. ASSUME NEW n \in 1..N, n - 1 \in T PROVE n \in T
  <2> DEFINE p == n - 1
             K == Staying(q, p, s)
  <2>1. p \in Nat /\ p + 1 = n /\ p \in 0..N /\ n \in 0..N /\ q[n] \in M
    BY <1>2
  <2>2. PICK at : Lists(at, u[p], q, K)
    BY <1>5
  <2>3. u[p] \in Seq(M)
    BY <1>1, <2>1
  <2>4. CASE n > 1 /\ q[n].tagged /\ q[n].stream = s
    <3>1. Staying(q, n, s) = K
      BY <2>1, <2>4 DEF Staying
    <3>2. u[n] = u[p] BY <1>1, <2>4
    <3>3. QED BY <2>1, <2>2, <3>1, <3>2
  <2>5. CASE ~(n > 1 /\ q[n].tagged /\ q[n].stream = s)
    <3>1. Staying(q, n, s) = K \cup {n}
      BY <2>1, <2>5 DEF Staying
    <3>2. K \in SUBSET (1..p)
      BY DEF Staying
    <3>3. u[n] = Append(u[p], q[n]) BY <1>1, <2>5
    <3> HIDE DEF K, p
    <3>4. \E to : Lists(to, Append(u[p], q[p + 1]), q, K \cup {p + 1})
      BY <2>1, <2>2, <2>3, <3>2, ListsMore
    <3>5. QED BY <2>1, <3>1, <3>3, <3>4
  <2>6. QED BY <2>4, <2>5
<1>6. N \in T
  <2> HIDE DEF T
  <2>1. \A n \in 0..N : n \in T
    BY <1>2, <1>4, <1>5, LoopInvariance
  <2>2. QED BY <1>2, <2>1
<1>7. QED BY <1>1, <1>2, <1>3, <1>6 DEF N

LEMMA RemoveAtLists ==
  ASSUME NEW M, NEW q \in Seq(M), NEW i \in 1..Len(q)
  PROVE  /\ RemoveAt(q, i) \in Seq(M) /\ Len(RemoveAt(q, i)) = Len(q) - 1
         /\ \A j \in 1..Len(q) - 1 : RemoveAt(q, i)[j] = q[IF j < i THEN j ELSE j + 1]
<1> DEFINE a == SubSeq(q, 1, i - 1)
           b == SubSeq(q, i + 1, Len(q))
<1>1. a \in Seq(M) /\ Len(a) = i - 1 /\ \A j \in 1..i - 1 : a[j] = q[j]
  OBVIOUS
<1>2. b \in Seq(M) /\ Len(b) = Len(q) - i /\ \A j \in 1..Len(q) - i : b[j] = q[i + j]
  OBVIOUS
<1>3. RemoveAt(q, i) = a \o b
  BY DEF RemoveAt
<1> HIDE DEF a, b
<1>4. /\ a \o b \in Seq(M) /\ Len(a \o b) = (i - 1) + (Len(q) - i)
      /\ \A j \in 1..i - 1 : (a \o b)[j] = a[j]
      /\ \A j \in 1..Len(q) - i : (a \o b)[i - 1 + j] = b[j]
  <2>1. a \in Seq(M) /\ b \in Seq(M) /\ Len(a) = i - 1 /\ Len(b) = Len(q) - i
    BY <1>1, <1>2
  <2>2. a \o b \in Seq(M) BY <2>1
  <2>3. Len(a \o b) = Len(a) + Len(b) BY <2>1
  <2>4. \A j \in 1..Len(a) : (a \o b)[j] = a[j] BY <2>1
  <2>5. \A j \in 1..Len(b) : (a \o b)[Len(a) + j] = b[j] BY <2>1
  <2>6. QED BY <2>1, <2>2, <2>3, <2>4, <2>5, Zenon
<1>5. ASSUME NEW j \in 1..Len(q) - 1 PROVE (a \o b)[j] = q[IF j < i THEN j ELSE j + 1]
  <2>1. CASE j < i
    <3>1. j \in 1..i - 1
      BY <2>1
    <3>2. QED BY <1>1, <1>4, <2>1, <3>1
  <2>2. CASE ~(j < i)
    <3>1. /\ j - (i - 1) \in 1..Len(q) - i /\ i + (j - (i - 1)) = j + 1
          /\ i - 1 + (j - (i - 1)) = j
      BY <2>2
    <3>2. (a \o b)[j] = b[j - (i - 1)]
      BY <1>4, <3>1
    <3>3. QED BY <1>2, <2>2, <3>1, <3>2
  <2>3. QED BY <2>1, <2>2
<1>6. (i - 1) + (Len(q) - i) = Len(q) - 1
  OBVIOUS
<1>7. QED BY <1>3, <1>4, <1>5, <1>6

------------------------------------------------------------------------------
(* What a handler may find and must leave.  The carrier is a draft d; what *)
(* its two peers did and know is a world w.  Of the streams X the host     *)
(* still has to be told something, of the streams Y the browser.           *)
Waiting == [stream : Stream, opening : Opening,
            endpoint : {"session", "control"}, late : BOOLEAN]
Draft ==
  [active : [Stream -> OpenStream \cup {NoStream}], deferred : Seq(Waiting),
   forwarded : SUBSET Stream, pending : Seq(FrameType), pendingBytes : Nat,
   up : Seq(FrameType), down : Seq(FrameType), disposed : BOOLEAN,
   closeIssued : BOOLEAN, grace : BOOLEAN, client : Leg \ {"connecting"},
   upstream : Leg, registered : BOOLEAN, baseline : BOOLEAN]
World ==
  [opens |-> opens, ended |-> ended, cancelled |-> cancelled,
   hostOpen |-> hostOpen, hostOut |-> hostOut, granted |-> granted]

(* The browser gave every stream an id of its own.                         *)
SoundWorld(w) ==
  /\ w.opens \in Seq([stream : Stream, endpoint : Endpoint])
  /\ Len(w.opens) <= MaxOpens
  /\ \A n, m \in 1..Len(w.opens) : n # m => w.opens[n].stream # w.opens[m].stream
  /\ w.ended \subseteq 1..Len(w.opens) /\ w.cancelled \subseteq 1..Len(w.opens)
  /\ w.hostOpen \in [Stream -> 0..Len(w.opens)]
  /\ w.hostOut \in Seq(FrameType)
  /\ w.granted \subseteq Stream

(* The opening of a stream that the browser sent.                          *)
Names(w, n, s) == n \in 1..Len(w.opens) /\ w.opens[n].stream = s
Named(f, w) == Names(w, f.opening, f.stream)

Counted(d) ==
  d.pendingBytes = Len(d.pending) + Len(d.deferred) /\ d.pendingBytes <= MaxPending

(* Which streams are registered, forwarded, deferred.                      *)
Registers(d, w) ==
  /\ \A s \in Stream : d.active[s] # NoStream =>
       /\ Names(w, d.active[s].opening, s)
       /\ w.opens[d.active[s].opening].endpoint = d.active[s].endpoint
  /\ \A s \in d.forwarded : d.active[s] # NoStream /\ ~IsDeferred(d, s)
  /\ \A i \in 1..Len(d.deferred) :
       d.active[d.deferred[i].stream] =
         [endpoint |-> d.deferred[i].endpoint, opening |-> d.deferred[i].opening]
  /\ \A i, j \in 1..Len(d.deferred) :
       i # j => d.deferred[i].stream # d.deferred[j].stream

NoFrameOf(q, s) == \A i \in 1..Len(q) : q[i].stream # s
CancelIn(q, s) == \E i \in 1..Len(q) : q[i].kind = "cancel" /\ q[i].stream = s
EndingIn(q, n) == \E i \in 1..Len(q) : Final(q[i]) /\ q[i].opening = n
MayBeTold(w, n) ==
  Subuser /\ w.opens[n].endpoint = "session" => w.opens[n].stream \in w.granted

(* What is on its way to the browser: of each stream at most one ending,   *)
(* which is its last frame.                                                *)
Downward(q, w) ==
  \A i \in 1..Len(q) :
    /\ Named(q[i], w) /\ (q[i].tagged <=> ~Final(q[i]))
    /\ q[i].opening \notin w.ended
    /\ q[i].opening \in w.cancelled => i = 1
    /\ \A j \in 1..i - 1 : Final(q[j]) => q[j].opening # q[i].opening

(* What is on its way to the host: a stream is opened once, and with a     *)
(* cancel after it if the gateway has forgotten it.                        *)
Opens(q, i, d, w, X) ==
  LET s == q[i].stream
  IN  /\ w.hostOpen[s] = 0 /\ NoFrameOf(w.hostOut, s)
      /\ \A j \in 1..Len(q) : j # i /\ q[j].kind = "open" => q[j].stream # s
      /\ \/ s \in d.forwarded \cup X
         \/ \E j \in i + 1..Len(q) : q[j].kind = "cancel" /\ q[j].stream = s
      /\ MayBeTold(w, q[i].opening)
Upward(q, d, w, X) ==
  \A i \in 1..Len(q) :
    /\ Named(q[i], w) /\ ~IsDeferred(d, q[i].stream)
    /\ q[i].kind = "cancel" => d.active[q[i].stream] = NoStream \/ q[i].stream \in X
    /\ q[i].kind = "open" => Opens(q, i, d, w, X)

(* No ending of n has been sent, and none is under way.                    *)
Unended(d, w, n) == n \notin w.ended \cup w.cancelled /\ ~EndingIn(d.down, n)

(* A registered stream still has its ending to come, and a stream that is  *)
(* no longer registered had it.                                            *)
Streams(d, w, Y) ==
  /\ \A s \in Stream \ Y : d.active[s] # NoStream =>
       /\ s \in d.forwarded \/ IsDeferred(d, s)
       /\ Unended(d, w, d.active[s].opening)
  /\ \A n \in 1..Len(w.opens) :
       \/ n \in w.ended \cup w.cancelled \/ EndingIn(d.down, n)
       \/ d.active[w.opens[n].stream] # NoStream \/ w.opens[n].stream \in Y

(* The host serves what it was told and not told to drop.                  *)
Served(d, w, X) ==
  /\ \A s \in Stream : w.hostOpen[s] # 0 =>
       /\ Names(w, w.hostOpen[s], s) /\ ~IsDeferred(d, s)
       /\ s \in d.forwarded \cup X \/ CancelIn(d.up, s)
       /\ MayBeTold(w, w.hostOpen[s])
  /\ \A i \in 1..Len(w.hostOut) :
       /\ Named(w.hostOut[i], w) /\ ~IsDeferred(d, w.hostOut[i].stream)
       /\ w.hostOut[i].kind = "end" => w.hostOpen[w.hostOut[i].stream] = 0

(* Nothing reaches a host that is not connected, and nothing waits for one *)
(* that is.                                                                *)
Reached(d, w) ==
  \/ /\ d.upstream = "connecting" /\ d.up = <<>> /\ w.hostOut = <<>>
     /\ \A s \in Stream : w.hostOpen[s] = 0
  \/ d.upstream = "open" /\ d.pending = <<>>

(* A carrier in service.                                                   *)
Lively(d, w, X, Y) ==
  /\ Reached(d, w) /\ Streams(d, w, Y) /\ Served(d, w, X)
  /\ Upward(d.up, d, w, X) /\ Upward(d.pending, d, w, X) /\ Downward(d.down, w)
  /\ \A i \in 1..Len(d.deferred) : NoFrameOf(d.down, d.deferred[i].stream)

(* What holds of a carrier in service and of one that is closing.          *)
Base(d, w) ==
  /\ d \in Draft /\ Counted(d) /\ Registers(d, w)
  /\ d.closeIssued => d.client # "open"

Sound(d, w, X, Y) ==
  /\ Base(d, w)
  /\ d.disposed <=> d.client # "open"
  /\ d.disposed => d.up = <<>> /\ d.down = <<>>
  /\ ~d.disposed => Lively(d, w, X, Y)

IInv == SoundWorld(World) /\ Sound(Now, World, {}, {})

------------------------------------------------------------------------------
(* Closing.                                                                *)

(* The registers of two drafts are the same.                               *)
SameBooks(e, d) ==
  /\ e.active = d.active /\ e.deferred = d.deferred /\ e.forwarded = d.forwarded
  /\ e.baseline = d.baseline

LEMMA SameBooksSound ==
  ASSUME NEW d, NEW e, NEW w, SameBooks(e, d), Registers(d, w)
  PROVE  Registers(e, w) /\ \A s : IsDeferred(e, s) <=> IsDeferred(d, s)
BY DEF SameBooks, Registers, IsDeferred

LEMMA Disposal ==
  ASSUME NEW d \in Draft
  PROVE  LET e == Dispose(d)
         IN  /\ e \in Draft /\ SameBooks(e, d) /\ e.disposed
             /\ e.up = <<>> /\ e.down = <<>> /\ e.pending = d.pending
             /\ e.pendingBytes = d.pendingBytes /\ e.closeIssued = d.closeIssued
             /\ e.client = d.client /\ e.upstream = d.upstream
<1>1. <<>> \in Seq(FrameType)
  OBVIOUS
<1>2. Dispose(d) \in Draft
  BY <1>1 DEF Draft, Dispose
<1>3. QED BY <1>2 DEF Draft, Dispose, SameBooks

LEMMA Closing ==
  ASSUME NEW d \in Draft
  PROVE  LET e == CloseCarrier(d)
         IN  /\ e \in Draft /\ SameBooks(e, d) /\ e.disposed
             /\ e.up = <<>> /\ e.down = <<>> /\ e.pending = d.pending
             /\ e.pendingBytes = d.pendingBytes
             /\ d.closeIssued => e.client = d.client
             /\ ~d.closeIssued => e.client # "open"
<1> DEFINE b == Dispose(d)
           c == [b EXCEPT !.closeIssued = TRUE, !.client = LegClosing(@),
                          !.upstream = LegClosing(@)]
<1>1. /\ b \in Draft /\ SameBooks(b, d) /\ b.disposed
      /\ b.up = <<>> /\ b.down = <<>> /\ b.pending = d.pending
      /\ b.pendingBytes = d.pendingBytes
      /\ b.client = d.client
  BY Disposal
<1>2. CloseCarrier(d) = IF d.closeIssued THEN b ELSE ArmGrace(c)
  BY DEF CloseCarrier
<1> HIDE DEF b
<1>3. b.client \in Leg \ {"connecting"} /\ b.upstream \in Leg
  BY <1>1 DEF Draft
<1>4. LegClosing(b.client) \in Leg \ {"connecting", "open"} /\ LegClosing(b.upstream) \in Leg
  BY <1>3 DEF LegClosing, Leg
<1>5. /\ c \in Draft /\ SameBooks(c, d) /\ c.disposed
      /\ c.up = <<>> /\ c.down = <<>> /\ c.pending = d.pending
      /\ c.pendingBytes = d.pendingBytes /\ c.client # "open"
  BY <1>1, <1>4 DEF Draft, SameBooks
<1> HIDE DEF c
<1>6. LET g == ArmGrace(c)
      IN /\ g \in Draft /\ SameBooks(g, d) /\ g.disposed
         /\ g.up = <<>> /\ g.down = <<>> /\ g.pending = d.pending
         /\ g.pendingBytes = d.pendingBytes /\ g.client # "open"
  BY <1>5 DEF ArmGrace, Draft, SameBooks
<1>7. QED BY <1>1, <1>2, <1>6

LEMMA CloseSound ==
  ASSUME NEW d, NEW w, Base(d, w), NEW X, NEW Y
  PROVE  Sound(CloseCarrier(d), w, X, Y)
<1> DEFINE e == CloseCarrier(d)
<1>1. /\ e \in Draft /\ SameBooks(e, d) /\ e.disposed
      /\ e.up = <<>> /\ e.down = <<>> /\ e.pending = d.pending
      /\ e.pendingBytes = d.pendingBytes
      /\ d.closeIssued => e.client = d.client
      /\ ~d.closeIssued => e.client # "open"
  BY Closing DEF Base
<1> HIDE DEF e
<1>2. Registers(e, w)
  BY <1>1, SameBooksSound DEF Base
<1>3. Counted(e)
  BY <1>1 DEF Base, Counted, SameBooks
<1>4. e.client # "open"
  BY <1>1 DEF Base
<1>5. Sound(e, w, X, Y)
  BY <1>1, <1>2, <1>3, <1>4 DEF Sound, Base
<1>6. QED BY <1>5 DEF e

LEMMA DisposeSound ==
  ASSUME NEW d, NEW w, Base(d, w), d.client # "open", NEW X, NEW Y
  PROVE  Sound(Dispose(d), w, X, Y)
<1> DEFINE e == Dispose(d)
<1>1. /\ e \in Draft /\ SameBooks(e, d) /\ e.disposed
      /\ e.up = <<>> /\ e.down = <<>> /\ e.pending = d.pending
      /\ e.pendingBytes = d.pendingBytes /\ e.client = d.client
  BY Disposal DEF Base
<1> HIDE DEF e
<1>2. Registers(e, w)
  BY <1>1, SameBooksSound DEF Base
<1>3. Counted(e)
  BY <1>1 DEF Base, Counted, SameBooks
<1>4. Sound(e, w, X, Y)
  BY <1>1, <1>2, <1>3 DEF Sound, Base
<1>5. QED BY <1>4 DEF e

(* Fewer excuses are more.                                                 *)
LEMMA Excused ==
  ASSUME NEW d, NEW w, NEW X, NEW Y, NEW X1, NEW Y1, X \subseteq X1, Y \subseteq Y1,
         Sound(d, w, X, Y)
  PROVE  Sound(d, w, X1, Y1)
<1>1. ASSUME NEW q, Upward(q, d, w, X) PROVE Upward(q, d, w, X1)
  BY <1>1 DEF Upward, Opens
<1>2. Streams(d, w, Y) => Streams(d, w, Y1)
  BY DEF Streams
<1>3. Served(d, w, X) => Served(d, w, X1)
  BY DEF Served
<1>4. QED BY <1>1, <1>2, <1>3 DEF Sound, Lively

------------------------------------------------------------------------------
(* The queues of the two senders.                                          *)

(* A stream has one opening.                                               *)
LEMMA OneOpening ==
  ASSUME NEW w, SoundWorld(w), NEW s, NEW n, NEW m, Names(w, n, s), Names(w, m, s)
  PROVE  n = m
BY DEF SoundWorld, Names

LEMMA NamedOpening ==
  ASSUME NEW w, SoundWorld(w), NEW s, NEW n, Names(w, n, s)
  PROVE  n \in Opening
BY CarrierAssumption DEF SoundWorld, Names, Opening

LEMMA Elements ==
  ASSUME NEW M, NEW q \in Seq(M)
  PROVE  Len(q) \in Nat /\ \A i \in 1..Len(q) : q[i] \in M
OBVIOUS

LEMMA Appended ==
  ASSUME NEW M, NEW q \in Seq(M), NEW f \in M
  PROVE  /\ Append(q, f) \in Seq(M) /\ Len(q) \in Nat
         /\ Len(Append(q, f)) = Len(q) + 1 /\ Append(q, f)[Len(q) + 1] = f
         /\ \A i \in 1..Len(q) : Append(q, f)[i] = q[i]
OBVIOUS

LEMMA DownwardAppend ==
  ASSUME NEW w, NEW q \in Seq(FrameType), NEW f \in FrameType, Downward(q, w),
         Named(f, w), f.tagged <=> ~Final(f), f.opening \notin w.ended \cup w.cancelled,
         ~EndingIn(q, f.opening)
  PROVE  Downward(Append(q, f), w)
<1> DEFINE r == Append(q, f)
           n == Len(q)
<1>1. /\ n \in Nat /\ Len(r) = n + 1 /\ r[n + 1] = f
      /\ \A i \in 1..n : r[i] = q[i]
  BY Appended
<1> HIDE DEF r, n
<1>2. \A i \in 1..n + 1 :
        /\ Named(r[i], w) /\ (r[i].tagged <=> ~Final(r[i]))
        /\ r[i].opening \notin w.ended
        /\ r[i].opening \in w.cancelled => i = 1
        /\ \A j \in 1..i - 1 : Final(r[j]) => r[j].opening # r[i].opening
  <2>1. TAKE i \in 1..n + 1
  <2>2. CASE i = n + 1
    <3>1. \A j \in 1..i - 1 : Final(r[j]) => r[j].opening # r[i].opening
      <4>1. TAKE j \in 1..i - 1
      <4>2. j \in 1..n /\ r[j] = q[j] BY <1>1, <2>2
      <4>3. Final(q[j]) => q[j].opening # f.opening
        BY <4>2 DEF EndingIn, n
      <4>4. QED BY <1>1, <2>2, <4>2, <4>3
    <3>2. QED BY <1>1, <2>2, <3>1
  <2>3. CASE i # n + 1
    <3>1. i \in 1..n /\ r[i] = q[i] BY <1>1, <2>3
    <3>2. /\ Named(q[i], w) /\ (q[i].tagged <=> ~Final(q[i]))
          /\ q[i].opening \notin w.ended
          /\ q[i].opening \in w.cancelled => i = 1
          /\ \A j \in 1..i - 1 : Final(q[j]) => q[j].opening # q[i].opening
      BY <3>1 DEF Downward, n
    <3>3. \A j \in 1..i - 1 : r[j] = q[j]
      BY <1>1, <3>1
    <3>4. QED BY <3>1, <3>2, <3>3
  <2>4. QED BY <2>2, <2>3
<1>3. QED BY <1>1, <1>2 DEF Downward, r

LEMMA EndingAppend ==
  ASSUME NEW q \in Seq(FrameType), NEW f \in FrameType, NEW n
  PROVE  EndingIn(Append(q, f), n) <=> EndingIn(q, n) \/ (Final(f) /\ f.opening = n)
<1> DEFINE r == Append(q, f)
           m == Len(q)
<1>1. /\ m \in Nat /\ Len(r) = m + 1 /\ r[m + 1] = f
      /\ \A i \in 1..m : r[i] = q[i] /\ i \in 1..m + 1
  BY Appended
<1> HIDE DEF r, m
<1>2. \A i \in 1..m + 1 : i = m + 1 \/ i \in 1..m
  BY <1>1
<1>3. m + 1 \in 1..m + 1
  BY <1>1
<1>4. QED BY <1>1, <1>2, <1>3 DEF EndingIn, r, m

(* A frame joins those for the host.                                       *)
LEMMA UpwardAppend ==
  ASSUME NEW d, NEW w, NEW X, NEW q \in Seq(FrameType), NEW f \in FrameType,
         Upward(q, d, w, X), Named(f, w), ~IsDeferred(d, f.stream),
         f.kind = "cancel" => d.active[f.stream] = NoStream \/ f.stream \in X,
         f.kind = "open" =>
           /\ w.hostOpen[f.stream] = 0 /\ NoFrameOf(w.hostOut, f.stream)
           /\ NoFrameOf(q, f.stream) /\ f.stream \in d.forwarded \cup X
           /\ MayBeTold(w, f.opening)
  PROVE  Upward(Append(q, f), d, w, X)
<1> DEFINE r == Append(q, f)
           n == Len(q)
<1>1. /\ n \in Nat /\ Len(r) = n + 1 /\ r[n + 1] = f
      /\ \A i \in 1..n : r[i] = q[i]
  BY Appended
<1> HIDE DEF r
<1>2. \A i \in 1..n + 1 :
        /\ Named(r[i], w) /\ ~IsDeferred(d, r[i].stream)
        /\ r[i].kind = "cancel" => d.active[r[i].stream] = NoStream \/ r[i].stream \in X
        /\ r[i].kind = "open" => Opens(r, i, d, w, X)
  <2>1. TAKE i \in 1..n + 1
  <2>2. CASE i = n + 1
    <3>1. f.kind = "open" => \A j \in 1..n + 1 : j # i => r[j].stream # f.stream
      BY <1>1, <2>2 DEF NoFrameOf
    <3>2. QED BY <1>1, <2>2, <3>1 DEF Opens
  <2>3. CASE i # n + 1
    <3>1. i \in 1..n /\ r[i] = q[i] BY <1>1, <2>3
    <3>2. /\ Named(q[i], w) /\ ~IsDeferred(d, q[i].stream)
          /\ q[i].kind = "cancel" => d.active[q[i].stream] = NoStream \/ q[i].stream \in X
          /\ q[i].kind = "open" => Opens(q, i, d, w, X)
      BY <3>1 DEF Upward
    <3>3. ASSUME q[i].kind = "open" PROVE Opens(r, i, d, w, X)
      <4>1. Opens(q, i, d, w, X) BY <3>2, <3>3
      <4>2. \A j \in 1..n + 1 : j # i /\ r[j].kind = "open" => r[j].stream # q[i].stream
        <5>1. TAKE j \in 1..n + 1
        <5>2. CASE j = n + 1
          BY <1>1, <3>1, <5>2 DEF NoFrameOf
        <5>3. CASE j # n + 1
          <6>1. j \in 1..n /\ r[j] = q[j] BY <1>1, <5>3
          <6>2. QED BY <4>1, <6>1 DEF Opens
        <5>4. QED BY <5>2, <5>3
      <4>3. ASSUME NEW j \in i + 1..n PROVE r[j] = q[j] /\ j \in i + 1..n + 1
        BY <1>1, <3>1
      <4>4. QED BY <1>1, <3>1, <4>1, <4>2, <4>3 DEF Opens
    <3>4. QED BY <3>1, <3>2, <3>3
  <2>4. QED BY <2>2, <2>3
<1>3. QED BY <1>1, <1>2 DEF Upward, r

(* A cancel of s tells the host what there was to tell of s.               *)
LEMMA UpwardCancel ==
  ASSUME NEW d, NEW w, NEW s, NEW q \in Seq(FrameType), NEW f \in FrameType,
         Upward(q, d, w, {s}), Named(f, w), ~IsDeferred(d, s), d.active[s] = NoStream,
         f.kind = "cancel", f.stream = s
  PROVE  Upward(Append(q, f), d, w, {}) /\ CancelIn(Append(q, f), s)
<1> DEFINE r == Append(q, f)
           n == Len(q)
<1>1. /\ n \in Nat /\ Len(r) = n + 1 /\ r[n + 1] = f
  BY Appended
<1>2. Upward(r, d, w, {s})
  BY UpwardAppend
<1> HIDE DEF r, n
<1>3. ASSUME NEW i \in 1..n + 1, r[i].kind = "open" PROVE Opens(r, i, d, w, {})
  <2>1. Opens(r, i, d, w, {s}) BY <1>1, <1>2, <1>3 DEF Upward
  <2>2. CASE r[i].stream # s
    BY <2>1, <2>2 DEF Opens
  <2>3. CASE r[i].stream = s
    <3>1. i # n + 1 BY <1>1, <1>3
    <3>2. n + 1 \in i + 1..n + 1 BY <1>1, <3>1
    <3>3. QED BY <1>1, <2>1, <2>3, <3>2 DEF Opens
  <2>4. QED BY <2>2, <2>3
<1>4. \A i \in 1..n + 1 : r[i].kind = "cancel" => d.active[r[i].stream] = NoStream
  BY <1>1, <1>2 DEF Upward
<1>5. CancelIn(r, s)
  <2>1. n + 1 \in 1..n + 1 BY <1>1
  <2>2. QED BY <1>1, <2>1 DEF CancelIn
<1>6. Upward(r, d, w, {})
  BY <1>1, <1>2, <1>3, <1>4 DEF Upward
<1>7. QED BY <1>5, <1>6 DEF r

LEMMA CancelAppend ==
  ASSUME NEW q \in Seq(FrameType), NEW f \in FrameType, NEW s, CancelIn(q, s)
  PROVE  CancelIn(Append(q, f), s)
<1>1. /\ Len(q) \in Nat /\ Len(Append(q, f)) = Len(q) + 1
      /\ \A i \in 1..Len(q) : Append(q, f)[i] = q[i] /\ i \in 1..Len(q) + 1
  BY Appended
<1>2. QED BY <1>1 DEF CancelIn

------------------------------------------------------------------------------
(* What cancel(s) of a sender leaves.                                      *)

(* Every frame that is left was there, the first one still is, and of s    *)
(* nothing but the first and what carries no tag.                          *)
LEMMA UnsentFrames ==
  ASSUME NEW q \in Seq(FrameType), NEW s
  PROVE  LET r == WithoutUnsent(q, s)
         IN  /\ r \in Seq(FrameType)
             /\ \A i \in 1..Len(r) : \E k \in 1..Len(q) :
                  r[i] = q[k] /\ (i = 1 \/ ~(r[i].tagged /\ r[i].stream = s))
             /\ q = <<>> => r = <<>>
<1> DEFINE r == WithoutUnsent(q, s)
           K == Staying(q, Len(q), s)
<1>1. r \in Seq(FrameType) /\ \E at : Lists(at, r, q, K)
  BY UnsentKeeps
<1>2. PICK at : Lists(at, r, q, K)
  BY <1>1
<1> HIDE DEF r
<1>3. K \subseteq 1..Len(q) /\ \A k \in K : k = 1 \/ ~(q[k].tagged /\ q[k].stream = s)
  BY DEF Staying
<1>a. Len(q) # 0 => 1 \in K
  <2>1. Len(q) \in Nat OBVIOUS
  <2>2. QED BY <2>1 DEF Staying
<1> HIDE DEF K
<1>4. Len(r) \in Nat /\ Len(q) \in Nat
  BY <1>1
<1>5. ASSUME NEW i \in 1..Len(r)
      PROVE  at[i] \in 1..Len(q) /\ r[i] = q[at[i]]
             /\ (i = 1 \/ ~(r[i].tagged /\ r[i].stream = s))
  <2>1. at[i] \in K /\ r[i] = q[at[i]]
    BY <1>2 DEF Lists
  <2>2. CASE at[i] = 1
    <3>1. SUFFICES ASSUME i # 1 PROVE FALSE
      BY <1>3, <2>1
    <3>2. 1 \in 1..Len(r) /\ 1 < i
      BY <1>4, <3>1
    <3>3. at[1] < at[i] /\ at[1] \in K
      BY <1>2, <3>2 DEF Lists
    <3>a. at[1] \in 1..Len(q)
      BY <1>3, <3>3, Zenon
    <3> DEFINE k == at[1]
    <3>b. k \in 1..Len(q) BY <3>a
    <3> HIDE DEF k
    <3>4. k \in Int /\ k >= 1
      BY <1>4, <3>b
    <3>5. QED BY <2>2, <3>3, <3>4 DEF k
  <2>3. QED BY <1>3, <2>1, <2>2
<1>6. q = <<>> => r = <<>>
  <2>1. SUFFICES ASSUME q = <<>>, r # <<>> PROVE FALSE
    OBVIOUS
  <2>2. Len(r) # 0
    BY <1>1, <2>1
  <2>3. 1 \in 1..Len(r)
    BY <1>4, <2>2
  <2>4. at[1] \in 1..Len(q) /\ Len(q) = 0
    BY <1>5, <2>1, <2>3
  <2>5. QED BY <2>4
<1>7. QED BY <1>1, <1>5, <1>6 DEF r

(* r is q in its order, without some tagged frames of s.                   *)
Spares(at, r, q, s) ==
  /\ \A i \in 1..Len(r) : at[i] \in 1..Len(q) /\ r[i] = q[at[i]]
  /\ \A i, j \in 1..Len(r) : i < j <=> at[i] < at[j]
  /\ \A i \in 1..Len(r) : at[i] = 1 => i = 1
  /\ \A k \in 1..Len(q) : ~(q[k].tagged /\ q[k].stream = s) =>
       \E i \in 1..Len(r) : at[i] = k

LEMMA UnsentOrder ==
  ASSUME NEW q \in Seq(FrameType), NEW s
  PROVE  \E at : Spares(at, WithoutUnsent(q, s), q, s)
<1> DEFINE r == WithoutUnsent(q, s)
           K == Staying(q, Len(q), s)
<1>1. r \in Seq(FrameType) /\ \E at : Lists(at, r, q, K)
  BY UnsentKeeps
<1>2. PICK at : Lists(at, r, q, K)
  BY <1>1
<1>3. Len(r) \in Nat
  BY <1>1
<1> HIDE DEF r
<1>4. K \subseteq 1..Len(q) /\ \A k \in 1..Len(q) : ~(q[k].tagged /\ q[k].stream = s) => k \in K
  BY DEF Staying
<1> HIDE DEF K
<1>5. /\ \A i \in 1..Len(r) : at[i] \in K /\ r[i] = q[at[i]]
      /\ \A i, j \in 1..Len(r) : i < j => at[i] < at[j]
      /\ \A k \in K : \E i \in 1..Len(r) : at[i] = k
  BY <1>2 DEF Lists
<1>6. \A i \in 1..Len(r) : at[i] \in Int /\ at[i] >= 1
  BY <1>4, <1>5
<1>7. ASSUME NEW i \in 1..Len(r), NEW j \in 1..Len(r) PROVE i < j <=> at[i] < at[j]
  <2>1. i < j => at[i] < at[j] BY <1>5
  <2>2. j < i => at[j] < at[i] BY <1>5
  <2>3. i < j \/ i = j \/ j < i OBVIOUS
  <2>4. QED BY <1>6, <2>1, <2>2, <2>3
<1>8. ASSUME NEW i \in 1..Len(r), at[i] = 1 PROVE i = 1
  <2>1. SUFFICES ASSUME i # 1 PROVE FALSE
    OBVIOUS
  <2>2. 1 \in 1..Len(r) /\ 1 < i BY <1>3, <2>1
  <2>3. QED BY <1>6, <1>7, <1>8, <2>2
<1>9. \A i \in 1..Len(r) : at[i] \in 1..Len(q) /\ r[i] = q[at[i]]
  BY <1>4, <1>5
<1>10. \A k \in 1..Len(q) : ~(q[k].tagged /\ q[k].stream = s) =>
         \E i \in 1..Len(r) : at[i] = k
  BY <1>4, <1>5
<1>11. Spares(at, r, q, s)
  BY <1>7, <1>8, <1>9, <1>10 DEF Spares
<1>12. QED BY <1>11 DEF r

LEMMA UnsentDownward ==
  ASSUME NEW q \in Seq(FrameType), NEW s, NEW w, Downward(q, w)
  PROVE  /\ Downward(WithoutUnsent(q, s), w)
         /\ \A n : EndingIn(WithoutUnsent(q, s), n) <=> EndingIn(q, n)
<1> DEFINE r == WithoutUnsent(q, s)
<1>0. PICK at : Spares(at, r, q, s)
  BY UnsentOrder
<1>1. /\ \A i \in 1..Len(r) : at[i] \in 1..Len(q) /\ r[i] = q[at[i]]
      /\ \A i, j \in 1..Len(r) : i < j <=> at[i] < at[j]
      /\ \A i \in 1..Len(r) : at[i] = 1 => i = 1
      /\ \A k \in 1..Len(q) : ~(q[k].tagged /\ q[k].stream = s) =>
           \E i \in 1..Len(r) : at[i] = k
  BY <1>0, Zenon DEF Spares
<1>2. Len(r) \in Nat
  BY UnsentFrames
<1> HIDE DEF r
<1>3. ASSUME NEW i \in 1..Len(r)
      PROVE  /\ Named(r[i], w) /\ (r[i].tagged <=> ~Final(r[i]))
             /\ r[i].opening \notin w.ended
             /\ r[i].opening \in w.cancelled => i = 1
             /\ \A j \in 1..i - 1 : Final(r[j]) => r[j].opening # r[i].opening
  <2>1. at[i] \in 1..Len(q) /\ r[i] = q[at[i]]
    BY <1>1
  <2>2. /\ Named(q[at[i]], w) /\ (q[at[i]].tagged <=> ~Final(q[at[i]]))
        /\ q[at[i]].opening \notin w.ended
        /\ q[at[i]].opening \in w.cancelled => at[i] = 1
        /\ \A j \in 1..at[i] - 1 : Final(q[j]) => q[j].opening # q[at[i]].opening
    BY <2>1 DEF Downward
  <2>3. ASSUME NEW j \in 1..i - 1, Final(r[j]) PROVE r[j].opening # r[i].opening
    <3>1. j \in 1..Len(r) /\ j < i BY <1>2
    <3>2. at[j] \in 1..Len(q) /\ r[j] = q[at[j]] /\ at[j] < at[i] BY <1>1, <3>1
    <3>3. at[j] \in 1..at[i] - 1 BY <2>1, <3>2
    <3>4. QED BY <2>1, <2>2, <2>3, <3>2, <3>3
  <2>4. QED BY <1>1, <2>1, <2>2, <2>3
<1>4. ASSUME NEW n PROVE EndingIn(r, n) <=> EndingIn(q, n)
  <2>1. EndingIn(r, n) => EndingIn(q, n)
    BY <1>1 DEF EndingIn
  <2>2. ASSUME NEW k \in 1..Len(q), Final(q[k]), q[k].opening = n PROVE EndingIn(r, n)
    <3>1. ~q[k].tagged BY <2>2 DEF Downward
    <3>2. PICK i \in 1..Len(r) : at[i] = k BY <1>1, <3>1
    <3>3. r[i] = q[k] BY <1>1, <3>2
    <3>4. QED BY <2>2, <3>3 DEF EndingIn
  <2>3. QED BY <2>1, <2>2 DEF EndingIn
<1>5. QED BY <1>3, <1>4 DEF Downward, r

(* Without the streams of X the queue stays in order, though the gateway   *)
(* has forgotten s meanwhile.                                              *)
LEMMA UnsentUpward ==
  ASSUME NEW q \in Seq(FrameType), NEW s, NEW w, NEW d, NEW e, NEW X, s \in X,
         Upward(q, d, w, X),
         \A t : IsDeferred(e, t) => IsDeferred(d, t),
         \A t \in Stream \ {s} : e.active[t] = d.active[t],
         d.forwarded \subseteq e.forwarded \cup {s}
  PROVE  Upward(WithoutUnsent(q, s), e, w, X)
<1> DEFINE r == WithoutUnsent(q, s)
<1>0. PICK at : Spares(at, r, q, s)
  BY UnsentOrder
<1>1. /\ \A i \in 1..Len(r) : at[i] \in 1..Len(q) /\ r[i] = q[at[i]]
      /\ \A i, j \in 1..Len(r) : i < j <=> at[i] < at[j]
      /\ \A i \in 1..Len(r) : at[i] = 1 => i = 1
      /\ \A k \in 1..Len(q) : ~(q[k].tagged /\ q[k].stream = s) =>
           \E i \in 1..Len(r) : at[i] = k
  BY <1>0, Zenon DEF Spares
<1>2. Len(r) \in Nat /\ Len(q) \in Nat
  BY UnsentFrames
<1> HIDE DEF r
<1>3. ASSUME NEW i \in 1..Len(r)
      PROVE  /\ Named(r[i], w) /\ ~IsDeferred(e, r[i].stream)
             /\ r[i].kind = "cancel" => e.active[r[i].stream] = NoStream \/ r[i].stream \in X
             /\ r[i].kind = "open" => Opens(r, i, e, w, X)
  <2>1. at[i] \in 1..Len(q) /\ r[i] = q[at[i]]
    BY <1>1
  <2>2. /\ Named(q[at[i]], w) /\ ~IsDeferred(d, q[at[i]].stream)
        /\ q[at[i]].kind = "cancel" =>
             d.active[q[at[i]].stream] = NoStream \/ q[at[i]].stream \in X
        /\ q[at[i]].kind = "open" => Opens(q, at[i], d, w, X)
    BY <2>1 DEF Upward
  <2>3. r[i].kind = "cancel" => e.active[r[i].stream] = NoStream \/ r[i].stream \in X
    <3>1. q[at[i]] \in FrameType BY <2>1
    <3>2. q[at[i]].stream \in Stream BY <3>1 DEF FrameType
    <3>3. QED BY <2>1, <2>2, <3>2
  <2>4. ASSUME r[i].kind = "open" PROVE Opens(r, i, e, w, X)
    <3> DEFINE t == r[i].stream
    <3>1. /\ w.hostOpen[t] = 0 /\ NoFrameOf(w.hostOut, t)
          /\ \A j \in 1..Len(q) : j # at[i] /\ q[j].kind = "open" => q[j].stream # t
          /\ \/ t \in d.forwarded \cup X
             \/ \E j \in at[i] + 1..Len(q) : q[j].kind = "cancel" /\ q[j].stream = t
          /\ MayBeTold(w, r[i].opening)
      BY <2>1, <2>2, <2>4 DEF Opens
    <3> HIDE DEF t
    <3>2. \A j \in 1..Len(r) : j # i /\ r[j].kind = "open" => r[j].stream # t
      <4>1. TAKE j \in 1..Len(r)
      <4>2. HAVE j # i /\ r[j].kind = "open"
      <4>3. i < j \/ j < i BY <4>2
      <4>4. at[j] \in 1..Len(q) /\ r[j] = q[at[j]] /\ at[i] # at[j]
        BY <1>1, <2>1, <4>3
      <4>5. QED BY <3>1, <4>2, <4>4
    <3>3. ASSUME t # s, NEW j \in at[i] + 1..Len(q), q[j].kind = "cancel", q[j].stream = t
          PROVE  \E k \in i + 1..Len(r) : r[k].kind = "cancel" /\ r[k].stream = t
      <4>1. j \in 1..Len(q) /\ at[i] < j BY <1>2, <2>1
      <4>2. PICK k \in 1..Len(r) : at[k] = j BY <1>1, <3>3, <4>1
      <4>3. r[k] = q[j] /\ i < k BY <1>1, <4>1, <4>2
      <4>4. k \in i + 1..Len(r) BY <1>2, <4>3
      <4>5. QED BY <3>3, <4>3, <4>4
    <3>4. \/ t \in e.forwarded \cup X
          \/ \E k \in i + 1..Len(r) : r[k].kind = "cancel" /\ r[k].stream = t
      BY <3>1, <3>3
    <3>5. QED BY <3>1, <3>2, <3>4 DEF Opens, t
  <2>5. QED BY <2>1, <2>2, <2>3, <2>4
<1>4. QED BY <1>3 DEF Upward, r

LEMMA UnsentSilence ==
  ASSUME NEW q \in Seq(FrameType), NEW s
  PROVE  /\ q = <<>> => WithoutUnsent(q, s) = <<>>
         /\ \A t : NoFrameOf(q, t) => NoFrameOf(WithoutUnsent(q, s), t)
<1> DEFINE r == WithoutUnsent(q, s)
<1>1. /\ \A i \in 1..Len(r) : \E k \in 1..Len(q) : r[i] = q[k]
      /\ q = <<>> => r = <<>>
  BY UnsentFrames
<1> HIDE DEF r
<1>2. \A t : NoFrameOf(q, t) => NoFrameOf(r, t)
  BY <1>1, Zenon DEF NoFrameOf
<1>3. QED BY <1>1, <1>2 DEF r

LEMMA UnsentCancel ==
  ASSUME NEW q \in Seq(FrameType), NEW s, NEW t, t # s, CancelIn(q, t)
  PROVE  CancelIn(WithoutUnsent(q, s), t)
<1>1. PICK k \in 1..Len(q) : q[k].kind = "cancel" /\ q[k].stream = t
  BY DEF CancelIn
<1>2. PICK i \in 1..Len(WithoutUnsent(q, s)) : WithoutUnsent(q, s)[i] = q[k]
  <2>0. PICK at : Spares(at, WithoutUnsent(q, s), q, s)
    BY UnsentOrder
  <2>1. PICK i \in 1..Len(WithoutUnsent(q, s)) : at[i] = k
    BY <1>1, <2>0 DEF Spares
  <2>2. QED BY <2>0, <2>1 DEF Spares
<1>3. QED BY <1>1, <1>2 DEF CancelIn

(* A deferred stream leaves the map of the deferred.                       *)
LEMMA Dropping ==
  ASSUME NEW d \in Draft, NEW w, NEW s \in Stream, Counted(d), Registers(d, w)
  PROVE  LET e == DropDeferred(d, s)
         IN  /\ e \in Draft /\ Counted(e) /\ ~IsDeferred(e, s)
             /\ \A t : t # s => (IsDeferred(e, t) <=> IsDeferred(d, t))
             /\ \A i \in 1..Len(e.deferred) : \E j \in 1..Len(d.deferred) :
                  e.deferred[i] = d.deferred[j]
             /\ \A i, j \in 1..Len(e.deferred) :
                  i # j => e.deferred[i].stream # e.deferred[j].stream
             /\ e.active = d.active /\ e.forwarded = d.forwarded
             /\ e.pending = d.pending /\ e.up = d.up /\ e.down = d.down
             /\ e.disposed = d.disposed /\ e.closeIssued = d.closeIssued
             /\ e.client = d.client /\ e.upstream = d.upstream
             /\ e.baseline = d.baseline /\ e.registered = d.registered
<1> DEFINE e == DropDeferred(d, s)
<1>1. CASE ~IsDeferred(d, s)
  <2>1. e = d BY <1>1 DEF DropDeferred
  <2>2. QED BY <1>1, <2>1, Zenon DEF Registers
<1>2. CASE IsDeferred(d, s)
  <2> DEFINE q == d.deferred
             p == Entry(d, s)
             r == RemoveAt(q, p)
  <2>1. q \in Seq(Waiting) /\ Len(q) \in Nat
    BY DEF Draft
  <2>2. p \in 1..Len(q) /\ q[p].stream = s
    BY <1>2 DEF Entry, IsDeferred
  <2>3. \A j, k \in 1..Len(q) : j # k => q[j].stream # q[k].stream
    BY DEF Registers
  <2>4. e = [d EXCEPT !.deferred = r, !.pendingBytes = IF @ = 0 THEN 0 ELSE @ - 1]
    BY <1>2 DEF DropDeferred
  <2> HIDE DEF p
  <2>5. /\ r \in Seq(Waiting) /\ Len(r) = Len(q) - 1
        /\ \A j \in 1..Len(q) - 1 : r[j] = q[IF j < p THEN j ELSE j + 1]
    BY <2>1, <2>2, RemoveAtLists
  <2> HIDE DEF r, e
  <2>6. /\ d.pendingBytes = Len(d.pending) + Len(q) /\ d.pendingBytes <= MaxPending
        /\ d.pendingBytes \in Nat /\ Len(d.pending) \in Nat /\ MaxPending \in Nat
    <3>1. d.pending \in Seq(FrameType) /\ d.pendingBytes \in Nat BY DEF Draft
    <3>2. Len(d.pending) \in Nat BY <3>1
    <3>3. QED BY <3>1, <3>2, CarrierAssumption DEF Counted
  <2> DEFINE N == Len(q) - 1
             b == d.pendingBytes - 1
  <2>a. Len(q) = N + 1 /\ N \in Nat /\ b \in Nat /\ d.pendingBytes # 0
        /\ b = Len(d.pending) + N /\ b <= MaxPending
    <3> HIDE DEF q
    <3>1. Len(q) >= 1 BY <2>1, <2>2
    <3>2. QED BY <2>1, <2>6, <3>1
  <2>b. /\ e.deferred = r /\ e.pendingBytes = b
        /\ e \in Draft /\ e.active = d.active /\ e.forwarded = d.forwarded
        /\ e.pending = d.pending /\ e.up = d.up /\ e.down = d.down
        /\ e.disposed = d.disposed /\ e.closeIssued = d.closeIssued
        /\ e.client = d.client /\ e.upstream = d.upstream
        /\ e.baseline = d.baseline /\ e.registered = d.registered
    <3>2. e = [d EXCEPT !.deferred = r, !.pendingBytes = b]
      <4>1. (IF d.pendingBytes = 0 THEN 0 ELSE d.pendingBytes - 1) = b BY <2>a
      <4> HIDE DEF b
      <4>2. QED BY <2>4, <4>1
    <3>3. b \in Nat BY <2>a
    <3> HIDE DEF b, N
    <3>4. QED BY <2>5, <3>3, <3>2 DEF Draft
  <2>c. Len(r) = N /\ \A j \in 1..N : r[j] = q[IF j < p THEN j ELSE j + 1]
    BY <2>5
  <2> HIDE DEF q, N, b
  <2>8. Counted(e)
    BY <2>a, <2>b, <2>c DEF Counted
  <2>9. \A j \in 1..N : \E k \in 1..Len(q) : k # p /\ r[j] = q[k]
                       /\ k = IF j < p THEN j ELSE j + 1
    <3>1. TAKE j \in 1..N
    <3>2. CASE j < p
      <4>1. j \in 1..Len(q) /\ j # p BY <2>a, <3>2
      <4>2. QED BY <2>c, <3>2, <4>1
    <3>3. CASE ~(j < p)
      <4>1. j + 1 \in 1..Len(q) /\ j + 1 # p BY <2>2, <2>a, <3>3
      <4>2. QED BY <2>c, <3>3, <4>1
    <3>4. QED BY <3>2, <3>3
  <2>10. \A i, j \in 1..N : i # j => r[i].stream # r[j].stream
    <3>1. TAKE i, j \in 1..N
    <3>2. HAVE i # j
    <3>3. PICK k \in 1..Len(q) : r[i] = q[k] /\ k = IF i < p THEN i ELSE i + 1
      BY <2>9
    <3>4. PICK l \in 1..Len(q) : r[j] = q[l] /\ l = IF j < p THEN j ELSE j + 1
      BY <2>9
    <3>5. k # l BY <2>2, <2>a, <3>2, <3>3, <3>4
    <3>6. QED BY <2>3, <3>3, <3>4, <3>5 DEF q
  <2>11. \A k \in 1..Len(q) : k # p => \E j \in 1..N : r[j] = q[k]
    <3>1. TAKE k \in 1..Len(q)
    <3>2. HAVE k # p
    <3>3. CASE k < p
      <4>1. k \in 1..N BY <2>2, <2>a, <3>3
      <4>2. QED BY <2>c, <3>3, <4>1
    <3>4. CASE p < k
      <4>1. k - 1 \in 1..N /\ ~(k - 1 < p) /\ (k - 1) + 1 = k BY <2>2, <2>a, <3>4
      <4>2. QED BY <2>c, <4>1
    <3>5. k \in Int /\ p \in Int BY <2>2
    <3>6. QED BY <3>2, <3>3, <3>4, <3>5
  <2>d. IsDeferred(d, s) /\ d.deferred = q
    BY <1>2 DEF q
  <2>12. ~IsDeferred(e, s)
    <3>1. SUFFICES ASSUME NEW j \in 1..N, r[j].stream = s PROVE FALSE
      BY <2>b, <2>c, Zenon DEF IsDeferred
    <3>2. PICK k \in 1..Len(q) : k # p /\ r[j] = q[k]
      BY <2>9
    <3>3. QED BY <2>2, <2>3, <2>d, <3>1, <3>2, Zenon
  <2>13. ASSUME NEW t, t # s PROVE IsDeferred(e, t) <=> IsDeferred(d, t)
    <3>1. IsDeferred(e, t) <=> \E j \in 1..N : r[j].stream = t
      BY <2>b, <2>c, Zenon DEF IsDeferred
    <3>2. IsDeferred(d, t) <=> \E k \in 1..Len(q) : q[k].stream = t
      BY <2>d, Zenon DEF IsDeferred
    <3>3. (\E j \in 1..N : r[j].stream = t) => \E k \in 1..Len(q) : q[k].stream = t
      BY <2>9, Zenon
    <3>4. (\E k \in 1..Len(q) : q[k].stream = t) => \E j \in 1..N : r[j].stream = t
      <4>1. SUFFICES ASSUME NEW k \in 1..Len(q), q[k].stream = t
                     PROVE \E j \in 1..N : r[j].stream = t
        BY Zenon
      <4>2. k # p BY <2>2, <2>13, <4>1
      <4>3. QED BY <2>11, <4>1, <4>2, Zenon
    <3>5. QED BY <3>1, <3>2, <3>3, <3>4
  <2>14. \A i \in 1..Len(e.deferred) : \E j \in 1..Len(d.deferred) :
           e.deferred[i] = d.deferred[j]
    BY <2>9, <2>b, <2>c, <2>d, Zenon
  <2>15. \A i, j \in 1..Len(e.deferred) :
           i # j => e.deferred[i].stream # e.deferred[j].stream
    BY <2>10, <2>b, <2>c, Zenon
  <2>16. QED BY <2>8, <2>12, <2>13, <2>14, <2>15, <2>b DEF e
<1>3. QED BY <1>1, <1>2

------------------------------------------------------------------------------
(* Forgetting, telling and queueing.                                       *)

(* The host has not heard of s.                                            *)
Unheard(d, w, s) ==
  /\ w.hostOpen[s] = 0 /\ NoFrameOf(w.hostOut, s)
  /\ NoFrameOf(d.up, s) /\ NoFrameOf(d.pending, s)

LEMMA UnheardSound ==
  ASSUME NEW d, NEW w, NEW s, NEW Y, Sound(d, w, {s}, Y), d.active[s] = NoStream,
         ~d.disposed => Unheard(d, w, s)
  PROVE  Sound(d, w, {}, Y)
<1>1. ASSUME ~d.disposed PROVE Lively(d, w, {}, Y)
  <2>1. Lively(d, w, {s}, Y) /\ Unheard(d, w, s)
    BY <1>1 DEF Sound
  <2>2. ASSUME NEW q, NoFrameOf(q, s), Upward(q, d, w, {s}) PROVE Upward(q, d, w, {})
    <3>1. \A i \in 1..Len(q) : q[i].stream # s BY <2>2 DEF NoFrameOf
    <3>2. \A i \in 1..Len(q) : Opens(q, i, d, w, {s}) => Opens(q, i, d, w, {})
      BY <3>1 DEF Opens
    <3>3. QED BY <2>2, <3>1, <3>2 DEF Upward
  <2>3. Upward(d.up, d, w, {}) /\ Upward(d.pending, d, w, {})
    BY <2>1, <2>2 DEF Lively, Unheard
  <2>4. Served(d, w, {})
    <3>1. Served(d, w, {s}) /\ w.hostOpen[s] = 0
      BY <2>1 DEF Lively, Unheard
    <3>2. QED BY <3>1 DEF Served
  <2>5. QED BY <2>1, <2>3, <2>4 DEF Lively
<1>2. QED BY <1>1 DEF Sound

(* The host has not heard of a deferred stream.                            *)
LEMMA UnheardDeferred ==
  ASSUME NEW d, NEW w, NEW s \in Stream, NEW X, NEW Y, Sound(d, w, X, Y), IsDeferred(d, s)
  PROVE  /\ ~d.disposed => Unheard(d, w, s) /\ NoFrameOf(d.down, s)
         /\ s \notin d.forwarded
<1>1. s \notin d.forwarded
  BY DEF Sound, Base, Registers
<1>2. ASSUME ~d.disposed PROVE Unheard(d, w, s) /\ NoFrameOf(d.down, s)
  <2>1. Lively(d, w, X, Y)
    BY <1>2 DEF Sound
  <2>2. w.hostOpen[s] = 0 /\ NoFrameOf(w.hostOut, s)
    BY <2>1 DEF Lively, Served, NoFrameOf
  <2>3. NoFrameOf(d.up, s) /\ NoFrameOf(d.pending, s)
    BY <2>1 DEF Lively, Upward, NoFrameOf
  <2>4. NoFrameOf(d.down, s)
    BY <2>1 DEF Lively, IsDeferred
  <2>5. QED BY <2>2, <2>3, <2>4 DEF Unheard
<1>3. QED BY <1>1, <1>2

(* Nothing more is to be said of a stream whose ending was said.           *)
LEMMA EndedSound ==
  ASSUME NEW w, SoundWorld(w), NEW s, NEW n, Names(w, n, s), NEW d, NEW X,
         Sound(d, w, X, {s}), d.active[s] = NoStream,
         ~d.disposed => n \in w.ended \cup w.cancelled \/ EndingIn(d.down, n)
  PROVE  Sound(d, w, X, {})
<1>1. ASSUME ~d.disposed PROVE Streams(d, w, {})
  <2>1. Streams(d, w, {s})
    BY <1>1 DEF Sound, Lively
  <2>2. ASSUME NEW m \in 1..Len(w.opens), w.opens[m].stream = s
        PROVE  m \in w.ended \cup w.cancelled \/ EndingIn(d.down, m)
    <3>1. m = n
      BY <2>2, OneOpening DEF Names
    <3>2. QED BY <1>1, <3>1
  <2>3. QED BY <2>1, <2>2 DEF Streams
<1>2. QED BY <1>1 DEF Sound, Lively

(* A frame joins those for the browser.                                    *)
LEMMA DownSound ==
  ASSUME NEW w, SoundWorld(w), NEW Y, NEW d, Sound(d, w, {}, Y), ~d.disposed,
         NEW g \in FrameType, Named(g, w), g.tagged <=> ~Final(g),
         ~IsDeferred(d, g.stream), Unended(d, w, g.opening),
         Final(g) => g.stream \in Y
  PROVE  LET e == [d EXCEPT !.down = Append(@, g)]
         IN  /\ Sound(e, w, {}, Y) /\ SameBooks(e, d) /\ ~e.disposed
             /\ Final(g) => EndingIn(e.down, g.opening)
<1> DEFINE e == [d EXCEPT !.down = Append(@, g)]
           r == Append(d.down, g)
           s == g.stream
<1>3. Base(d, w) /\ d \in Draft /\ Lively(d, w, {}, Y)
  BY DEF Sound, Base
<1>4. d.down \in Seq(FrameType) BY <1>3 DEF Draft
<1>5. r \in Seq(FrameType) BY <1>4
<1>6. Downward(r, w)
  BY <1>3, <1>4, DownwardAppend DEF Lively, Unended
<1>7. \A n : EndingIn(r, n) <=> EndingIn(d.down, n) \/ (Final(g) /\ g.opening = n)
  BY <1>4, EndingAppend
<1>8. /\ Len(d.down) \in Nat /\ Len(r) = Len(d.down) + 1 /\ r[Len(d.down) + 1] = g
      /\ \A i \in 1..Len(d.down) : r[i] = d.down[i]
  BY <1>4, Appended
<1> HIDE DEF r
<1>9. \A t : t # s /\ NoFrameOf(d.down, t) => NoFrameOf(r, t)
  <2>1. \A i \in 1..Len(d.down) + 1 : i = Len(d.down) + 1 \/ i \in 1..Len(d.down)
    BY <1>8
  <2>2. QED BY <1>8, <2>1 DEF NoFrameOf
<1>10. e = [d EXCEPT !.down = r]
  BY DEF r
<1> HIDE DEF e
<1>11. /\ e \in Draft /\ SameBooks(e, d) /\ e.down = r /\ e.up = d.up
       /\ e.pending = d.pending /\ e.pendingBytes = d.pendingBytes
       /\ e.disposed = d.disposed /\ e.closeIssued = d.closeIssued
       /\ e.client = d.client /\ e.upstream = d.upstream
  BY <1>3, <1>5, <1>10 DEF Draft, SameBooks
<1>12. Registers(e, w) /\ \A t : IsDeferred(e, t) <=> IsDeferred(d, t)
  BY <1>3, <1>11, SameBooksSound DEF Base
<1>13. Base(e, w)
  BY <1>3, <1>11, <1>12 DEF Base, Counted, SameBooks
<1>14. Streams(e, w, Y)
  <2>1. ASSUME NEW t \in Stream \ Y, d.active[t] # NoStream
        PROVE  ~(Final(g) /\ g.opening = d.active[t].opening)
    <3>1. Names(w, d.active[t].opening, t) BY <1>3, <2>1 DEF Base, Registers
    <3>2. Names(w, g.opening, s) BY DEF Named
    <3>3. QED BY <2>1, <3>1, <3>2 DEF Names
  <2>2. QED BY <1>3, <1>7, <1>11, <1>12, <2>1 DEF Lively, Streams, SameBooks, Unended
<1>15. Served(e, w, {})
  BY <1>3, <1>11, <1>12 DEF Lively, Served, SameBooks
<1>16. Upward(e.up, e, w, {}) /\ Upward(e.pending, e, w, {})
  BY <1>3, <1>11, <1>12 DEF Lively, Upward, Opens, SameBooks
<1>17. \A i \in 1..Len(e.deferred) : NoFrameOf(e.down, e.deferred[i].stream)
  <2>1. \A i \in 1..Len(d.deferred) : d.deferred[i].stream # s
    BY DEF IsDeferred
  <2>2. QED BY <1>3, <1>9, <1>11, <2>1 DEF Lively, SameBooks
<1>18. Reached(e, w)
  BY <1>3, <1>11 DEF Lively, Reached
<1>19. Lively(e, w, {}, Y)
  BY <1>6, <1>11, <1>14, <1>15, <1>16, <1>17, <1>18 DEF Lively
<1>20. Sound(e, w, {}, Y)
  BY <1>11, <1>13, <1>19 DEF Sound
<1>21. Final(g) => EndingIn(e.down, g.opening)
  BY <1>7, <1>11
<1>22. QED BY <1>11, <1>20, <1>21 DEF e

(* sendClientControlFrame() with the ending of a stream.                   *)
LEMMA ControlSound ==
  ASSUME NEW w, SoundWorld(w), NEW s \in Stream, NEW d, Sound(d, w, {}, {s}),
         ~IsDeferred(d, s), NEW f \in FrameType, Final(f), f.stream = s, Named(f, w),
         ~d.disposed => Unended(d, w, f.opening)
  PROVE  LET e == SendControl(d, f)
         IN  /\ Sound(e, w, {}, {s}) /\ SameBooks(e, d)
             /\ ~e.disposed => EndingIn(e.down, f.opening)
<1> DEFINE e == SendControl(d, f)
           g == Untagged(f)
<1>1. CASE d.disposed
  BY <1>1 DEF SendControl, SameBooks
<1>2. CASE ~d.disposed /\ ~(Len(d.down) < Capacity)
  <2>1. e = CloseCarrier(d) BY <1>2 DEF SendControl
  <2>2. Base(d, w) /\ d \in Draft BY DEF Sound, Base
  <2>3. e.disposed /\ SameBooks(e, d) BY <2>1, <2>2, Closing
  <2>4. QED BY <2>1, <2>2, <2>3, CloseSound
<1>3. CASE ~d.disposed /\ Len(d.down) < Capacity
  <2>1. e = [d EXCEPT !.down = Append(@, g)] BY <1>3 DEF SendControl
  <2>2. /\ g \in FrameType /\ g.stream = s /\ g.opening = f.opening /\ ~g.tagged
        /\ Final(g) /\ Named(g, w)
    BY DEF Untagged, FrameType, Final, Named
  <2> HIDE DEF g, e
  <2>3. LET h == [d EXCEPT !.down = Append(@, g)]
        IN  /\ Sound(h, w, {}, {s}) /\ SameBooks(h, d) /\ ~h.disposed
            /\ Final(g) => EndingIn(h.down, g.opening)
    BY <1>3, <2>2, DownSound
  <2>4. QED BY <2>1, <2>2, <2>3 DEF e
<1>4. QED BY <1>1, <1>2, <1>3

(* dropPendingSessionStream()                                              *)
LEMMA DropSound ==
  ASSUME NEW w, NEW s \in Stream, NEW d, NEW X, Sound(d, w, X, {s})
  PROVE  Sound(DropDeferred(d, s), w, X, {s})
<1> DEFINE e == DropDeferred(d, s)
<1>1. d \in Draft /\ Base(d, w) /\ Registers(d, w) /\ Counted(d)
  BY DEF Sound, Base
<1>2. /\ e \in Draft /\ Counted(e) /\ ~IsDeferred(e, s)
      /\ \A t : t # s => (IsDeferred(e, t) <=> IsDeferred(d, t))
      /\ \A i \in 1..Len(e.deferred) : \E j \in 1..Len(d.deferred) :
           e.deferred[i] = d.deferred[j]
      /\ \A i, j \in 1..Len(e.deferred) :
           i # j => e.deferred[i].stream # e.deferred[j].stream
      /\ e.active = d.active /\ e.forwarded = d.forwarded
      /\ e.pending = d.pending /\ e.up = d.up /\ e.down = d.down
      /\ e.disposed = d.disposed /\ e.closeIssued = d.closeIssued
      /\ e.client = d.client /\ e.upstream = d.upstream
  BY <1>1, Dropping
<1> HIDE DEF e
<1>3. \A t : IsDeferred(e, t) => IsDeferred(d, t)
  BY <1>2
<1>4. Registers(e, w)
  <2>1. /\ \A t \in Stream : e.active[t] # NoStream =>
             /\ Names(w, e.active[t].opening, t)
             /\ w.opens[e.active[t].opening].endpoint = e.active[t].endpoint
        /\ \A t \in e.forwarded : e.active[t] # NoStream /\ ~IsDeferred(e, t)
    BY <1>1, <1>2, <1>3 DEF Registers
  <2>2. ASSUME NEW i \in 1..Len(e.deferred)
        PROVE  e.active[e.deferred[i].stream] =
                 [endpoint |-> e.deferred[i].endpoint, opening |-> e.deferred[i].opening]
    <3>1. PICK j \in 1..Len(d.deferred) : e.deferred[i] = d.deferred[j] BY <1>2
    <3>2. QED BY <1>1, <1>2, <3>1 DEF Registers
  <2>3. QED BY <1>2, <2>1, <2>2 DEF Registers
<1>5. ASSUME ~d.disposed PROVE Lively(e, w, X, {s})
  <2>1. Lively(d, w, X, {s}) BY <1>5 DEF Sound
  <2>2. Streams(e, w, {s}) BY <1>2, <2>1 DEF Lively, Streams, Unended
  <2>3. Served(e, w, X) BY <1>2, <1>3, <2>1 DEF Lively, Served
  <2>4. Upward(e.up, e, w, X) /\ Upward(e.pending, e, w, X)
    BY <1>2, <1>3, <2>1 DEF Lively, Upward, Opens
  <2>5. Reached(e, w) /\ Downward(e.down, w)
    BY <1>2, <2>1 DEF Lively, Reached
  <2>6. \A i \in 1..Len(e.deferred) : NoFrameOf(e.down, e.deferred[i].stream)
    BY <1>2, <2>1 DEF Lively
  <2>7. QED BY <2>2, <2>3, <2>4, <2>5, <2>6 DEF Lively
<1>6. Sound(e, w, X, {s})
  BY <1>1, <1>2, <1>4, <1>5 DEF Sound, Base
<1>7. QED BY <1>6 DEF e

(* s is no longer registered, and perhaps its frames are withdrawn.        *)
LEMMA LettingGo ==
  ASSUME NEW w, SoundWorld(w), NEW s \in Stream, NEW d, Sound(d, w, {s}, {s}),
         ~IsDeferred(d, s),
         NEW e \in Draft, e.active = [d.active EXCEPT ![s] = NoStream],
         e.forwarded = d.forwarded \ {s}, e.deferred = d.deferred,
         e.up \in {d.up, WithoutUnsent(d.up, s)},
         e.down \in {d.down, WithoutUnsent(d.down, s)},
         e.pending = d.pending, e.pendingBytes = d.pendingBytes,
         e.disposed = d.disposed, e.closeIssued = d.closeIssued,
         e.client = d.client, e.upstream = d.upstream
  PROVE  /\ Sound(e, w, {s}, {s})
         /\ ~d.disposed => \A n : EndingIn(e.down, n) <=> EndingIn(d.down, n)
<1>1. d \in Draft /\ Base(d, w) /\ Registers(d, w) /\ Counted(d)
  BY DEF Sound, Base
<1>2. /\ d.active \in [Stream -> OpenStream \cup {NoStream}]
      /\ d.up \in Seq(FrameType) /\ d.down \in Seq(FrameType)
      /\ d.pending \in Seq(FrameType)
  BY <1>1 DEF Draft
<1>3. e.active[s] = NoStream /\ \A t \in Stream \ {s} : e.active[t] = d.active[t]
  BY <1>2
<1>4. \A t : IsDeferred(e, t) <=> IsDeferred(d, t)
  BY DEF IsDeferred
<1>5. Registers(e, w)
  <2>1. \A i \in 1..Len(d.deferred) : d.deferred[i].stream \in Stream \ {s}
    <3>1. d.deferred \in Seq(Waiting) BY <1>1 DEF Draft
    <3>2. ASSUME NEW i \in 1..Len(d.deferred) PROVE d.deferred[i].stream \in Stream
      <4>1. d.deferred[i] \in Waiting BY <3>1
      <4>2. QED BY <4>1 DEF Waiting
    <3>3. QED BY <3>2 DEF IsDeferred
  <2>2. d.forwarded \subseteq Stream BY <1>1 DEF Draft
  <2>3. \A t \in Stream : e.active[t] # NoStream => t # s /\ e.active[t] = d.active[t]
    BY <1>3
  <2>4. \A t \in e.forwarded : e.active[t] # NoStream /\ ~IsDeferred(e, t)
    BY <1>1, <1>3, <1>4, <2>2 DEF Registers
  <2>5. \A t \in Stream : e.active[t] # NoStream =>
          /\ Names(w, e.active[t].opening, t)
          /\ w.opens[e.active[t].opening].endpoint = e.active[t].endpoint
    BY <1>1, <2>3 DEF Registers
  <2>6. QED BY <1>1, <1>3, <2>1, <2>4, <2>5 DEF Registers
<1>6. ASSUME ~d.disposed
      PROVE  Lively(e, w, {s}, {s}) /\ \A n : EndingIn(e.down, n) <=> EndingIn(d.down, n)
  <2>1. Lively(d, w, {s}, {s}) BY <1>6 DEF Sound
  <2>2. Downward(e.down, w) /\ \A n : EndingIn(e.down, n) <=> EndingIn(d.down, n)
    <3>1. Downward(d.down, w) BY <2>1 DEF Lively
    <3>2. /\ Downward(WithoutUnsent(d.down, s), w)
          /\ \A n : EndingIn(WithoutUnsent(d.down, s), n) <=> EndingIn(d.down, n)
      BY <1>2, <3>1, UnsentDownward
    <3>3. CASE e.down = d.down
      BY <3>1, <3>3
    <3>4. CASE e.down = WithoutUnsent(d.down, s)
      BY <3>2, <3>4, Zenon
    <3>5. QED BY <3>3, <3>4
  <2>3. ASSUME NEW q \in Seq(FrameType), Upward(q, d, w, {s}) PROVE Upward(q, e, w, {s})
    <3>1. \A i \in 1..Len(q) : q[i].stream \in Stream
      <4>1. \A i \in 1..Len(q) : q[i] \in FrameType OBVIOUS
      <4>2. QED BY <4>1 DEF FrameType
    <3>2. QED BY <1>3, <1>4, <2>3 DEF Upward, Opens
  <2>4. Upward(e.pending, e, w, {s})
    BY <1>2, <2>1, <2>3 DEF Lively
  <2>5. Upward(e.up, e, w, {s})
    <3>1. CASE e.up = d.up
      BY <1>2, <2>1, <2>3, <3>1 DEF Lively
    <3>2. CASE e.up = WithoutUnsent(d.up, s)
      <4>1. Upward(d.up, d, w, {s}) BY <2>1 DEF Lively
      <4>2. \A t \in Stream \ {s} : e.active[t] = d.active[t]
        BY <1>3
      <4>3. d.forwarded \subseteq e.forwarded \cup {s}
        OBVIOUS
      <4>4. Upward(WithoutUnsent(d.up, s), e, w, {s})
        BY <1>2, <1>4, <4>1, <4>2, <4>3, UnsentUpward
      <4>5. QED BY <3>2, <4>4
    <3>3. QED BY <3>1, <3>2
  <2>6. \A t : t # s /\ CancelIn(d.up, t) => CancelIn(e.up, t)
    BY <1>2, UnsentCancel
  <2>7. d.up = <<>> => e.up = <<>>
    <3>1. CASE e.up = WithoutUnsent(d.up, s)
      BY <1>2, <3>1, UnsentSilence
    <3>2. QED BY <3>1
  <2>8. Reached(e, w)
    BY <2>1, <2>7 DEF Lively, Reached
  <2>9. Streams(e, w, {s})
    <3>1. \A n \in 1..Len(w.opens) : w.opens[n].stream # s =>
            e.active[w.opens[n].stream] = d.active[w.opens[n].stream]
      <4>1. \A n \in 1..Len(w.opens) : w.opens[n].stream \in Stream
        <5>1. \A n \in 1..Len(w.opens) :
                w.opens[n] \in [stream : Stream, endpoint : Endpoint]
          <6>1. w.opens \in Seq([stream : Stream, endpoint : Endpoint]) BY DEF SoundWorld
          <6>2. QED BY <6>1, Elements
        <5>2. QED BY <5>1
      <4>2. QED BY <1>3, <4>1
    <3>2. \A t \in Stream \ {s} : t \in d.forwarded => t \in e.forwarded
      OBVIOUS
    <3>3. Streams(d, w, {s}) BY <2>1 DEF Lively
    <3>4. \A t \in Stream \ {s} : e.active[t] # NoStream =>
            /\ t \in e.forwarded \/ IsDeferred(e, t)
            /\ Unended(e, w, e.active[t].opening)
      BY <1>3, <1>4, <2>2, <3>2, <3>3 DEF Streams, Unended
    <3>5. QED BY <2>2, <3>1, <3>3, <3>4 DEF Streams
  <2>10. Served(e, w, {s})
    BY <1>4, <2>1, <2>6 DEF Lively, Served
  <2>11. \A i \in 1..Len(e.deferred) : NoFrameOf(e.down, e.deferred[i].stream)
    <3>1. \A t : NoFrameOf(d.down, t) => NoFrameOf(e.down, t)
      <4>1. CASE e.down = WithoutUnsent(d.down, s)
        BY <1>2, <4>1, UnsentSilence
      <4>2. QED BY <4>1
    <3>2. QED BY <2>1, <3>1 DEF Lively
  <2>12. QED BY <2>2, <2>4, <2>5, <2>8, <2>9, <2>10, <2>11 DEF Lively
<1>7. d.disposed => e.up = <<>> /\ e.down = <<>>
  BY <1>2, UnsentFrames DEF Sound
<1>8. Base(e, w)
  BY <1>1, <1>5 DEF Base, Counted
<1>9. QED BY <1>6, <1>7, <1>8 DEF Sound

LEMMA ForgetSound ==
  ASSUME NEW w, SoundWorld(w), NEW s \in Stream, NEW d, Sound(d, w, {}, {s})
  PROVE  LET e == Forgotten(d, s)
         IN  /\ Sound(e, w, {s}, {s}) /\ e.disposed = d.disposed
             /\ e.active = [d.active EXCEPT ![s] = NoStream]
             /\ e.forwarded = d.forwarded \ {s}
             /\ \A t : IsDeferred(e, t) <=> t # s /\ IsDeferred(d, t)
             /\ e.baseline = d.baseline /\ e.upstream = d.upstream
             /\ ~d.disposed => \A n : EndingIn(e.down, n) <=> EndingIn(d.down, n)
             /\ ~d.disposed /\ Unheard(d, w, s) => Unheard(e, w, s)
<1> DEFINE e == Forgotten(d, s)
           g == DropDeferred(d, s)
<1>1. Sound(g, w, {s}, {s})
  <2>1. Sound(g, w, {}, {s}) BY DropSound
  <2> HIDE DEF g
  <2>2. QED BY <2>1, Excused
<1>2. /\ g \in Draft /\ ~IsDeferred(g, s)
      /\ \A t : t # s => (IsDeferred(g, t) <=> IsDeferred(d, t))
      /\ g.active = d.active /\ g.forwarded = d.forwarded
      /\ g.pending = d.pending /\ g.up = d.up /\ g.down = d.down
      /\ g.disposed = d.disposed /\ g.upstream = d.upstream /\ g.baseline = d.baseline
  <2>1. d \in Draft /\ Registers(d, w) /\ Counted(d) BY DEF Sound, Base
  <2>2. QED BY <2>1, Dropping
<1>3. e = [g EXCEPT !.active[s] = NoStream, !.up = WithoutUnsent(@, s),
                    !.down = WithoutUnsent(@, s), !.forwarded = @ \ {s}]
  BY DEF Forgotten
<1> HIDE DEF g, e
<1>4. WithoutUnsent(g.up, s) \in Seq(FrameType) /\ WithoutUnsent(g.down, s) \in Seq(FrameType)
  <2>1. g.up \in Seq(FrameType) /\ g.down \in Seq(FrameType) BY <1>2 DEF Draft
  <2>2. QED BY <2>1, UnsentFrames
<1>5. /\ e \in Draft /\ e.active = [g.active EXCEPT ![s] = NoStream]
      /\ e.forwarded = g.forwarded \ {s} /\ e.deferred = g.deferred
      /\ e.up = WithoutUnsent(g.up, s) /\ e.down = WithoutUnsent(g.down, s)
      /\ e.pending = g.pending /\ e.pendingBytes = g.pendingBytes
      /\ e.disposed = g.disposed /\ e.closeIssued = g.closeIssued
      /\ e.client = g.client /\ e.upstream = g.upstream /\ e.baseline = g.baseline
  <2>1. [g.active EXCEPT ![s] = NoStream] \in [Stream -> OpenStream \cup {NoStream}]
    BY <1>2 DEF Draft
  <2>2. QED BY <1>2, <1>3, <1>4, <2>1 DEF Draft
<1>6. /\ Sound(e, w, {s}, {s})
      /\ ~g.disposed => \A n : EndingIn(e.down, n) <=> EndingIn(g.down, n)
  BY <1>1, <1>2, <1>5, LettingGo
<1>7. \A t : IsDeferred(e, t) <=> t # s /\ IsDeferred(d, t)
  <2>1. \A t : IsDeferred(e, t) <=> IsDeferred(g, t) BY <1>5 DEF IsDeferred
  <2>2. QED BY <1>2, <2>1
<1>8. ~d.disposed /\ Unheard(d, w, s) => Unheard(e, w, s)
  <2>1. g.up \in Seq(FrameType) BY <1>2 DEF Draft
  <2>2. NoFrameOf(d.up, s) => NoFrameOf(e.up, s)
    BY <1>2, <1>5, <2>1, UnsentSilence
  <2>3. QED BY <1>2, <1>5, <2>2 DEF Unheard
<1>9. QED BY <1>2, <1>5, <1>6, <1>7, <1>8 DEF e

(* queueUpstreamFrame(): with f in the queue nothing but X1 is excused.    *)
LEMMA QueueCore ==
  ASSUME NEW w, NEW d, NEW X, NEW Y, NEW X1, Sound(d, w, X, Y), NEW f \in FrameType,
         ~d.disposed =>
           /\ Upward(Append(d.up, f), d, w, X1) /\ Upward(Append(d.pending, f), d, w, X1)
           /\ \A t \in Stream : w.hostOpen[t] # 0 =>
                t \in d.forwarded \cup X1 \/ CancelIn(Append(d.up, f), t)
  PROVE  LET e == QueueUp(d, f)
         IN  /\ Sound(e, w, X1, Y) /\ SameBooks(e, d)
             /\ ~e.disposed => ~d.disposed /\ UpstreamTakes(d) /\ e.down = d.down
<1> DEFINE e == QueueUp(d, f)
<1>1. d \in Draft /\ Base(d, w) /\ Registers(d, w) /\ Counted(d)
  BY DEF Sound, Base
<1>2. d.up \in Seq(FrameType) /\ d.pending \in Seq(FrameType) /\ d.pendingBytes \in Nat
  BY <1>1 DEF Draft
<1>3. CASE ~UpstreamTakes(d) /\ Connected(d) /\ d.disposed
  <2>1. e = d BY <1>3 DEF QueueUp
  <2>2. QED BY <1>3, <2>1 DEF Sound, SameBooks
<1>4. CASE ~UpstreamTakes(d) /\ ~(Connected(d) /\ d.disposed)
  <2>1. e = CloseCarrier(d) BY <1>4 DEF QueueUp
  <2>2. e.disposed /\ SameBooks(e, d) BY <1>1, <2>1, Closing
  <2>3. QED BY <1>1, <2>1, <2>2, CloseSound
<1>5. CASE UpstreamTakes(d) /\ Connected(d)
  <2> DEFINE r == Append(d.up, f)
  <2>1. e = [d EXCEPT !.up = r] BY <1>5 DEF QueueUp
  <2>2. ~d.disposed /\ d.upstream = "open" BY <1>5 DEF UpstreamTakes, Connected
  <2>3. r \in Seq(FrameType) BY <1>2
  <2>4. Upward(r, d, w, X1) BY <2>2
  <2>5. \A t \in Stream : w.hostOpen[t] # 0 => t \in d.forwarded \cup X1 \/ CancelIn(r, t)
    BY <2>2
  <2>6. Lively(d, w, X, Y) /\ d.pending = <<>>
    BY <2>2 DEF Sound, Lively, Reached
  <2> HIDE DEF r, e
  <2>7. /\ e \in Draft /\ SameBooks(e, d) /\ e.up = r /\ e.down = d.down
        /\ e.pending = d.pending /\ e.pendingBytes = d.pendingBytes
        /\ e.disposed = d.disposed /\ e.closeIssued = d.closeIssued
        /\ e.client = d.client /\ e.upstream = d.upstream
    BY <1>1, <2>1, <2>3 DEF Draft, SameBooks
  <2>8. Registers(e, w) /\ \A t : IsDeferred(e, t) <=> IsDeferred(d, t)
    BY <1>1, <2>7, SameBooksSound
  <2>9. Served(e, w, X1)
    BY <2>5, <2>6, <2>7, <2>8 DEF Lively, Served, SameBooks
  <2>10. Upward(e.up, e, w, X1)
    BY <2>4, <2>7, <2>8 DEF Upward, Opens, SameBooks
  <2>11. Upward(e.pending, e, w, X1)
    <3>1. \A i \in 1..Len(e.pending) : FALSE
      BY <2>6, <2>7
    <3>2. QED BY <3>1 DEF Upward
  <2>12. Streams(e, w, Y) /\ Downward(e.down, w) /\ Reached(e, w)
    BY <2>2, <2>6, <2>7, <2>8 DEF Lively, Streams, Unended, Reached, SameBooks
  <2>13. \A i \in 1..Len(e.deferred) : NoFrameOf(e.down, e.deferred[i].stream)
    BY <2>6, <2>7 DEF Lively, SameBooks
  <2>14. Lively(e, w, X1, Y)
    BY <2>9, <2>10, <2>11, <2>12, <2>13 DEF Lively
  <2>15. Sound(e, w, X1, Y)
    BY <1>1, <2>2, <2>7, <2>8, <2>14 DEF Sound, Base, Counted, SameBooks
  <2>16. QED BY <1>5, <2>2, <2>7, <2>15 DEF e
<1>6. CASE UpstreamTakes(d) /\ ~Connected(d)
  <2> DEFINE r == Append(d.pending, f)
             b == d.pendingBytes + 1
  <2>1. e = [d EXCEPT !.pending = r, !.pendingBytes = b] BY <1>6 DEF QueueUp
  <2>2. b <= MaxPending /\ d.upstream # "open"
    BY <1>6 DEF UpstreamTakes, Connected
  <2>3. r \in Seq(FrameType) /\ b \in Nat /\ Len(r) = Len(d.pending) + 1
        /\ Len(d.pending) \in Nat
    BY <1>2
  <2>4. b = Len(r) + Len(d.deferred)
    <3>1. d.deferred \in Seq(Waiting) BY <1>1 DEF Draft
    <3>2. Len(d.deferred) \in Nat BY <3>1
    <3>3. d.pendingBytes = Len(d.pending) + Len(d.deferred) BY <1>1 DEF Counted
    <3>4. b = (Len(d.pending) + Len(d.deferred)) + 1 BY <3>3
    <3>5. Len(r) = Len(d.pending) + 1 /\ Len(d.pending) \in Nat BY <2>3
    <3> DEFINE m == Len(d.pending)
               k == Len(d.deferred)
               l == Len(r)
    <3>6. b = (m + k) + 1 /\ l = m + 1 /\ m \in Nat /\ k \in Nat
      BY <3>2, <3>4, <3>5
    <3> HIDE DEF r, b, m, k, l
    <3>7. b = l + k
      BY <3>6
    <3>8. QED BY <3>7 DEF k, l
  <2>5. ~d.disposed => Upward(r, d, w, X1)
    OBVIOUS
  <2> HIDE DEF r, e, b
  <2>7. /\ e \in Draft /\ SameBooks(e, d) /\ e.pending = r /\ e.pendingBytes = b
        /\ e.up = d.up /\ e.down = d.down
        /\ e.disposed = d.disposed /\ e.closeIssued = d.closeIssued
        /\ e.client = d.client /\ e.upstream = d.upstream
    BY <1>1, <2>1, <2>3 DEF Draft, SameBooks
  <2>8. Registers(e, w) /\ \A t : IsDeferred(e, t) <=> IsDeferred(d, t)
    BY <1>1, <2>7, SameBooksSound
  <2>9. ASSUME ~d.disposed PROVE Lively(e, w, X1, Y)
    <3>1. Lively(d, w, X, Y)
      BY <2>9 DEF Sound
    <3>2. d.up = <<>> /\ w.hostOut = <<>> /\ \A t \in Stream : w.hostOpen[t] = 0
      BY <2>2, <3>1 DEF Lively, Reached
    <3>3. Upward(e.pending, e, w, X1)
      BY <2>5, <2>7, <2>8, <2>9 DEF Upward, Opens, SameBooks
    <3>4. Upward(e.up, e, w, X1)
      <4>1. \A i \in 1..Len(e.up) : FALSE
        BY <2>7, <3>2
      <4>2. QED BY <4>1 DEF Upward
    <3>5. Served(e, w, X1)
      BY <2>8, <3>1, <3>2 DEF Lively, Served
    <3>6. Streams(e, w, Y) /\ Downward(e.down, w) /\ Reached(e, w)
      BY <2>2, <2>7, <2>8, <3>1, <3>2 DEF Lively, Streams, Unended, Reached, SameBooks
    <3>7. \A i \in 1..Len(e.deferred) : NoFrameOf(e.down, e.deferred[i].stream)
      BY <2>7, <3>1 DEF Lively, SameBooks
    <3>8. QED BY <3>3, <3>4, <3>5, <3>6, <3>7 DEF Lively
  <2>10. Counted(e)
    BY <2>2, <2>4, <2>7 DEF Counted, SameBooks
  <2>11. Sound(e, w, X1, Y)
    BY <1>1, <2>7, <2>8, <2>9, <2>10 DEF Sound, Base
  <2>12. QED BY <1>6, <2>7, <2>11 DEF e
<1>7. QED BY <1>3, <1>4, <1>5, <1>6

LEMMA QueueUpSound ==
  ASSUME NEW w, NEW d, NEW X, NEW Y, Sound(d, w, X, Y), NEW f \in FrameType,
         Named(f, w), ~IsDeferred(d, f.stream),
         f.kind = "cancel" => d.active[f.stream] = NoStream \/ f.stream \in X,
         ~d.disposed /\ f.kind = "open" =>
           /\ Unheard(d, w, f.stream) /\ f.stream \in d.forwarded \cup X
           /\ MayBeTold(w, f.opening)
  PROVE  LET e == QueueUp(d, f)
         IN  /\ Sound(e, w, X, Y) /\ SameBooks(e, d)
             /\ ~e.disposed => ~d.disposed /\ UpstreamTakes(d) /\ e.down = d.down
<1>1. d.up \in Seq(FrameType) /\ d.pending \in Seq(FrameType)
  BY DEF Sound, Base, Draft
<1>2. ASSUME ~d.disposed
      PROVE  /\ Upward(Append(d.up, f), d, w, X) /\ Upward(Append(d.pending, f), d, w, X)
             /\ \A t \in Stream : w.hostOpen[t] # 0 =>
                  t \in d.forwarded \cup X \/ CancelIn(Append(d.up, f), t)
  <2>1. Lively(d, w, X, Y) BY <1>2 DEF Sound
  <2>2. Upward(Append(d.up, f), d, w, X)
    BY <1>1, <1>2, <2>1, UpwardAppend DEF Lively, Unheard
  <2>3. Upward(Append(d.pending, f), d, w, X)
    BY <1>1, <1>2, <2>1, UpwardAppend DEF Lively, Unheard
  <2>4. \A t \in Stream : w.hostOpen[t] # 0 => t \in d.forwarded \cup X \/ CancelIn(d.up, t)
    BY <2>1 DEF Lively, Served
  <2>5. \A t : CancelIn(d.up, t) => CancelIn(Append(d.up, f), t)
    BY <1>1, CancelAppend
  <2>6. QED BY <2>2, <2>3, <2>4, <2>5
<1>3. QED BY <1>2, QueueCore

(* A cancel settles what the host did not know of s.                       *)
LEMMA QueueCancelSound ==
  ASSUME NEW w, NEW s, NEW d, NEW Y, Sound(d, w, {s}, Y), NEW f \in FrameType,
         Named(f, w), f.kind = "cancel", f.stream = s, ~IsDeferred(d, s),
         d.active[s] = NoStream
  PROVE  LET e == QueueUp(d, f)
         IN  /\ Sound(e, w, {}, Y) /\ SameBooks(e, d)
             /\ ~e.disposed => ~d.disposed /\ UpstreamTakes(d) /\ e.down = d.down
<1>1. d.up \in Seq(FrameType) /\ d.pending \in Seq(FrameType)
  BY DEF Sound, Base, Draft
<1>2. ASSUME ~d.disposed
      PROVE  /\ Upward(Append(d.up, f), d, w, {}) /\ Upward(Append(d.pending, f), d, w, {})
             /\ \A t \in Stream : w.hostOpen[t] # 0 =>
                  t \in d.forwarded \cup {} \/ CancelIn(Append(d.up, f), t)
  <2>1. Lively(d, w, {s}, Y) BY <1>2 DEF Sound
  <2>2. Upward(Append(d.up, f), d, w, {}) /\ CancelIn(Append(d.up, f), s)
    BY <1>1, <2>1, UpwardCancel DEF Lively
  <2>3. Upward(Append(d.pending, f), d, w, {})
    BY <1>1, <2>1, UpwardCancel DEF Lively
  <2>4. \A t \in Stream : w.hostOpen[t] # 0 => t \in d.forwarded \cup {s} \/ CancelIn(d.up, t)
    BY <2>1 DEF Lively, Served
  <2>5. \A t : CancelIn(d.up, t) => CancelIn(Append(d.up, f), t)
    BY <1>1, CancelAppend
  <2>6. QED BY <2>2, <2>3, <2>4, <2>5
<1>3. QED BY <1>2, QueueCore

LEMMA Frames ==
  ASSUME NEW s \in Stream, NEW n \in Opening,
         NEW kind \in {"open", "item", "end", "cancel", "error", "baseline"}
  PROVE  LET f == Frame(kind, s, n)
         IN  /\ f \in FrameType /\ f.kind = kind /\ f.stream = s /\ f.opening = n
             /\ f.tagged
BY DEF Frame, FrameType

(* rejectLogicalStream() of a stream the host has not heard of unless it   *)
(* was forwarded.                                                          *)
LEMMA RejectSound ==
  ASSUME NEW w, SoundWorld(w), NEW s \in Stream, NEW n, Names(w, n, s),
         NEW d, Sound(d, w, {}, {s}),
         ~d.disposed => Unended(d, w, n) /\ (s \in d.forwarded \/ Unheard(d, w, s))
  PROVE  LET e == Reject(d, s, n)
         IN  /\ Sound(e, w, {}, {}) /\ e.baseline = d.baseline
             /\ e.active = [d.active EXCEPT ![s] = NoStream]
             /\ e.forwarded = d.forwarded \ {s}
             /\ \A t : IsDeferred(e, t) <=> t # s /\ IsDeferred(d, t)
<1> DEFINE g == Forgotten(d, s)
           c == Frame("cancel", s, n)
           told == IF s \in d.forwarded THEN QueueUp(g, c) ELSE g
           x == Frame("error", s, n)
           e == SendControl(told, x)
<1>1. Reject(d, s, n) = e
  BY DEF Reject
<1>2. /\ Sound(g, w, {s}, {s}) /\ g.disposed = d.disposed
      /\ g.active = [d.active EXCEPT ![s] = NoStream]
      /\ g.forwarded = d.forwarded \ {s}
      /\ \A t : IsDeferred(g, t) <=> t # s /\ IsDeferred(d, t)
      /\ g.baseline = d.baseline
      /\ ~d.disposed => \A m : EndingIn(g.down, m) <=> EndingIn(d.down, m)
      /\ ~d.disposed /\ Unheard(d, w, s) => Unheard(g, w, s)
  BY ForgetSound
<1>3. n \in Opening
  BY NamedOpening
<1>4. /\ c \in FrameType /\ c.kind = "cancel" /\ c.stream = s /\ c.opening = n
      /\ x \in FrameType /\ x.kind = "error" /\ x.stream = s /\ x.opening = n
  BY <1>3, Frames
<1> HIDE DEF g, c, x
<1>5. Named(c, w) /\ Named(x, w) /\ Final(x)
  BY <1>4 DEF Named, Final
<1>6. g.active[s] = NoStream /\ ~IsDeferred(g, s)
  <2>1. d.active \in [Stream -> OpenStream \cup {NoStream}]
    BY DEF Sound, Base, Draft
  <2>2. QED BY <1>2, <2>1
<1>7. /\ Sound(told, w, {}, {s}) /\ SameBooks(told, g)
      /\ ~told.disposed => ~g.disposed /\ told.down = g.down
  <2>1. CASE s \in d.forwarded
    <3>1. told = QueueUp(g, c) BY <2>1
    <3>2. /\ Sound(QueueUp(g, c), w, {}, {s}) /\ SameBooks(QueueUp(g, c), g)
          /\ ~QueueUp(g, c).disposed =>
               ~g.disposed /\ UpstreamTakes(g) /\ QueueUp(g, c).down = g.down
      <4>1. Sound(g, w, {s}, {s}) BY <1>2
      <4>2. c \in FrameType /\ c.kind = "cancel" /\ c.stream = s BY <1>4
      <4>3. Named(c, w) BY <1>5
      <4>4. ~IsDeferred(g, s) /\ g.active[s] = NoStream BY <1>6
      <4> HIDE DEF told
      <4>5. QED BY <4>1, <4>2, <4>3, <4>4, QueueCancelSound
    <3>3. QED BY <3>1, <3>2
  <2>2. CASE s \notin d.forwarded
    <3>1. told = g BY <2>2
    <3>2. ~g.disposed => Unheard(g, w, s)
      BY <1>2, <2>2
    <3>3. Sound(g, w, {}, {s})
      BY <1>2, <1>6, <3>2, UnheardSound
    <3>4. QED BY <3>1, <3>3 DEF SameBooks
  <2>3. QED BY <2>1, <2>2
<1> HIDE DEF told
<1>8. ~told.disposed => Unended(told, w, x.opening)
  BY <1>2, <1>4, <1>7 DEF Unended
<1>9. told.active[s] = NoStream /\ ~IsDeferred(told, s)
  BY <1>6, <1>7 DEF SameBooks, IsDeferred
<1>10. /\ Sound(e, w, {}, {s}) /\ SameBooks(e, told)
       /\ ~e.disposed => EndingIn(e.down, x.opening)
  BY <1>4, <1>5, <1>7, <1>8, <1>9, ControlSound
<1> HIDE DEF e
<1>11. SameBooks(e, g)
  BY <1>7, <1>10 DEF SameBooks
<1>12. Sound(e, w, {}, {})
  <2>1. e.active[s] = NoStream BY <1>6, <1>11 DEF SameBooks
  <2>2. ~e.disposed => EndingIn(e.down, n) BY <1>4, <1>10
  <2>3. QED BY <1>10, <2>1, <2>2, EndedSound
<1>13. \A t : IsDeferred(e, t) <=> IsDeferred(g, t)
  BY <1>11 DEF SameBooks, IsDeferred
<1>14. QED BY <1>1, <1>2, <1>11, <1>12, <1>13 DEF SameBooks

(* sendClientItemFrame() on a stream that is registered and forwarded.     *)
LEMMA ItemSound ==
  ASSUME NEW w, SoundWorld(w), NEW s \in Stream, NEW n, NEW d, Sound(d, w, {}, {}),
         d.active[s] # NoStream, d.active[s].opening = n, s \in d.forwarded
  PROVE  Sound(SendItem(d, s, n), w, {}, {})
<1> DEFINE f == Frame("item", s, n)
<1>1. Names(w, n, s) /\ ~IsDeferred(d, s)
  BY DEF Sound, Base, Registers
<1>2. n \in Opening
  BY <1>1, NamedOpening
<1>3. f \in FrameType /\ f.kind = "item" /\ f.stream = s /\ f.opening = n /\ f.tagged
  BY <1>2, Frames
<1> HIDE DEF f
<1>4. ~Final(f) /\ Named(f, w)
  BY <1>1, <1>3 DEF Final, Named
<1>5. ~d.disposed => Unended(d, w, n)
  BY DEF Sound, Lively, Streams
<1>6. CASE d.disposed
  BY <1>6 DEF SendItem
<1>7. CASE ~d.disposed /\ ClientTakes(d)
  <2>1. SendItem(d, s, n) = [d EXCEPT !.down = Append(@, f)]
    BY <1>7 DEF SendItem, f
  <2>2. Sound([d EXCEPT !.down = Append(@, f)], w, {}, {})
    BY <1>1, <1>3, <1>4, <1>5, <1>7, DownSound
  <2>3. QED BY <2>1, <2>2
<1>8. CASE ~d.disposed /\ ~ClientTakes(d)
  <2>1. SendItem(d, s, n) = Reject(d, s, n)
    BY <1>8 DEF SendItem
  <2>2. Sound(d, w, {}, {s})
    BY Excused
  <2> DEFINE e == Reject(d, s, n)
  <2>3. /\ Sound(e, w, {}, {}) /\ e.baseline = d.baseline
        /\ e.active = [d.active EXCEPT ![s] = NoStream]
        /\ e.forwarded = d.forwarded \ {s}
        /\ \A t : IsDeferred(e, t) <=> t # s /\ IsDeferred(d, t)
    BY <1>1, <1>5, <2>2, RejectSound
  <2>4. QED BY <2>1, <2>3
<1>9. QED BY <1>6, <1>7, <1>8

(* queueUpstreamFrame(.., 'item') on a stream that was forwarded.          *)
LEMMA ItemUpSound ==
  ASSUME NEW w, SoundWorld(w), NEW s \in Stream, NEW n, NEW d, Sound(d, w, {}, {}),
         d.active[s] # NoStream, d.active[s].opening = n, s \in d.forwarded
  PROVE  Sound(QueueUpItem(d, s, n), w, {}, {})
<1> DEFINE f == Frame("item", s, n)
<1>1. Names(w, n, s) /\ ~IsDeferred(d, s)
  BY DEF Sound, Base, Registers
<1>2. n \in Opening
  BY <1>1, NamedOpening
<1>3. f \in FrameType /\ f.kind = "item" /\ f.stream = s /\ f.opening = n
  BY <1>2, Frames
<1>4. QueueUpItem(d, s, n) =
        IF Connected(d) /\ ~d.disposed /\ ~UpstreamTakes(d) THEN Reject(d, s, n)
        ELSE QueueUp(d, f)
  BY DEF QueueUpItem
<1> HIDE DEF f
<1>5. CASE Connected(d) /\ ~d.disposed /\ ~UpstreamTakes(d)
  <2>1. ~d.disposed => Unended(d, w, n)
    BY DEF Sound, Lively, Streams
  <2>2. Sound(d, w, {}, {s})
    BY Excused
  <2> DEFINE e == Reject(d, s, n)
  <2>3. /\ Sound(e, w, {}, {}) /\ e.baseline = d.baseline
        /\ e.active = [d.active EXCEPT ![s] = NoStream]
        /\ e.forwarded = d.forwarded \ {s}
        /\ \A t : IsDeferred(e, t) <=> t # s /\ IsDeferred(d, t)
    BY <1>1, <2>1, <2>2, RejectSound
  <2>4. QueueUpItem(d, s, n) = e BY <1>4, <1>5
  <2> HIDE DEF e
  <2>5. QED BY <2>3, <2>4
<1>6. Sound(QueueUp(d, f), w, {}, {})
  <2>1. Named(f, w) /\ ~IsDeferred(d, f.stream) BY <1>1, <1>3 DEF Named
  <2>2. f.kind # "open" /\ f.kind # "cancel" BY <1>3
  <2>3. QED BY <1>3, <2>1, <2>2, QueueUpSound
<1>7. QED BY <1>4, <1>5, <1>6

(* A stream the host has not heard of is forwarded, or the carrier closes. *)
LEMMA ForwardOpenSound ==
  ASSUME NEW w, SoundWorld(w), NEW s \in Stream, NEW n, Names(w, n, s),
         NEW d, Sound(d, w, {}, {s}), d.active[s] # NoStream, d.active[s].opening = n,
         ~IsDeferred(d, s),
         ~d.disposed => Unheard(d, w, s) /\ Unended(d, w, n) /\ MayBeTold(w, n)
  PROVE  LET e == ForwardOpen(d, s, n)
         IN  /\ Sound(e, w, {}, {}) /\ e.active = d.active
             /\ e.deferred = d.deferred /\ e.baseline = d.baseline
<1> DEFINE f == Frame("open", s, n)
           g == QueueUp(d, f)
           h == [d EXCEPT !.forwarded = @ \cup {s}]
           e == ForwardOpen(d, s, n)
<1>1. n \in Opening
  BY NamedOpening
<1>2. f \in FrameType /\ f.kind = "open" /\ f.stream = s /\ f.opening = n
  BY <1>1, Frames
<1>3. e = IF UpstreamTakes(d) THEN [g EXCEPT !.forwarded = @ \cup {s}] ELSE g
  BY DEF ForwardOpen
<1> HIDE DEF f
<1>4. Named(f, w) /\ f.kind # "cancel" BY <1>2 DEF Named
<1>5. CASE ~UpstreamTakes(d)
  <2>1. /\ Sound(g, w, {s}, {s}) /\ SameBooks(g, d)
        /\ ~g.disposed => ~d.disposed /\ UpstreamTakes(d) /\ g.down = d.down
    <3>1. Sound(d, w, {s}, {s}) BY Excused
    <3>2. f.stream \in d.forwarded \cup {s} BY <1>2
    <3>3. ~d.disposed => Unheard(d, w, f.stream) /\ MayBeTold(w, f.opening) BY <1>2
    <3>4. ~IsDeferred(d, f.stream) BY <1>2
    <3>5. QED BY <1>2, <1>4, <3>1, <3>2, <3>3, <3>4, QueueUpSound
  <2> HIDE DEF g, e
  <2>2. e = g /\ g.disposed BY <1>3, <1>5, <2>1
  <2>3. Sound(e, w, {}, {}) BY <2>1, <2>2 DEF Sound
  <2>4. QED BY <2>1, <2>2, <2>3 DEF SameBooks, e
<1>6. CASE UpstreamTakes(d)
  <2>1. d \in Draft /\ Registers(d, w) /\ Base(d, w) /\ Counted(d)
    BY DEF Sound, Base
  <2>2. /\ h \in Draft /\ h.forwarded = d.forwarded \cup {s}
        /\ h.active = d.active /\ h.deferred = d.deferred /\ h.baseline = d.baseline
        /\ h.up = d.up /\ h.down = d.down
        /\ h.pending = d.pending /\ h.pendingBytes = d.pendingBytes
        /\ h.disposed = d.disposed /\ h.closeIssued = d.closeIssued
        /\ h.client = d.client /\ h.upstream = d.upstream
    BY <2>1 DEF Draft
  <2>3. e = QueueUp(h, f)
    <3>1. Connected(h) <=> Connected(d) BY <2>2 DEF Connected
    <3>2. UpstreamTakes(h) BY <1>6, <2>2, <3>1 DEF UpstreamTakes
    <3>3. CASE Connected(d)
      <4>1. g = [d EXCEPT !.up = Append(@, f)] BY <1>6, <3>3 DEF QueueUp
      <4>2. QueueUp(h, f) = [h EXCEPT !.up = Append(@, f)]
        BY <3>1, <3>2, <3>3 DEF QueueUp
      <4>3. e = [g EXCEPT !.forwarded = @ \cup {s}] BY <1>3, <1>6
      <4> DEFINE r == Append(d.up, f)
      <4>4. g = [d EXCEPT !.up = r] /\ QueueUp(h, f) = [h EXCEPT !.up = r]
        BY <2>2, <4>1, <4>2
      <4> HIDE DEF r, g, e
      <4>5. QED BY <2>1, <4>3, <4>4 DEF Draft
    <3>4. CASE ~Connected(d)
      <4>1. g = [d EXCEPT !.pending = Append(@, f), !.pendingBytes = @ + 1]
        BY <1>6, <3>4 DEF QueueUp
      <4>2. QueueUp(h, f) = [h EXCEPT !.pending = Append(@, f), !.pendingBytes = @ + 1]
        BY <3>1, <3>2, <3>4 DEF QueueUp
      <4>3. e = [g EXCEPT !.forwarded = @ \cup {s}] BY <1>3, <1>6
      <4> DEFINE r == Append(d.pending, f)
                 b == d.pendingBytes + 1
      <4>4. /\ g = [d EXCEPT !.pending = r, !.pendingBytes = b]
            /\ QueueUp(h, f) = [h EXCEPT !.pending = r, !.pendingBytes = b]
        BY <2>2, <4>1, <4>2
      <4> HIDE DEF r, b, g, e
      <4>5. QED BY <2>1, <4>3, <4>4 DEF Draft
    <3>5. QED BY <3>3, <3>4
  <2> HIDE DEF g, e, h
  <2>4. \A t : IsDeferred(h, t) <=> IsDeferred(d, t)
    BY <2>2 DEF IsDeferred
  <2>5. Registers(h, w)
    <3>1. \A t \in h.forwarded : h.active[t] # NoStream /\ ~IsDeferred(h, t)
      BY <2>1, <2>2, <2>4 DEF Registers
    <3>2. QED BY <2>1, <2>2, <3>1 DEF Registers
  <2>6. ASSUME ~d.disposed PROVE Lively(h, w, {}, {}) /\ Unheard(h, w, s)
    <3>1. Lively(d, w, {}, {s}) /\ Unheard(d, w, s) /\ Unended(d, w, n)
      BY <2>6 DEF Sound
    <3>2. Streams(h, w, {})
      BY <2>2, <2>4, <3>1 DEF Lively, Streams, Unended
    <3>3. Served(h, w, {})
      BY <2>2, <2>4, <3>1 DEF Lively, Served
    <3>4. Upward(h.up, h, w, {}) /\ Upward(h.pending, h, w, {})
      BY <2>2, <2>4, <3>1 DEF Lively, Upward, Opens
    <3>5. Reached(h, w) /\ Downward(h.down, w)
          /\ \A i \in 1..Len(h.deferred) : NoFrameOf(h.down, h.deferred[i].stream)
      BY <2>2, <3>1 DEF Lively, Reached
    <3>6. QED BY <2>2, <3>1, <3>2, <3>3, <3>4, <3>5 DEF Lively, Unheard
  <2>7. Sound(h, w, {}, {})
    BY <2>1, <2>2, <2>5, <2>6 DEF Sound, Base, Counted
  <2>8. /\ Sound(QueueUp(h, f), w, {}, {}) /\ SameBooks(QueueUp(h, f), h)
        /\ ~QueueUp(h, f).disposed =>
             ~h.disposed /\ UpstreamTakes(h) /\ QueueUp(h, f).down = h.down
    <3>1. f.stream \in h.forwarded \cup {} BY <1>2, <2>2
    <3>2. ~h.disposed => Unheard(h, w, f.stream) /\ MayBeTold(w, f.opening)
      BY <1>2, <2>2, <2>6
    <3>3. ~IsDeferred(h, f.stream) BY <1>2, <2>4
    <3>4. QED BY <1>2, <1>4, <2>7, <3>1, <3>2, <3>3, QueueUpSound
  <2>9. QED BY <2>2, <2>3, <2>8 DEF SameBooks, e
<1>7. QED BY <1>5, <1>6

LEMMA DeferSound ==
  ASSUME NEW w, SoundWorld(w), NEW s \in Stream, NEW n, NEW endpoint \in {"session", "control"},
         Names(w, n, s), NEW d, Sound(d, w, {}, {s}),
         d.active[s] = [endpoint |-> endpoint, opening |-> n], d.active[s] # NoStream,
         ~IsDeferred(d, s), s \notin d.forwarded,
         ~d.disposed => Unheard(d, w, s) /\ Unended(d, w, n) /\ NoFrameOf(d.down, s)
  PROVE  Sound(Defer(d, s, n, endpoint), w, {}, {})
<1> DEFINE x == [stream |-> s, opening |-> n, endpoint |-> endpoint, late |-> FALSE]
           q == Append(d.deferred, x)
           b == d.pendingBytes + 1
           e == [d EXCEPT !.pendingBytes = b, !.deferred = q]
<1>1. Defer(d, s, n, endpoint) = IF b > MaxPending THEN Reject(d, s, n) ELSE e
  BY DEF Defer
<1>2. CASE b > MaxPending
  <2>1. Sound(Reject(d, s, n), w, {}, {})
    BY RejectSound
  <2>2. QED BY <1>1, <1>2, <2>1
<1>3. CASE ~(b > MaxPending)
  <2>1. d \in Draft /\ Registers(d, w) /\ Base(d, w) /\ Counted(d)
    BY DEF Sound, Base
  <2>2. /\ d.deferred \in Seq(Waiting) /\ d.pendingBytes \in Nat /\ d.pending \in Seq(FrameType)
        /\ d.active \in [Stream -> OpenStream \cup {NoStream}]
    BY <2>1 DEF Draft
  <2>3. n \in Opening BY NamedOpening
  <2>4. x \in Waiting /\ x.stream = s /\ x.opening = n /\ x.endpoint = endpoint
    BY <2>3 DEF Waiting
  <2> HIDE DEF x
  <2>5. /\ q \in Seq(Waiting) /\ Len(d.deferred) \in Nat /\ Len(q) = Len(d.deferred) + 1
        /\ q[Len(d.deferred) + 1] = x /\ \A i \in 1..Len(d.deferred) : q[i] = d.deferred[i]
    BY <2>2, <2>4, Appended
  <2> DEFINE k == Len(d.deferred)
  <2>6. b \in Nat /\ b <= MaxPending /\ b = Len(d.pending) + Len(q)
    <3> DEFINE a == Len(d.pending)
               l == Len(q)
               c == d.pendingBytes
    <3>1. c = a + k BY <2>1 DEF Counted
    <3>2. a \in Nat /\ c \in Nat /\ k \in Nat /\ l = k + 1 BY <2>2, <2>5
    <3>3. b = c + 1 /\ ~(b > MaxPending) BY <1>3
    <3>4. MaxPending \in Nat BY <1>3, CarrierAssumption
    <3> HIDE DEF a, k, l, c, b
    <3>5. b \in Nat /\ b <= MaxPending /\ b = a + l
      BY <1>3, <3>1, <3>2, <3>3, <3>4
    <3>6. QED BY <3>5 DEF a, l
  <2> HIDE DEF q, b
  <2>7. /\ e \in Draft /\ e.deferred = q /\ e.pendingBytes = b
        /\ e.active = d.active /\ e.forwarded = d.forwarded
        /\ e.up = d.up /\ e.down = d.down /\ e.pending = d.pending
        /\ e.disposed = d.disposed /\ e.closeIssued = d.closeIssued
        /\ e.client = d.client /\ e.upstream = d.upstream
    BY <2>1, <2>5, <2>6 DEF Draft
  <2> HIDE DEF e
  <2>8. Counted(e) BY <2>6, <2>7 DEF Counted
  <2>9. /\ k \in Nat /\ Len(q) = k + 1 /\ q[k + 1] = x
        /\ \A i \in 1..k : q[i] = d.deferred[i]
        /\ \A i \in 1..k + 1 : i = k + 1 \/ i \in 1..k
        /\ k + 1 \in 1..k + 1 /\ \A i \in 1..k : i \in 1..k + 1
    <3> HIDE DEF k
    <3>1. k \in Nat BY <2>5 DEF k
    <3>2. \A i \in 1..k + 1 : i = k + 1 \/ i \in 1..k BY <3>1
    <3>3. k + 1 \in 1..k + 1 /\ \A i \in 1..k : i \in 1..k + 1 BY <3>1
    <3>4. QED BY <2>5, <3>1, <3>2, <3>3 DEF k
  <2>10. \A t : IsDeferred(e, t) <=> t = s \/ IsDeferred(d, t)
    <3>1. \A t : IsDeferred(e, t) <=> \E i \in 1..k + 1 : q[i].stream = t
      BY <2>7, <2>9, Zenon DEF IsDeferred
    <3>2. \A t : IsDeferred(d, t) <=> \E i \in 1..k : d.deferred[i].stream = t
      BY DEF IsDeferred
    <3> HIDE DEF k
    <3>3. QED BY <2>4, <2>9, <3>1, <3>2
  <2>11. \A i \in 1..k : d.deferred[i].stream # s
    BY DEF IsDeferred
  <2>12. Registers(e, w)
    <3> HIDE DEF k
    <3>1. \A i \in 1..Len(e.deferred) : e.active[e.deferred[i].stream] =
            [endpoint |-> e.deferred[i].endpoint, opening |-> e.deferred[i].opening]
      <4>1. SUFFICES ASSUME NEW i \in 1..k + 1
                     PROVE d.active[q[i].stream] =
                             [endpoint |-> q[i].endpoint, opening |-> q[i].opening]
        BY <2>7, <2>9
      <4>2. CASE i = k + 1
        BY <2>4, <2>9, <4>2
      <4>3. CASE i \in 1..k
        <5>1. q[i] = d.deferred[i] BY <2>9, <4>3
        <5>2. d.active[d.deferred[i].stream] =
                [endpoint |-> d.deferred[i].endpoint, opening |-> d.deferred[i].opening]
          BY <2>1, <4>3 DEF Registers, k
        <5>3. QED BY <5>1, <5>2
      <4>4. QED BY <2>9, <4>2, <4>3
    <3>2. \A i, j \in 1..Len(e.deferred) : i # j => e.deferred[i].stream # e.deferred[j].stream
      <4>1. SUFFICES ASSUME NEW i \in 1..k + 1, NEW j \in 1..k + 1, i # j
                     PROVE  q[i].stream # q[j].stream
        BY <2>7, <2>9
      <4>2. CASE i = k + 1
        BY <2>4, <2>9, <2>11, <4>1, <4>2
      <4>3. CASE j = k + 1
        BY <2>4, <2>9, <2>11, <4>1, <4>3
      <4>4. CASE i \in 1..k /\ j \in 1..k
        BY <2>1, <2>9, <4>1, <4>4 DEF Registers, k
      <4>5. QED BY <2>9, <4>2, <4>3, <4>4
    <3>3. \A t \in e.forwarded : e.active[t] # NoStream /\ ~IsDeferred(e, t)
      BY <2>1, <2>7, <2>10 DEF Registers
    <3>4. QED BY <2>1, <2>7, <3>1, <3>2, <3>3 DEF Registers
  <2>13. ASSUME ~e.disposed PROVE Lively(e, w, {}, {})
    <3>1. /\ Lively(d, w, {}, {s})
          /\ Unheard(d, w, s) /\ Unended(d, w, n) /\ NoFrameOf(d.down, s)
      BY <2>7, <2>13 DEF Sound
    <3>2. Streams(e, w, {})
      <4>1. d.active[s].opening = n OBVIOUS
      <4>2. QED BY <2>7, <2>10, <3>1, <4>1 DEF Lively, Streams, Unended
    <3>3. Served(e, w, {})
      BY <2>7, <2>10, <3>1 DEF Lively, Served, Unheard, NoFrameOf
    <3>4. ASSUME NEW r, Upward(r, d, w, {}), NoFrameOf(r, s) PROVE Upward(r, e, w, {})
      BY <2>7, <2>10, <3>4 DEF Upward, Opens, NoFrameOf
    <3>5. Upward(e.up, e, w, {}) /\ Upward(e.pending, e, w, {})
      BY <2>7, <3>1, <3>4 DEF Lively, Unheard
    <3>6. \A i \in 1..Len(e.deferred) : NoFrameOf(e.down, e.deferred[i].stream)
      <4>1. \A i \in 1..k : NoFrameOf(d.down, d.deferred[i].stream) BY <3>1 DEF Lively
      <4> HIDE DEF k
      <4>2. QED BY <2>4, <2>7, <2>9, <3>1, <4>1
    <3>7. Reached(e, w) /\ Downward(e.down, w)
      BY <2>7, <3>1 DEF Lively, Reached
    <3>8. QED BY <3>2, <3>3, <3>5, <3>6, <3>7 DEF Lively
  <2>14. Sound(e, w, {}, {})
    BY <2>1, <2>7, <2>8, <2>12, <2>13 DEF Sound, Base
  <2>15. Defer(d, s, n, endpoint) = e
    BY <1>1, <1>3
  <2>16. QED BY <2>14, <2>15
<1>4. QED BY <1>2, <1>3

------------------------------------------------------------------------------
(* The loops over the deferred streams and over the openings.              *)

LEMMA LoopKept ==
  ASSUME NEW S, NEW N \in Nat, NEW R \in [0..N -> SUBSET S], NEW b \in R[0], NEW F,
         \A n \in 1..N : \A x \in R[n - 1] : F[<<x, n>>] \in R[n]
  PROVE  \E f : IsRun(f, b, N, F) /\ \A n \in 0..N : f[n] \in R[n]
<1> DEFINE G == [x \in S \X (1..N) |-> IF F[x] \in S THEN F[x] ELSE b]
           T == {n \in 0..N : TRUE}
<1>1. b \in S
  <2>1. 0 \in 0..N OBVIOUS
  <2>2. R[0] \in SUBSET S BY <2>1
  <2>3. QED BY <2>2
<1>2. G \in [S \X (1..N) -> S]
  BY <1>1
<1>3. \A x \in S, n \in 1..N : G[<<x, n>>] = IF F[<<x, n>>] \in S THEN F[<<x, n>>] ELSE b
  OBVIOUS
<1> HIDE DEF G
<1>4. PICK f \in [0..N -> S] : IsRun(f, b, N, G)
  BY <1>1, <1>2, LoopExists
<1>5. f[0] = b /\ \A n \in 1..N : f[n] = G[<<f[n - 1], n>>]
  <2>1. \A n \in 0..N : f[n] = IF n = 0 THEN b ELSE G[<<f[n - 1], n>>]
    BY <1>4 DEF IsRun
  <2>2. 0 \in 0..N /\ \A n \in 1..N : n \in 0..N /\ n # 0
    OBVIOUS
  <2>3. QED BY <2>1, <2>2
<1> DEFINE U == {n \in 0..N : f[n] \in R[n]}
<1>6. 0 \in U
  BY <1>5
<1>7. ASSUME NEW n \in 1..N, n - 1 \in U PROVE n \in U /\ f[n] = F[<<f[n - 1], n>>]
  <2>1. f[n - 1] \in R[n - 1] /\ n - 1 \in 0..N /\ n \in 0..N BY <1>7
  <2>2. F[<<f[n - 1], n>>] \in R[n] BY <2>1
  <2>3. R[n] \subseteq S /\ f[n - 1] \in S BY <1>4, <2>1
  <2>4. f[n] = F[<<f[n - 1], n>>]
    <3>1. F[<<f[n - 1], n>>] \in S BY <2>2, <2>3
    <3>2. G[<<f[n - 1], n>>] = F[<<f[n - 1], n>>] BY <1>3, <2>3, <3>1
    <3>3. QED BY <1>5, <3>2
  <2>5. QED BY <2>1, <2>2, <2>4
<1> HIDE DEF U
<1>8. \A n \in 0..N : n \in U
  BY <1>6, <1>7, LoopInvariance
<1>9. \A n \in 1..N : f[n] = F[<<f[n - 1], n>>]
  <2>1. \A n \in 1..N : n - 1 \in 0..N OBVIOUS
  <2>2. QED BY <1>7, <1>8, <2>1
<1>10. f = [n \in 0..N |-> IF n = 0 THEN b ELSE F[<<f[n - 1], n>>]]
  <2>1. \A n \in 0..N : f[n] = IF n = 0 THEN b ELSE F[<<f[n - 1], n>>]
    <3>1. \A n \in 0..N : n = 0 \/ n \in 1..N OBVIOUS
    <3>2. QED BY <1>5, <1>9, <3>1
  <2>2. QED BY <1>4, <2>1
<1>11. QED BY <1>8, <1>10 DEF IsRun, U

(* x is still deferred.                                                    *)
Stays(e, x) ==
  /\ IsDeferred(e, x.stream)
  /\ e.active[x.stream] = [endpoint |-> x.endpoint, opening |-> x.opening]

LEMMA Deferring ==
  ASSUME NEW w, NEW e, Sound(e, w, {}, {}), NEW x \in Waiting, Stays(e, x)
  PROVE  /\ x.stream \in Stream /\ Names(w, x.opening, x.stream)
         /\ e.active[x.stream] # NoStream /\ e.active[x.stream].opening = x.opening
         /\ w.opens[x.opening].endpoint = x.endpoint
         /\ x.stream \notin e.forwarded
         /\ ~e.disposed => /\ Unended(e, w, x.opening) /\ Unheard(e, w, x.stream)
                           /\ NoFrameOf(e.down, x.stream)
<1> DEFINE s == x.stream
           a == e.active[s]
<1>1. x.stream \in Stream /\ x.opening \in Opening /\ x.endpoint \in {"session", "control"}
  BY DEF Waiting
<1>2. a = [endpoint |-> x.endpoint, opening |-> x.opening] /\ IsDeferred(e, s)
  BY DEF Stays
<1>3. a # NoStream /\ a.opening = x.opening /\ a.endpoint = x.endpoint
  BY <1>1, <1>2, CarrierAssumption DEF Endpoint
<1>4. Names(w, a.opening, s) /\ w.opens[a.opening].endpoint = a.endpoint
  BY <1>1, <1>3 DEF Sound, Base, Registers
<1>5. s \notin e.forwarded /\ (~e.disposed => Unheard(e, w, s) /\ NoFrameOf(e.down, s))
  BY <1>1, <1>2, UnheardDeferred
<1>6. ~e.disposed => Unended(e, w, a.opening)
  BY <1>1, <1>3 DEF Sound, Lively, Streams
<1>7. QED BY <1>1, <1>3, <1>4, <1>5, <1>6

LEMMA RejectDeferred ==
  ASSUME NEW w, SoundWorld(w), NEW d, Sound(d, w, {}, {}), NEW x \in Waiting, Stays(d, x)
  PROVE  LET e == Reject(d, x.stream, x.opening)
         IN  /\ Sound(e, w, {}, {}) /\ e.baseline = d.baseline
             /\ e.active = [d.active EXCEPT ![x.stream] = NoStream]
             /\ \A t : IsDeferred(e, t) <=> t # x.stream /\ IsDeferred(d, t)
<1>1. /\ x.stream \in Stream /\ Names(w, x.opening, x.stream)
      /\ ~d.disposed => Unended(d, w, x.opening) /\ Unheard(d, w, x.stream)
  BY Deferring
<1> DEFINE s == x.stream
           n == x.opening
<1>2. Sound(d, w, {}, {s})
  BY Excused
<1> HIDE DEF s, n
<1>3. s \in Stream /\ Names(w, n, s)
      /\ (~d.disposed => Unended(d, w, n) /\ (s \in d.forwarded \/ Unheard(d, w, s)))
  BY <1>1 DEF s, n
<1> DEFINE e == Reject(d, s, n)
<1>4. /\ Sound(e, w, {}, {}) /\ e.baseline = d.baseline
      /\ e.active = [d.active EXCEPT ![s] = NoStream]
      /\ e.forwarded = d.forwarded \ {s}
      /\ \A t : IsDeferred(e, t) <=> t # s /\ IsDeferred(d, t)
  BY <1>2, <1>3, RejectSound
<1>5. QED BY <1>4 DEF s, n

(* A deferred stream is rejected: the others stay.                         *)
LEMMA OthersStay ==
  ASSUME NEW d \in Draft, NEW e, NEW x \in Waiting, NEW y \in Waiting, y.stream # x.stream,
         e.active = d.active \/ e.active = [d.active EXCEPT ![x.stream] = NoStream],
         \A t : t # x.stream => (IsDeferred(d, t) => IsDeferred(e, t)),
         Stays(d, y)
  PROVE  Stays(e, y)
<1>1. d.active \in [Stream -> OpenStream \cup {NoStream}] /\ y.stream \in Stream
  BY DEF Draft, Waiting
<1>2. e.active[y.stream] = d.active[y.stream]
  BY <1>1
<1>3. QED BY <1>2 DEF Stays

(* expirePendingSessionStreams()                                           *)
LEMMA ExpireSound ==
  ASSUME NEW w, SoundWorld(w), NEW d, Sound(d, w, {}, {})
  PROVE  LET e == Expire(d)
         IN  /\ Sound(e, w, {}, {}) /\ e.baseline = d.baseline
             /\ \A t \in Stream : e.active[t] \in {d.active[t], NoStream}
<1> DEFINE q == d.deferred
           N == Len(q)
           Good(e) == /\ Sound(e, w, {}, {}) /\ e.baseline = d.baseline
                      /\ \A t \in Stream : e.active[t] \in {d.active[t], NoStream}
           Left(e, m) == \A k \in 1..N : m < k => Stays(e, q[k])
           R == [m \in 0..N |-> {e \in Draft : Good(e) /\ Left(e, m)}]
           F == [x \in Draft \X (1..N) |-> ExpireOne(x[1], q[x[2]])]
           u == Expiry(d, q)
<1>1. d \in Draft /\ Registers(d, w)
  BY DEF Sound, Base
<1>2. q \in Seq(Waiting) /\ N \in Nat /\ \A k \in 1..N : q[k] \in Waiting
  BY <1>1 DEF Draft
<1>3. /\ \A k \in 1..N : Stays(d, q[k])
      /\ \A k, l \in 1..N : k # l => q[k].stream # q[l].stream
  BY <1>1 DEF Registers, Stays, IsDeferred
<1>4. Good(d)
  OBVIOUS
<1>5. \A x \in Draft, n \in 1..N : F[<<x, n>>] = ExpireOne(x, q[n])
  OBVIOUS
<1>u. u = CHOOSE f : f = [n \in 0..N |-> IF n = 0 THEN d ELSE ExpireOne(f[n - 1], q[n])]
  BY DEF Expiry
<1>r. Expire(d) = u[N]
  BY DEF Expire
<1> HIDE DEF q, N, F, u
<1>6. ASSUME NEW n \in 1..N, NEW e \in Draft, Good(e), Left(e, n - 1)
      PROVE  ExpireOne(e, q[n]) \in Draft /\ Good(ExpireOne(e, q[n])) /\ Left(ExpireOne(e, q[n]), n)
  <2> DEFINE x == q[n]
  <2>1. x \in Waiting BY <1>2
  <2>2. n \in Nat /\ Stays(e, x)
    <3>1. n \in Nat /\ n - 1 < n BY <1>2
    <3>2. QED BY <1>6, <3>1
  <2>3. \A k \in 1..N : n < k => Stays(e, q[k]) /\ q[k] \in Waiting /\ q[k].stream # x.stream
    <3>1. \A k \in 1..N : n < k => n - 1 < k /\ k # n BY <1>2
    <3>2. QED BY <1>2, <1>3, <1>6, <3>1
  <2>4. CASE ~x.late
    <3>1. ExpireOne(e, x) = e BY <2>4 DEF ExpireOne
    <3>2. QED BY <1>6, <2>3, <3>1
  <2>5. CASE x.late
    <3> DEFINE g == Reject(e, x.stream, x.opening)
    <3>1. ExpireOne(e, x) = g BY <2>5 DEF ExpireOne
    <3> HIDE DEF x
    <3>2. /\ Sound(g, w, {}, {}) /\ g.baseline = e.baseline
          /\ g.active = [e.active EXCEPT ![x.stream] = NoStream]
          /\ \A t : IsDeferred(g, t) <=> t # x.stream /\ IsDeferred(e, t)
      BY <1>6, <2>1, <2>2, RejectDeferred
    <3> HIDE DEF g
    <3>3. g \in Draft BY <3>2 DEF Sound, Base
    <3>4. Good(g)
      <4>1. e.active \in [Stream -> OpenStream \cup {NoStream}] BY DEF Draft
      <4>2. QED BY <1>6, <3>2, <4>1
    <3>5. \A t : t # x.stream => (IsDeferred(e, t) => IsDeferred(g, t))
      BY <3>2
    <3>6. Left(g, n)
      BY <2>1, <2>3, <3>2, <3>5, OthersStay
    <3>7. QED BY <3>1, <3>3, <3>4, <3>6 DEF x
  <2>6. QED BY <2>4, <2>5
<1>7. d \in R[0]
  BY <1>1, <1>2, <1>3, <1>4
<1>8. R \in [0..N -> SUBSET Draft] /\ \A m \in 0..N : R[m] = {e \in Draft : Good(e) /\ Left(e, m)}
  OBVIOUS
<1> HIDE DEF Good, Left
<1>9. \A n \in 1..N : n \in 0..N /\ n - 1 \in 0..N
  BY <1>2
<1> HIDE DEF R
<1>10. \A n \in 1..N : \A x \in R[n - 1] : ExpireOne(x, q[n]) \in R[n] /\ x \in Draft
  BY <1>6, <1>8, <1>9
<1>11. \A n \in 1..N : \A x \in R[n - 1] : F[<<x, n>>] \in R[n]
  BY <1>5, <1>10
<1>12. PICK f : IsRun(f, d, N, F) /\ \A n \in 0..N : f[n] \in R[n]
  BY <1>2, <1>7, <1>8, <1>11, LoopKept
<1>13. f = [n \in 0..N |-> IF n = 0 THEN d ELSE ExpireOne(f[n - 1], q[n])]
  <2>1. \A n \in 0..N : n # 0 => n \in 1..N
    BY <1>2
  <2>2. \A n \in 0..N : n # 0 => F[<<f[n - 1], n>>] = ExpireOne(f[n - 1], q[n])
    BY <1>5, <1>9, <1>10, <1>12, <2>1
  <2>3. f = [n \in 0..N |-> IF n = 0 THEN d ELSE F[<<f[n - 1], n>>]]
    BY <1>12 DEF IsRun
  <2>4. QED BY <2>2, <2>3, Zenon
<1>14. u = [n \in 0..N |-> IF n = 0 THEN d ELSE ExpireOne(u[n - 1], q[n])]
  BY <1>u, <1>13
<1>15. u[0] = d /\ \A n \in 1..N : u[n] = ExpireOne(u[n - 1], q[n])
  <2>1. \A n \in 0..N : u[n] = IF n = 0 THEN d ELSE ExpireOne(u[n - 1], q[n])
    BY <1>14
  <2>2. 0 \in 0..N /\ \A n \in 1..N : n \in 0..N /\ n # 0 BY <1>2
  <2>3. QED BY <2>1, <2>2
<1> DEFINE T == {n \in 0..N : u[n] \in R[n]}
<1>16. 0 \in T
  BY <1>2, <1>7, <1>15
<1>17. ASSUME NEW n \in 1..N, n - 1 \in T PROVE n \in T
  <2>1. u[n - 1] \in R[n - 1] BY <1>17
  <2>2. QED BY <1>9, <1>10, <1>15, <2>1
<1> HIDE DEF T
<1>18. \A n \in 0..N : n \in T
  BY <1>2, <1>16, <1>17, LoopInvariance
<1>19. Good(u[N])
  <2>1. N \in 0..N BY <1>2
  <2>2. QED BY <1>8, <1>18, <2>1 DEF T
<1>20. QED BY <1>19, <1>r DEF Good

(* A deferred stream that may be told to the host is forwarded.            *)
LEMMA ForwardDeferred ==
  ASSUME NEW w, SoundWorld(w), NEW d, Sound(d, w, {}, {}), NEW x \in Waiting, Stays(d, x),
         MayBeTold(w, x.opening)
  PROVE  LET b == DropDeferred(d, x.stream)
             e == ForwardOpen(b, x.stream, x.opening)
         IN  /\ b.active[x.stream] # NoStream /\ b \in Draft
             /\ Sound(e, w, {}, {}) /\ e.active = d.active
             /\ \A t : t # x.stream => (IsDeferred(d, t) => IsDeferred(e, t))
<1> DEFINE s == x.stream
           n == x.opening
           b == DropDeferred(d, s)
           e == ForwardOpen(b, s, n)
<1>1. /\ s \in Stream /\ Names(w, n, s) /\ d.active[s] # NoStream /\ d.active[s].opening = n
      /\ ~d.disposed => Unended(d, w, n) /\ Unheard(d, w, s)
  BY Deferring
<1>2. Sound(d, w, {}, {s})
  BY Excused
<1>3. MayBeTold(w, n)
  OBVIOUS
<1> HIDE DEF s, n
<1>4. Sound(b, w, {}, {s})
  BY <1>1, <1>2, DropSound
<1>5. /\ ~IsDeferred(b, s) /\ \A t : t # s => (IsDeferred(b, t) <=> IsDeferred(d, t))
      /\ b.active = d.active /\ b.pending = d.pending /\ b.up = d.up /\ b.down = d.down
      /\ b.disposed = d.disposed /\ b \in Draft
  <2>1. d \in Draft /\ Registers(d, w) /\ Counted(d) BY DEF Sound, Base
  <2>2. QED BY <1>1, <2>1, Dropping
<1> HIDE DEF b
<1>6. ~b.disposed => Unheard(b, w, s) /\ Unended(b, w, n) /\ MayBeTold(w, n)
  BY <1>1, <1>3, <1>5 DEF Unheard, Unended
<1>7. b.active[s] # NoStream /\ b.active[s].opening = n
  BY <1>1, <1>5
<1>8. /\ Sound(e, w, {}, {}) /\ e.active = b.active
      /\ e.deferred = b.deferred /\ e.baseline = b.baseline
  BY <1>1, <1>4, <1>5, <1>6, <1>7, ForwardOpenSound
<1>9. \A t : t # s => (IsDeferred(d, t) => IsDeferred(e, t))
  <2>1. e.deferred = b.deferred BY <1>8
  <2> HIDE DEF e
  <2>2. \A t : IsDeferred(e, t) <=> IsDeferred(b, t) BY <2>1 DEF IsDeferred
  <2>3. QED BY <1>5, <2>2
<1>10. b.active[s] # NoStream /\ b \in Draft /\ Sound(e, w, {}, {}) /\ e.active = d.active
  BY <1>5, <1>7, <1>8
<1>11. QED BY <1>9, <1>10 DEF s, n, b

(* flushPendingSessionStreams()                                            *)
LEMMA FlushSound ==
  ASSUME NEW w, SoundWorld(w), w.granted = granted, NEW d, Sound(d, w, {}, {})
  PROVE  Sound(Flush(d), w, {}, {})
<1> DEFINE b == Expire(d)
           q == b.deferred
           N == Len(q)
           Acc == [d : Draft, go : BOOLEAN]
           start == [d |-> b, go |-> TRUE]
           Good(acc) == Sound(acc.d, w, {}, {})
           Left(e, m) == \A k \in 1..N : m < k => Stays(e, q[k])
           R == [m \in 0..N |-> {acc \in Acc : Good(acc) /\ (acc.go => Left(acc.d, m))}]
           F == [x \in Acc \X (1..N) |-> FlushOne(x[1], q[x[2]])]
           u == Flushing(b, q)
<1>0. Sound(b, w, {}, {})
  BY ExpireSound
<1>1. b \in Draft /\ Registers(b, w)
  BY <1>0 DEF Sound, Base
<1>u. u = CHOOSE f : f = [n \in 0..N |-> IF n = 0 THEN start ELSE FlushOne(f[n - 1], q[n])]
  BY DEF Flushing
<1>r. Flush(d) = u[N].d
  BY DEF Flush
<1> HIDE DEF b, u
<1>2. q \in Seq(Waiting) /\ N \in Nat /\ \A k \in 1..N : q[k] \in Waiting
  BY <1>1 DEF Draft
<1>3. /\ \A k \in 1..N : Stays(b, q[k])
      /\ \A k, l \in 1..N : k # l => q[k].stream # q[l].stream
  BY <1>1 DEF Registers, Stays, IsDeferred
<1>5. \A x \in Acc, n \in 1..N : F[<<x, n>>] = FlushOne(x, q[n])
  OBVIOUS
<1> HIDE DEF q, N, F, Acc
<1>6. ASSUME NEW n \in 1..N, NEW acc \in Acc, Good(acc), acc.go => Left(acc.d, n - 1)
      PROVE  LET g == FlushOne(acc, q[n])
             IN  g \in Acc /\ Good(g) /\ (g.go => Left(g.d, n))
  <2> DEFINE x == q[n]
             e == acc.d
             g == FlushOne(acc, x)
  <2>0. /\ e \in Draft /\ acc.go \in BOOLEAN /\ Sound(e, w, {}, {})
        /\ acc = [d |-> e, go |-> acc.go]
    BY <1>6 DEF Acc
  <2>1. x \in Waiting BY <1>2
  <2>2. acc.go => /\ Stays(e, x)
                  /\ \A k \in 1..N : n < k =>
                       Stays(e, q[k]) /\ q[k] \in Waiting /\ q[k].stream # x.stream
    <3>1. n \in Nat /\ n - 1 < n BY <1>2
    <3>2. \A k \in 1..N : n < k => n - 1 < k /\ k # n BY <1>2
    <3>3. QED BY <1>2, <1>3, <1>6, <3>1, <3>2
  <2> DEFINE refused == Subuser /\ x.endpoint # "control" /\ ~MayFollow(x)
  <2>3. CASE ~acc.go
    <3>1. g = acc BY <2>3 DEF FlushOne
    <3>2. QED BY <1>6, <2>3, <3>1
  <2>4. CASE acc.go /\ refused
    <3> DEFINE h == Reject(e, x.stream, x.opening)
    <3>1. g = [acc EXCEPT !.d = h] BY <2>4 DEF FlushOne
    <3> HIDE DEF x, e, g
    <3>2. /\ Sound(h, w, {}, {}) /\ h.baseline = e.baseline
          /\ h.active = [e.active EXCEPT ![x.stream] = NoStream]
          /\ \A t : IsDeferred(h, t) <=> t # x.stream /\ IsDeferred(e, t)
      BY <2>0, <2>1, <2>2, <2>4, RejectDeferred
    <3> HIDE DEF h
    <3>3. h \in Draft BY <3>2 DEF Sound, Base
    <3>4. g \in Acc /\ g.d = h /\ g.go = acc.go
      BY <2>0, <3>1, <3>3 DEF Acc
    <3>5. \A t : t # x.stream => (IsDeferred(e, t) => IsDeferred(h, t))
      BY <3>2
    <3>6. Left(h, n)
      BY <2>0, <2>1, <2>2, <2>4, <3>2, <3>5, OthersStay
    <3>7. QED BY <3>2, <3>4, <3>6 DEF x, g
  <2>5. CASE acc.go /\ ~refused
    <3> DEFINE c == DropDeferred(e, x.stream)
               h == ForwardOpen(c, x.stream, x.opening)
    <3>1. MayBeTold(w, x.opening)
      <4>1. w.opens[x.opening].endpoint = x.endpoint /\ Names(w, x.opening, x.stream)
        BY <2>0, <2>1, <2>2, <2>5, Deferring
      <4>2. x.endpoint = "session" /\ Subuser => x.stream \in granted
        BY <2>5 DEF MayFollow
      <4>3. QED BY <4>1, <4>2 DEF MayBeTold, Names
    <3>2. g = IF c.active[x.stream] = NoStream THEN [acc EXCEPT !.d = c]
              ELSE [d |-> h, go |-> UpstreamTakes(c)]
      BY <2>5 DEF FlushOne
    <3> HIDE DEF x, e, g
    <3>3. /\ c.active[x.stream] # NoStream /\ c \in Draft
          /\ Sound(h, w, {}, {}) /\ h.active = e.active
          /\ \A t : t # x.stream => (IsDeferred(e, t) => IsDeferred(h, t))
      BY <2>0, <2>1, <2>2, <2>5, <3>1, ForwardDeferred
    <3> HIDE DEF c, h
    <3>4. g = [d |-> h, go |-> UpstreamTakes(c)] BY <3>2, <3>3
    <3>5. UpstreamTakes(c) \in BOOLEAN
      <4>1. c.pendingBytes \in Nat /\ c.up \in Seq(FrameType) BY <3>3 DEF Draft
      <4>2. MaxPending \in Nat /\ Capacity \in Nat BY CarrierAssumption
      <4>3. Len(c.up) \in Nat BY <4>1
      <4>4. (c.pendingBytes + 1 <= MaxPending) \in BOOLEAN BY <4>1, <4>2
      <4>5. QED BY <4>4 DEF UpstreamTakes
    <3>6. h \in Draft BY <3>3 DEF Sound, Base
    <3>7. g \in Acc /\ g.d = h BY <3>4, <3>5, <3>6 DEF Acc
    <3>8. Left(h, n)
      BY <2>0, <2>1, <2>2, <2>5, <3>3, OthersStay
    <3>9. QED BY <3>3, <3>7, <3>8 DEF x, g
  <2>6. QED BY <2>0, <2>3, <2>4, <2>5
<1>7. start \in R[0]
  <2>1. start \in Acc /\ start.d = b BY <1>1 DEF Acc
  <2>2. Left(b, 0) /\ Good(start) BY <1>0, <1>3
  <2>3. 0 \in 0..N BY <1>2
  <2> HIDE DEF Left, Good, start
  <2>4. QED BY <2>1, <2>2, <2>3
<1>8. /\ R \in [0..N -> SUBSET Acc]
      /\ \A m \in 0..N : R[m] = {acc \in Acc : Good(acc) /\ (acc.go => Left(acc.d, m))}
  OBVIOUS
<1> HIDE DEF Good, Left, start
<1>9. \A n \in 1..N : n \in 0..N /\ n - 1 \in 0..N
  BY <1>2
<1> HIDE DEF R
<1>10. \A n \in 1..N : \A x \in R[n - 1] : FlushOne(x, q[n]) \in R[n] /\ x \in Acc
  BY <1>6, <1>8, <1>9
<1>11. \A n \in 1..N : \A x \in R[n - 1] : F[<<x, n>>] \in R[n]
  BY <1>5, <1>10
<1>12. PICK f : IsRun(f, start, N, F) /\ \A n \in 0..N : f[n] \in R[n]
  BY <1>2, <1>7, <1>8, <1>11, LoopKept
<1>13. f = [n \in 0..N |-> IF n = 0 THEN start ELSE FlushOne(f[n - 1], q[n])]
  <2>1. \A n \in 0..N : n # 0 => n \in 1..N
    BY <1>2
  <2>2. \A n \in 0..N : n # 0 => F[<<f[n - 1], n>>] = FlushOne(f[n - 1], q[n])
    BY <1>5, <1>9, <1>10, <1>12, <2>1
  <2>3. f = [n \in 0..N |-> IF n = 0 THEN start ELSE F[<<f[n - 1], n>>]]
    BY <1>12 DEF IsRun
  <2>4. QED BY <2>2, <2>3, Zenon
<1>14. u = [n \in 0..N |-> IF n = 0 THEN start ELSE FlushOne(u[n - 1], q[n])]
  BY <1>u, <1>13
<1>15. u[0] = start /\ \A n \in 1..N : u[n] = FlushOne(u[n - 1], q[n])
  <2>1. \A n \in 0..N : u[n] = IF n = 0 THEN start ELSE FlushOne(u[n - 1], q[n])
    BY <1>14
  <2>2. 0 \in 0..N /\ \A n \in 1..N : n \in 0..N /\ n # 0 BY <1>2
  <2>3. QED BY <2>1, <2>2
<1> DEFINE T == {n \in 0..N : u[n] \in R[n]}
<1>16. 0 \in T
  BY <1>2, <1>7, <1>15
<1>17. ASSUME NEW n \in 1..N, n - 1 \in T PROVE n \in T
  <2>1. u[n - 1] \in R[n - 1] BY <1>17
  <2>2. QED BY <1>9, <1>10, <1>15, <2>1
<1> HIDE DEF T
<1>18. \A n \in 0..N : n \in T
  BY <1>2, <1>16, <1>17, LoopInvariance
<1>19. Good(u[N])
  <2>1. N \in 0..N BY <1>2
  <2>2. QED BY <1>8, <1>18, <2>1 DEF T
<1>20. QED BY <1>19, <1>r DEF Good

(* publishWorkspaceUpsert() and publishSessionAttachment()                 *)
LEMMA PublishSound ==
  ASSUME NEW w, SoundWorld(w), w.opens = opens, NEW d, Sound(d, w, {}, {}),
         NEW showing, NEW untilFull \in BOOLEAN
  PROVE  Sound(Publishing(d, showing, untilFull)[Len(opens)].d, w, {}, {})
<1> DEFINE N == Len(opens)
           Acc == [d : Draft, go : BOOLEAN]
           start == [d |-> d, go |-> TRUE]
           Turn(acc, n) == PublishTo(acc, n, showing, untilFull)
           Good == {acc \in Acc : Sound(acc.d, w, {}, {})}
           R == [m \in 0..N |-> Good]
           F == [x \in Acc \X (1..N) |-> Turn(x[1], x[2])]
           u == Publishing(d, showing, untilFull)
<1>1. d \in Draft
  BY DEF Sound, Base
<1>2. /\ opens \in Seq([stream : Stream, endpoint : Endpoint]) /\ N \in Nat
      /\ \A n \in 1..N : opens[n].stream \in Stream
  <2>1. opens \in Seq([stream : Stream, endpoint : Endpoint]) BY DEF SoundWorld
  <2>2. N \in Nat /\ \A n \in 1..N : opens[n] \in [stream : Stream, endpoint : Endpoint]
    BY <2>1, Elements
  <2>3. QED BY <2>1, <2>2
<1>u. u = CHOOSE f : f = [n \in 0..N |-> IF n = 0 THEN start ELSE Turn(f[n - 1], n)]
  BY DEF Publishing
<1>5. \A x \in Acc, n \in 1..N : F[<<x, n>>] = Turn(x, n)
  OBVIOUS
<1> HIDE DEF u, F
<1>6. ASSUME NEW n \in 1..N, NEW acc \in Good PROVE Turn(acc, n) \in Good
  <2> DEFINE s == opens[n].stream
             e == acc.d
  <2>1. e \in Draft /\ Sound(e, w, {}, {}) OBVIOUS
  <2>2. CASE ~(acc.go /\ Follows(e, n) /\ s \in showing)
    <3>1. Turn(acc, n) = acc BY <2>2 DEF PublishTo
    <3>2. QED BY <3>1
  <2>3. CASE acc.go /\ Follows(e, n) /\ s \in showing
    <3> DEFINE h == SendItem(e, s, n)
               go == untilFull => ClientTakes(e)
    <3>1. Turn(acc, n) = [d |-> h, go |-> go] BY <2>3 DEF PublishTo
    <3>2. s \in Stream /\ e.active[s] = [endpoint |-> "workspace", opening |-> n]
      BY <1>2, <2>3 DEF Follows
    <3> HIDE DEF e, s
    <3>3. Len(opens) <= MaxOpens BY DEF SoundWorld
    <3>4. n \in Opening BY <1>2, <3>3, CarrierAssumption DEF Opening
    <3>5. e.active[s] # NoStream /\ e.active[s].opening = n
          /\ e.active[s].endpoint = "workspace"
      BY <3>2, <3>4, CarrierAssumption DEF Endpoint
    <3>6. ~IsDeferred(e, s)
      <4>1. SUFFICES ASSUME NEW i \in 1..Len(e.deferred), e.deferred[i].stream = s PROVE FALSE
        BY DEF IsDeferred
      <4>2. e.active[s] = [endpoint |-> e.deferred[i].endpoint, opening |-> e.deferred[i].opening]
        BY <2>1, <4>1 DEF Sound, Base, Registers
      <4>3. e.deferred \in Seq(Waiting) BY <2>1 DEF Draft
      <4>4. e.deferred[i] \in Waiting BY <4>3
      <4>5. e.deferred[i].endpoint # "workspace" BY <4>4 DEF Waiting
      <4>6. e.active[s].endpoint = e.deferred[i].endpoint BY <4>2
      <4>7. QED BY <3>5, <4>5, <4>6
    <3>7. CASE e.disposed
      <4>1. h = e BY <3>7 DEF SendItem
      <4>2. go \in BOOLEAN BY DEF ClientTakes
      <4> HIDE DEF go
      <4>3. QED BY <2>1, <3>1, <4>1, <4>2
    <3>8. CASE ~e.disposed
      <4>1. s \in e.forwarded BY <2>1, <3>2, <3>5, <3>6, <3>8 DEF Sound, Lively, Streams
      <4>2. Sound(h, w, {}, {}) BY <2>1, <3>2, <3>5, <4>1, ItemSound
      <4>3. h \in Draft BY <4>2 DEF Sound, Base
      <4>4. go \in BOOLEAN BY DEF ClientTakes
      <4> HIDE DEF go, h
      <4>5. QED BY <3>1, <4>2, <4>3, <4>4
    <3>9. QED BY <3>7, <3>8
  <2>4. QED BY <2>2, <2>3
<1> HIDE DEF Turn, N
<1>7. start \in R[0]
  BY <1>1, <1>2
<1>8. R \in [0..N -> SUBSET Acc] /\ \A m \in 0..N : R[m] = Good
  OBVIOUS
<1>9. Good \subseteq Acc
  OBVIOUS
<1> HIDE DEF Good, start, Acc
<1>10. \A n \in 1..N : n \in 0..N /\ n - 1 \in 0..N
  BY <1>2
<1> HIDE DEF R
<1>11. \A n \in 1..N : \A x \in R[n - 1] : F[<<x, n>>] \in R[n]
  <2>1. TAKE n \in 1..N
  <2>2. TAKE x \in R[n - 1]
  <2>3. x \in Good /\ R[n] = Good BY <1>8, <1>10
  <2>4. x \in Acc BY <1>9, <2>3
  <2>5. Turn(x, n) \in Good BY <1>6, <2>3
  <2>6. F[<<x, n>>] = Turn(x, n) BY <1>5, <2>4
  <2>7. QED BY <2>3, <2>5, <2>6
<1>12. PICK f : IsRun(f, start, N, F) /\ \A n \in 0..N : f[n] \in R[n]
  BY <1>2, <1>7, <1>8, <1>11, LoopKept
<1>13. f = [n \in 0..N |-> IF n = 0 THEN start ELSE Turn(f[n - 1], n)]
  <2>1. \A n \in 0..N : n # 0 => n \in 1..N
    BY <1>2
  <2>2. \A n \in 0..N : n # 0 => F[<<f[n - 1], n>>] = Turn(f[n - 1], n)
    BY <1>5, <1>8, <1>9, <1>10, <1>12, <2>1
  <2>3. f = [n \in 0..N |-> IF n = 0 THEN start ELSE F[<<f[n - 1], n>>]]
    BY <1>12 DEF IsRun
  <2>4. QED BY <2>2, <2>3, Zenon
<1>14. u = [n \in 0..N |-> IF n = 0 THEN start ELSE Turn(u[n - 1], n)]
  BY <1>u, <1>13
<1>15. u[0] = start /\ \A n \in 1..N : u[n] = Turn(u[n - 1], n)
  <2>1. \A n \in 0..N : u[n] = IF n = 0 THEN start ELSE Turn(u[n - 1], n)
    BY <1>14
  <2>2. 0 \in 0..N /\ \A n \in 1..N : n \in 0..N /\ n # 0 BY <1>2
  <2>3. QED BY <2>1, <2>2
<1> DEFINE T == {n \in 0..N : u[n] \in Good}
<1>16. 0 \in T
  BY <1>2, <1>7, <1>8, <1>15
<1>17. ASSUME NEW n \in 1..N, n - 1 \in T PROVE n \in T
  BY <1>6, <1>10, <1>15, <1>17
<1> HIDE DEF T
<1>18. \A n \in 0..N : n \in T
  BY <1>2, <1>16, <1>17, LoopInvariance
<1>19. u[N] \in Good
  <2>1. N \in 0..N BY <1>2
  <2>2. QED BY <1>18, <2>1 DEF T
<1>20. QED BY <1>19 DEF Good, u, N

------------------------------------------------------------------------------
(* The steps.                                                              *)

LEMMA Becoming ==
  ASSUME NEW e \in Draft, Become(e)
  PROVE  Now' = e
<1>1. e = [active |-> e.active, deferred |-> e.deferred, forwarded |-> e.forwarded,
           pending |-> e.pending, pendingBytes |-> e.pendingBytes, up |-> e.up,
           down |-> e.down, disposed |-> e.disposed, closeIssued |-> e.closeIssued,
           grace |-> e.grace, client |-> e.client, upstream |-> e.upstream,
           registered |-> e.registered, baseline |-> e.baseline]
  BY DEF Draft
<1>2. QED BY <1>1 DEF Become, Now

LEMMA SameWorld ==
  ASSUME UNCHANGED outsideVars
  PROVE  World' = World
BY DEF outsideVars, World

LEMMA Stepping ==
  ASSUME NEW w, NEW e, Become(e), World' = w, SoundWorld(w), Sound(e, w, {}, {})
  PROVE  IInv'
<1>1. e \in Draft
  BY DEF Sound, Base
<1>2. Now' = e
  BY <1>1, Becoming
<1>3. QED BY <1>2 DEF IInv

LEMMA Acting ==
  ASSUME NEW e, Become(e), UNCHANGED outsideVars, IInv, Sound(e, World, {}, {})
  PROVE  IInv'
<1>1. SoundWorld(World) BY DEF IInv
<1>2. World' = World BY SameWorld
<1>3. QED BY <1>1, <1>2, Stepping

LEMMA NowFields ==
  /\ Now.active = active /\ Now.deferred = deferred /\ Now.forwarded = forwarded
  /\ Now.pending = pending /\ Now.pendingBytes = pendingBytes
  /\ Now.up = up /\ Now.down = down /\ Now.disposed = disposed
  /\ Now.closeIssued = closeIssued /\ Now.grace = grace
  /\ Now.client = client /\ Now.upstream = upstream
  /\ Now.registered = registered /\ Now.baseline = baseline
BY DEF Now

LEMMA WorldFields ==
  /\ World.opens = opens /\ World.ended = ended /\ World.cancelled = cancelled
  /\ World.hostOpen = hostOpen /\ World.hostOut = hostOut /\ World.granted = granted
BY DEF World

(* A carrier that is closing, whatever its legs do.                        *)
LEMMA FallenSound ==
  ASSUME NEW d, NEW w, Base(d, w), NEW e \in Draft, SameBooks(e, d),
         e.pending = d.pending, e.pendingBytes = d.pendingBytes,
         e.disposed, e.up = <<>>, e.down = <<>>, e.client # "open"
  PROVE  Sound(e, w, {}, {})
<1>1. Registers(e, w)
  BY SameBooksSound DEF Base
<1>2. Counted(e)
  BY DEF Base, Counted, SameBooks
<1>3. QED BY <1>1, <1>2 DEF Sound, Base

LEMMA ClientMisspeaksKeeps ==
  ASSUME IInv, ClientMisspeaks PROVE IInv'
<1> DEFINE b == Expire(Now)
           e == CloseCarrier(b)
<1>1. Become(e) /\ UNCHANGED outsideVars
  BY DEF ClientMisspeaks
<1>2. Sound(b, World, {}, {})
  BY ExpireSound DEF IInv
<1> HIDE DEF b
<1>3. Sound(e, World, {}, {})
  BY <1>2, CloseSound DEF Sound
<1>4. QED BY <1>1, <1>3, Acting

LEMMA ClosingKeeps ==
  ASSUME IInv, HostMisspeaks \/ LegFails PROVE IInv'
<1> DEFINE e == CloseCarrier(Now)
<1>1. Become(e) /\ UNCHANGED outsideVars
  BY DEF HostMisspeaks, LegFails
<1>2. Sound(e, World, {}, {})
  BY CloseSound DEF IInv, Sound
<1>3. QED BY <1>1, <1>2, Acting

LEMMA HeartbeatTickKeeps ==
  ASSUME IInv, HeartbeatTick PROVE IInv'
<1> DEFINE e == Expire(Now)
<1>1. Become(e) /\ UNCHANGED outsideVars
  BY DEF HeartbeatTick
<1>2. Sound(e, World, {}, {})
  BY ExpireSound DEF IInv
<1>3. QED BY <1>1, <1>2, Acting

LEMMA PublishKeeps ==
  ASSUME IInv, PublishWorkspaceUpsert \/ PublishSessionAttachment PROVE IInv'
<1>1. CASE PublishWorkspaceUpsert
  <2> DEFINE e == Publishing(Now, Stream, TRUE)[Len(opens)].d
  <2>1. Become(e) /\ UNCHANGED outsideVars BY <1>1 DEF PublishWorkspaceUpsert
  <2>2. Sound(e, World, {}, {}) BY PublishSound, WorldFields DEF IInv
  <2> HIDE DEF e
  <2>3. QED BY <2>1, <2>2, Acting
<1>2. CASE PublishSessionAttachment
  <2>1. PICK showing \in SUBSET Stream :
          Become(Publishing(Now, showing, FALSE)[Len(opens)].d)
    BY <1>2 DEF PublishSessionAttachment
  <2> DEFINE e == Publishing(Now, showing, FALSE)[Len(opens)].d
  <2>2. Become(e) /\ UNCHANGED outsideVars BY <1>2, <2>1 DEF PublishSessionAttachment
  <2>3. Sound(e, World, {}, {}) BY PublishSound, WorldFields DEF IInv
  <2> HIDE DEF e
  <2>4. QED BY <2>2, <2>3, Acting
<1>3. QED BY <1>1, <1>2

LEMMA NowDraft ==
  ASSUME IInv
  PROVE  /\ Now \in Draft /\ Base(Now, World) /\ Registers(Now, World) /\ Counted(Now)
         /\ SoundWorld(World)
BY DEF IInv, Sound, Base

LEMMA ErrorsKeep ==
  ASSUME IInv, ClientErrors \/ UpstreamErrors PROVE IInv'
<1>1. PICK d : /\ d \in {[Now EXCEPT !.client = "closing"], [Now EXCEPT !.upstream = "closing"]}
               /\ Become(CloseCarrier(d)) /\ UNCHANGED outsideVars
  BY DEF ClientErrors, UpstreamErrors
<1>2. Base(Now, World) /\ Now \in Draft
  BY NowDraft
<1>3. /\ d \in Draft /\ SameBooks(d, Now) /\ d.pending = Now.pending
      /\ d.pendingBytes = Now.pendingBytes /\ d.closeIssued = Now.closeIssued
      /\ d.client \in {Now.client, "closing"}
  <2> DEFINE n == Now
  <2>1. n \in Draft /\ d \in {[n EXCEPT !.client = "closing"], [n EXCEPT !.upstream = "closing"]}
    BY <1>1, <1>2
  <2> HIDE DEF n
  <2>2. /\ d \in Draft /\ SameBooks(d, n) /\ d.pending = n.pending
        /\ d.pendingBytes = n.pendingBytes /\ d.closeIssued = n.closeIssued
        /\ d.client \in {n.client, "closing"}
    BY <2>1 DEF Draft, Leg, SameBooks
  <2>3. QED BY <2>2 DEF n
<1>4. Registers(d, World)
  BY <1>2, <1>3, SameBooksSound DEF Base
<1>5. Base(d, World)
  BY <1>2, <1>3, <1>4 DEF Base, Counted, SameBooks
<1>6. Sound(CloseCarrier(d), World, {}, {})
  BY <1>5, CloseSound
<1>7. QED BY <1>1, <1>6, Acting

LEMMA ClientClosesKeeps ==
  ASSUME IInv, ClientCloses PROVE IInv'
<1> DEFINE b == Dispose(Now)
           d == [b EXCEPT !.client = "closed", !.registered = FALSE, !.upstream = LegClosing(@)]
           e == [d EXCEPT !.grace = ~Settled(d)]
<1>1. Become(e) /\ UNCHANGED outsideVars
  BY DEF ClientCloses
<1>2. Now \in Draft /\ Base(Now, World)
  BY NowDraft
<1>3. /\ b \in Draft /\ SameBooks(b, Now) /\ b.disposed
      /\ b.up = <<>> /\ b.down = <<>> /\ b.pending = Now.pending
      /\ b.pendingBytes = Now.pendingBytes
  BY <1>2, Disposal
<1> HIDE DEF b
<1>4. LegClosing(b.upstream) \in Leg
  <2>1. b.upstream \in Leg BY <1>3 DEF Draft
  <2>2. QED BY <2>1 DEF LegClosing, Leg
<1>5. (~Settled(d)) \in BOOLEAN
  BY DEF Settled
<1> DEFINE v == ~Settled(d)
<1>6. e = [b EXCEPT !.client = "closed", !.registered = FALSE, !.upstream = LegClosing(@),
                    !.grace = v] /\ v \in BOOLEAN
  <2>1. v \in BOOLEAN BY <1>5
  <2> HIDE DEF v
  <2>2. [d EXCEPT !.grace = v] =
          [b EXCEPT !.client = "closed", !.registered = FALSE, !.upstream = LegClosing(@),
                    !.grace = v]
    BY <1>3 DEF Draft
  <2>3. QED BY <2>1, <2>2 DEF v
<1> HIDE DEF v, e
<1>7. /\ e \in Draft /\ SameBooks(e, b) /\ e.disposed /\ e.up = <<>> /\ e.down = <<>>
      /\ e.pending = b.pending /\ e.pendingBytes = b.pendingBytes /\ e.client = "closed"
  BY <1>3, <1>4, <1>6 DEF Draft, Leg, SameBooks
<1>8. Sound(e, World, {}, {})
  <2>1. SameBooks(e, Now) BY <1>3, <1>7 DEF SameBooks
  <2>2. QED BY <1>2, <1>3, <1>7, <2>1, FallenSound
<1>9. QED BY <1>1, <1>8, Acting

LEMMA UpstreamClosesKeeps ==
  ASSUME IInv, UpstreamCloses PROVE IInv'
<1> DEFINE b == Dispose(Now)
           d == [b EXCEPT !.upstream = "closed", !.client = LegClosing(@)]
           e == [d EXCEPT !.grace = ~Settled(d)]
<1>1. /\ Become(e) /\ hostOpen' = [s \in Stream |-> 0] /\ hostOut' = <<>>
      /\ UNCHANGED <<granted, opens, ended, cancelled>>
  BY DEF UpstreamCloses
<1>2. Now \in Draft /\ Base(Now, World) /\ SoundWorld(World)
  BY NowDraft
<1>3. /\ b \in Draft /\ SameBooks(b, Now) /\ b.disposed
      /\ b.up = <<>> /\ b.down = <<>> /\ b.pending = Now.pending
      /\ b.pendingBytes = Now.pendingBytes
  BY <1>2, Disposal
<1> HIDE DEF b
<1>4. LegClosing(b.client) \in Leg \ {"connecting", "open"}
  <2>1. b.client \in Leg \ {"connecting"} BY <1>3 DEF Draft
  <2>2. QED BY <2>1 DEF LegClosing, Leg
<1>5. (~Settled(d)) \in BOOLEAN
  BY DEF Settled
<1> DEFINE v == ~Settled(d)
<1>6. e = [b EXCEPT !.upstream = "closed", !.client = LegClosing(@), !.grace = v]
      /\ v \in BOOLEAN
  <2>1. v \in BOOLEAN BY <1>5
  <2> HIDE DEF v
  <2>2. [d EXCEPT !.grace = v] =
          [b EXCEPT !.upstream = "closed", !.client = LegClosing(@), !.grace = v]
    BY <1>3 DEF Draft
  <2>3. QED BY <2>1, <2>2 DEF v
<1> HIDE DEF v, e
<1>7. /\ e \in Draft /\ SameBooks(e, b) /\ e.disposed /\ e.up = <<>> /\ e.down = <<>>
      /\ e.pending = b.pending /\ e.pendingBytes = b.pendingBytes /\ e.client # "open"
  BY <1>3, <1>4, <1>6 DEF Draft, Leg, SameBooks
<1>8. Sound(e, World, {}, {})
  <2>1. SameBooks(e, Now) BY <1>3, <1>7 DEF SameBooks
  <2>2. QED BY <1>2, <1>3, <1>7, <2>1, FallenSound
<1> DEFINE w == [opens |-> opens, ended |-> ended, cancelled |-> cancelled,
                 hostOpen |-> [s \in Stream |-> 0], hostOut |-> <<>>, granted |-> granted]
<1>9. World' = w
  BY <1>1 DEF World
<1>10. w.opens = World.opens /\ w.ended = World.ended /\ w.cancelled = World.cancelled
       /\ w.granted = World.granted /\ w.hostOpen = [s \in Stream |-> 0] /\ w.hostOut = <<>>
  BY DEF World
<1> HIDE DEF w
<1>11. SoundWorld(w)
  <2>1. <<>> \in Seq(FrameType) OBVIOUS
  <2>2. Len(World.opens) \in Nat
    <3>1. World.opens \in Seq([stream : Stream, endpoint : Endpoint]) BY <1>2 DEF SoundWorld
    <3>2. QED BY <3>1, Elements
  <2>3. w.hostOpen \in [Stream -> 0..Len(w.opens)]
    BY <1>10, <2>2
  <2>4. QED BY <1>2, <1>10, <2>1, <2>3 DEF SoundWorld
<1>12. Sound(e, w, {}, {})
  BY <1>7, <1>8, <1>10 DEF Sound, Base, Registers, Names
<1>13. QED BY <1>1, <1>9, <1>11, <1>12, Stepping

LEMMA GraceFiresKeeps ==
  ASSUME IInv, GraceFires PROVE IInv'
<1> DEFINE b == Dispose(Now)
           e == [b EXCEPT !.grace = FALSE, !.client = BroughtDown(@),
                          !.upstream = BroughtDown(@)]
<1>1. Become(e) /\ UNCHANGED outsideVars
  BY DEF GraceFires
<1>2. Now \in Draft /\ Base(Now, World)
  BY NowDraft
<1>3. /\ b \in Draft /\ SameBooks(b, Now) /\ b.disposed
      /\ b.up = <<>> /\ b.down = <<>> /\ b.pending = Now.pending
      /\ b.pendingBytes = Now.pendingBytes
  BY <1>2, Disposal
<1> HIDE DEF b
<1>4. /\ BroughtDown(b.client) \in Leg \ {"connecting", "open"}
      /\ BroughtDown(b.upstream) \in Leg
  BY DEF BroughtDown, Terminated, Leg
<1>5. /\ e \in Draft /\ SameBooks(e, b) /\ e.disposed /\ e.up = <<>> /\ e.down = <<>>
      /\ e.pending = b.pending /\ e.pendingBytes = b.pendingBytes /\ e.client # "open"
  BY <1>3, <1>4 DEF Draft, SameBooks
<1> HIDE DEF e
<1>6. Sound(e, World, {}, {})
  <2>1. SameBooks(e, Now) BY <1>3, <1>5 DEF SameBooks
  <2>2. QED BY <1>2, <1>3, <1>5, <2>1, FallenSound
<1>7. QED BY <1>1, <1>6, Acting

(* What is granted grows or shrinks.                                       *)
LEMMA Granting ==
  ASSUME IInv, UNCHANGED <<opens, hostOpen, hostOut, ended, cancelled>>,
         granted' \subseteq Stream
  PROVE  /\ World' = [World EXCEPT !.granted = granted']
         /\ SoundWorld(World')
<1>1. World' = [World EXCEPT !.granted = granted']
  BY DEF World
<1>2. SoundWorld(World) BY DEF IInv
<1>3. World'.opens = World.opens /\ World'.ended = World.ended
      /\ World'.cancelled = World.cancelled /\ World'.hostOpen = World.hostOpen
      /\ World'.hostOut = World.hostOut /\ World'.granted = granted'
  BY DEF World
<1>4. SoundWorld(World')
  <2> DEFINE w == World'
  <2>1. w.opens = World.opens /\ w.ended = World.ended
      /\ w.cancelled = World.cancelled /\ w.hostOpen = World.hostOpen
      /\ w.hostOut = World.hostOut /\ w.granted = granted'
    BY <1>3
  <2> HIDE DEF w
  <2>2. SoundWorld(w) BY <1>2, <2>1 DEF SoundWorld
  <2>3. QED BY <2>2 DEF w
<1>5. QED BY <1>1, <1>4

LEMMA RevokeKeeps ==
  ASSUME IInv, Revoke PROVE IInv'
<1> DEFINE b == Dispose(Now)
           c == ArmGrace(b)
           e == [c EXCEPT !.registered = FALSE, !.baseline = FALSE,
                          !.client = IF @ = "open" THEN "closing" ELSE Terminated(@)]
<1>1. Become(e) /\ granted' \in SUBSET granted
      /\ UNCHANGED <<opens, hostOpen, hostOut, ended, cancelled>>
  BY DEF Revoke, TornDown
<1>2. Now \in Draft /\ Base(Now, World) /\ Registers(Now, World) /\ SoundWorld(World)
  BY NowDraft
<1>3. /\ b \in Draft /\ SameBooks(b, Now) /\ b.disposed
      /\ b.up = <<>> /\ b.down = <<>> /\ b.pending = Now.pending
      /\ b.pendingBytes = Now.pendingBytes
  BY <1>2, Disposal
<1> HIDE DEF b
<1>4. /\ c \in Draft /\ SameBooks(c, b) /\ c.disposed
      /\ c.up = <<>> /\ c.down = <<>> /\ c.pending = b.pending
      /\ c.pendingBytes = b.pendingBytes
  BY <1>3 DEF ArmGrace, Draft, SameBooks
<1> HIDE DEF c
<1>5. (IF c.client = "open" THEN "closing" ELSE Terminated(c.client))
        \in Leg \ {"connecting", "open"}
  BY DEF Terminated, Leg
<1>6. /\ e \in Draft /\ e.active = c.active /\ e.deferred = c.deferred
      /\ e.forwarded = c.forwarded /\ e.disposed /\ e.up = <<>> /\ e.down = <<>>
      /\ e.pending = c.pending /\ e.pendingBytes = c.pendingBytes /\ e.client # "open"
  BY <1>4, <1>5 DEF Draft
<1> HIDE DEF e
<1>7. e.active = Now.active /\ e.deferred = Now.deferred /\ e.forwarded = Now.forwarded
      /\ e.pending = Now.pending /\ e.pendingBytes = Now.pendingBytes
  BY <1>3, <1>4, <1>6 DEF SameBooks
<1> DEFINE w == World'
<1>8. SoundWorld(w)
  <2>1. granted' \subseteq Stream
    BY <1>1, <1>2, WorldFields DEF SoundWorld
  <2>2. QED BY <1>1, <2>1, Granting
<1>9. w.opens = World.opens
  BY <1>1 DEF World
<1> HIDE DEF w
<1>10. Registers(e, w)
  BY <1>2, <1>7, <1>9 DEF Registers, Names, IsDeferred
<1>11. Base(e, w)
  BY <1>2, <1>6, <1>7, <1>10 DEF Base, Counted
<1>12. Sound(e, w, {}, {})
  BY <1>6, <1>11 DEF Sound
<1>13. QED BY <1>1, <1>8, <1>12, Stepping DEF w

LEMMA SameNow ==
  ASSUME UNCHANGED carrierVars
  PROVE  Now' = Now
BY DEF carrierVars, Now

LEMMA GrantSessionKeeps ==
  ASSUME IInv, NEW s \in Stream, GrantSession(s) PROVE IInv'
<1>1. granted' = granted \cup {s} /\ UNCHANGED <<carrierVars, opens, hostOpen, hostOut, ended, cancelled>>
  BY DEF GrantSession
<1> DEFINE w == World'
           u == World
           d == Now
<1>2. SoundWorld(u) /\ Sound(d, u, {}, {}) BY DEF IInv
<1>3. SoundWorld(w)
  <2>1. granted' \subseteq Stream BY <1>1, <1>2, WorldFields DEF SoundWorld
  <2>2. QED BY <1>1, <2>1, Granting
<1>4. w.opens = u.opens /\ w.ended = u.ended /\ w.cancelled = u.cancelled
      /\ w.hostOpen = u.hostOpen /\ w.hostOut = u.hostOut /\ u.granted \subseteq w.granted
  BY <1>1 DEF World
<1>5. Now' = d
  BY <1>1, SameNow
<1> HIDE DEF w, u, d
<1>6. \A n : MayBeTold(u, n) => MayBeTold(w, n)
  BY <1>4 DEF MayBeTold
<1>7. Base(d, w)
  BY <1>2, <1>4 DEF Sound, Base, Registers, Names
<1>8. ASSUME ~d.disposed PROVE Lively(d, w, {}, {})
  <2>1. Lively(d, u, {}, {}) BY <1>2, <1>8 DEF Sound
  <2>2. \A q, i : Opens(q, i, d, u, {}) => Opens(q, i, d, w, {})
    BY <1>4, <1>6 DEF Opens
  <2>3. \A f : Named(f, w) <=> Named(f, u)
    BY <1>4 DEF Named, Names
  <2>4. \A q : Upward(q, d, u, {}) => Upward(q, d, w, {})
    BY <2>2, <2>3 DEF Upward
  <2>5. Served(d, w, {})
    BY <1>4, <1>6, <2>1, <2>3 DEF Lively, Served, Names
  <2>6. Streams(d, w, {}) /\ Reached(d, w) /\ Downward(d.down, w)
    BY <1>4, <2>1, <2>3 DEF Lively, Streams, Unended, Reached, Downward
  <2>7. QED BY <2>1, <2>4, <2>5, <2>6 DEF Lively
<1>9. Sound(d, w, {}, {})
  BY <1>2, <1>7, <1>8 DEF Sound
<1>10. QED BY <1>3, <1>5, <1>9 DEF IInv, w

(* Drafts that agree but for the baseline, the timer, the register and how *)
(* late the deferred streams are.                                          *)
LEMMA AlikeSound ==
  ASSUME NEW w, NEW d, Sound(d, w, {}, {}), NEW e \in Draft,
         e.active = d.active, Len(e.deferred) = Len(d.deferred), e.forwarded = d.forwarded,
         \A i \in 1..Len(d.deferred) :
           /\ e.deferred[i].stream = d.deferred[i].stream
           /\ e.deferred[i].opening = d.deferred[i].opening
           /\ e.deferred[i].endpoint = d.deferred[i].endpoint,
         e.pending = d.pending, e.pendingBytes = d.pendingBytes,
         e.up = d.up, e.down = d.down, e.disposed = d.disposed,
         e.closeIssued = d.closeIssued, e.client = d.client, e.upstream = d.upstream
  PROVE  Sound(e, w, {}, {})
<1>1. \A t : IsDeferred(e, t) <=> IsDeferred(d, t)
  BY DEF IsDeferred
<1>2. Base(e, w)
  <2>1. Registers(e, w)
    <3>1. Registers(d, w) BY DEF Sound, Base
    <3>2. \A i \in 1..Len(e.deferred) : e.active[e.deferred[i].stream] =
            [endpoint |-> e.deferred[i].endpoint, opening |-> e.deferred[i].opening]
      BY <3>1 DEF Registers
    <3>3. QED BY <1>1, <3>1, <3>2 DEF Registers
  <2>2. QED BY <2>1 DEF Sound, Base, Counted
<1>3. ASSUME ~d.disposed PROVE Lively(e, w, {}, {})
  <2>1. Lively(d, w, {}, {}) BY <1>3 DEF Sound
  <2>2. Streams(e, w, {}) BY <1>1, <2>1 DEF Lively, Streams, Unended
  <2>3. Served(e, w, {}) BY <1>1, <2>1 DEF Lively, Served
  <2>4. Upward(e.up, e, w, {}) /\ Upward(e.pending, e, w, {})
    BY <1>1, <2>1 DEF Lively, Upward, Opens
  <2>5. \A i \in 1..Len(e.deferred) : NoFrameOf(e.down, e.deferred[i].stream)
    BY <2>1 DEF Lively
  <2>6. QED BY <2>1, <2>2, <2>3, <2>4, <2>5 DEF Lively, Reached
<1>4. QED BY <1>2, <1>3 DEF Sound

LEMMA BaselineElsewhereKeeps ==
  ASSUME IInv, BaselineElsewhere PROVE IInv'
<1> DEFINE d == Now
           w == World
           e == [active |-> active, deferred |-> deferred, forwarded |-> forwarded,
                 pending |-> pending, pendingBytes |-> pendingBytes, up |-> up,
                 down |-> down, disposed |-> disposed, closeIssued |-> closeIssued,
                 grace |-> grace, client |-> client, upstream |-> upstream,
                 registered |-> registered, baseline |-> TRUE]
<1>1. Now' = e /\ World' = w
  <2>1. World' = w BY DEF BaselineElsewhere, World, outsideVars
  <2>3. Now' = e BY DEF BaselineElsewhere, Now
  <2>4. QED BY <2>1, <2>3
<1>2. SoundWorld(w) /\ Sound(d, w, {}, {}) /\ d \in Draft BY NowDraft DEF IInv
<1>3. /\ e \in Draft /\ e.active = d.active /\ e.deferred = d.deferred
      /\ e.forwarded = d.forwarded /\ e.pending = d.pending
      /\ e.pendingBytes = d.pendingBytes /\ e.up = d.up /\ e.down = d.down
      /\ e.disposed = d.disposed /\ e.closeIssued = d.closeIssued
      /\ e.client = d.client /\ e.upstream = d.upstream
  <2>1. e \in Draft BY <1>2 DEF Draft, Now
  <2>2. QED BY <2>1 DEF Now
<1> HIDE DEF d, w
<1> HIDE DEF e
<1>4. Sound(e, w, {}, {})
  BY <1>2, <1>3, AlikeSound
<1>5. QED BY <1>1, <1>2, <1>4 DEF IInv

LEMMA TtlPassesKeeps ==
  ASSUME IInv, TtlPasses PROVE IInv'
<1>1. PICK i \in 1..Len(deferred) :
        /\ deferred' = [deferred EXCEPT ![i].late = TRUE]
        /\ UNCHANGED <<active, forwarded, pending, pendingBytes, up, down, disposed,
                       closeIssued, grace, client, upstream, registered, baseline,
                       outsideVars>>
  BY DEF TtlPasses
<1> DEFINE d == Now
           w == World
           q == [deferred EXCEPT ![i].late = TRUE]
           e == [active |-> active, deferred |-> q, forwarded |-> forwarded,
                 pending |-> pending, pendingBytes |-> pendingBytes, up |-> up,
                 down |-> down, disposed |-> disposed, closeIssued |-> closeIssued,
                 grace |-> grace, client |-> client, upstream |-> upstream,
                 registered |-> registered, baseline |-> baseline]
<1>2. Now' = e /\ World' = w
  <2>1. World' = w BY <1>1 DEF World, outsideVars
  <2>2. Now' = e BY <1>1 DEF Now
  <2>3. QED BY <2>1, <2>2
<1>3. SoundWorld(w) /\ Sound(d, w, {}, {}) /\ d \in Draft BY NowDraft DEF IInv
<1>4. deferred \in Seq(Waiting) BY <1>3 DEF Draft, Now
<1>5. deferred[i] \in Waiting /\ Len(deferred) \in Nat
      /\ \A k \in 1..Len(deferred) : deferred[k] \in Waiting
  BY <1>4, Elements
<1> DEFINE x == [deferred[i] EXCEPT !.late = TRUE]
<1>6. /\ x \in Waiting /\ x.stream = deferred[i].stream /\ x.opening = deferred[i].opening
      /\ x.endpoint = deferred[i].endpoint
  BY <1>5 DEF Waiting
<1>7. q = [deferred EXCEPT ![i] = x]
  BY <1>4
<1> HIDE DEF q, x
<1>8. /\ q \in Seq(Waiting) /\ Len(q) = Len(deferred)
      /\ \A k \in 1..Len(deferred) : q[k] = IF k = i THEN x ELSE deferred[k]
  BY <1>4, <1>6, <1>7
<1>9. \A k \in 1..Len(deferred) :
        /\ q[k].stream = deferred[k].stream /\ q[k].opening = deferred[k].opening
        /\ q[k].endpoint = deferred[k].endpoint
  BY <1>6, <1>8
<1>10. e \in Draft
  BY <1>3, <1>8 DEF Draft, Now
<1>11. /\ e.active = d.active /\ e.deferred = q /\ d.deferred = deferred
       /\ e.forwarded = d.forwarded /\ e.pending = d.pending
       /\ e.pendingBytes = d.pendingBytes /\ e.up = d.up /\ e.down = d.down
       /\ e.disposed = d.disposed /\ e.closeIssued = d.closeIssued
       /\ e.client = d.client /\ e.upstream = d.upstream
  BY DEF Now
<1> HIDE DEF d, w, e
<1>12. Sound(e, w, {}, {})
  BY <1>3, <1>8, <1>9, <1>10, <1>11, AlikeSound
<1>13. QED BY <1>2, <1>3, <1>12 DEF IInv

LEMMA Tails ==
  ASSUME NEW M, NEW q \in Seq(M), q # <<>>
  PROVE  /\ Tail(q) \in Seq(M) /\ Len(Tail(q)) \in Nat /\ Len(q) = Len(Tail(q)) + 1
         /\ \A i \in 1..Len(Tail(q)) : Tail(q)[i] = q[i + 1] /\ i + 1 \in 1..Len(q)
         /\ \A i \in 1..Len(q) : i # 1 => i - 1 \in 1..Len(Tail(q)) /\ Tail(q)[i - 1] = q[i]
         /\ Head(q) = q[1] /\ 1 \in 1..Len(q) /\ q[1] \in M
<1> DEFINE r == Tail(q)
<1>1. Len(q) \in Nat /\ Len(q) >= 1 /\ Head(q) = q[1] /\ \A i \in 1..Len(q) : q[i] \in M
  OBVIOUS
<1>2. r \in Seq(M) /\ Len(r) = Len(q) - 1 /\ \A i \in 1..Len(q) - 1 : r[i] = q[i + 1]
  OBVIOUS
<1> HIDE DEF r
<1>3. Len(r) \in Nat /\ Len(q) = Len(r) + 1
  BY <1>1, <1>2
<1>4. \A i \in 1..Len(r) : r[i] = q[i + 1] /\ i + 1 \in 1..Len(q)
  BY <1>2, <1>3
<1>5. ASSUME NEW i \in 1..Len(q), i # 1 PROVE i - 1 \in 1..Len(r) /\ r[i - 1] = q[i]
  <2>1. i - 1 \in 1..Len(r) /\ (i - 1) + 1 = i BY <1>3, <1>5
  <2>2. QED BY <1>4, <2>1
<1>6. QED BY <1>1, <1>2, <1>3, <1>4, <1>5 DEF r

LEMMA ClientReceivesKeeps ==
  ASSUME IInv, ClientReceives PROVE IInv'
<1> DEFINE d == Now
           u == World
           f == Head(down)
           e == [active |-> active, deferred |-> deferred, forwarded |-> forwarded,
                 pending |-> pending, pendingBytes |-> pendingBytes, up |-> up,
                 down |-> Tail(down), disposed |-> disposed, closeIssued |-> closeIssued,
                 grace |-> grace, client |-> client, upstream |-> upstream,
                 registered |-> registered, baseline |-> baseline]
           w == [opens |-> opens,
                 ended |-> IF Final(f) THEN ended \cup {f.opening} ELSE ended,
                 cancelled |-> cancelled, hostOpen |-> hostOpen, hostOut |-> hostOut,
                 granted |-> granted]
<1>1. Now' = e /\ World' = w /\ down # <<>>
  <2>1. World' = w BY DEF ClientReceives, World
  <2>2. Now' = e BY DEF ClientReceives, Now
  <2>3. QED BY <2>1, <2>2 DEF ClientReceives
<1>2. SoundWorld(u) /\ Sound(d, u, {}, {}) /\ d \in Draft BY NowDraft DEF IInv
<1>3. down \in Seq(FrameType) BY <1>2 DEF Draft, Now
<1> DEFINE q == down
           r == Tail(down)
<1>4. /\ r \in Seq(FrameType) /\ Len(r) \in Nat /\ Len(q) = Len(r) + 1
      /\ \A i \in 1..Len(r) : r[i] = q[i + 1] /\ i + 1 \in 1..Len(q)
      /\ \A i \in 1..Len(q) : i # 1 => i - 1 \in 1..Len(r) /\ r[i - 1] = q[i]
      /\ f = q[1] /\ 1 \in 1..Len(q) /\ q[1] \in FrameType
  BY <1>1, <1>3, Tails
<1>5. e \in Draft
  BY <1>2, <1>4 DEF Draft, Now
<1>6. /\ e.active = d.active /\ e.deferred = d.deferred /\ e.forwarded = d.forwarded
      /\ e.pending = d.pending /\ e.pendingBytes = d.pendingBytes
      /\ e.up = d.up /\ d.down = q /\ e.down = r
      /\ e.disposed = d.disposed /\ e.closeIssued = d.closeIssued
      /\ e.client = d.client /\ e.upstream = d.upstream
  BY DEF Now
<1>7. /\ w.opens = u.opens /\ w.cancelled = u.cancelled /\ w.hostOpen = u.hostOpen
      /\ w.hostOut = u.hostOut /\ w.granted = u.granted
      /\ w.ended = IF Final(f) THEN u.ended \cup {f.opening} ELSE u.ended
  BY DEF World
<1> HIDE DEF d, u, e, w, q, r, f
<1>8. ~d.disposed /\ Lively(d, u, {}, {})
  BY <1>1, <1>2, <1>6 DEF Sound, q
<1>9. Downward(q, u) BY <1>6, <1>8 DEF Lively
<1>10. \A n : EndingIn(q, n) <=> (Final(f) /\ f.opening = n) \/ EndingIn(r, n)
  <2>1. \A n : EndingIn(r, n) => EndingIn(q, n)
    BY <1>4 DEF EndingIn
  <2>2. \A n : Final(f) /\ f.opening = n => EndingIn(q, n)
    BY <1>4 DEF EndingIn
  <2>3. \A n : EndingIn(q, n) => (Final(f) /\ f.opening = n) \/ EndingIn(r, n)
    BY <1>4 DEF EndingIn
  <2>4. QED BY <2>1, <2>2, <2>3
<1>11. Downward(r, w)
  <2>1. SUFFICES ASSUME NEW i \in 1..Len(r)
        PROVE /\ Named(r[i], w) /\ (r[i].tagged <=> ~Final(r[i]))
              /\ r[i].opening \notin w.ended
              /\ r[i].opening \in w.cancelled => i = 1
              /\ \A j \in 1..i - 1 : Final(r[j]) => r[j].opening # r[i].opening
    BY DEF Downward
  <2> DEFINE k == i + 1
  <2>2. r[i] = q[k] /\ k \in 1..Len(q) /\ k # 1 /\ 1 \in 1..k - 1 /\ k \in Nat
    BY <1>4
  <2>3. \A j \in 1..i - 1 : j + 1 \in 1..k - 1 /\ r[j] = q[j + 1]
    BY <1>4
  <2> HIDE DEF k
  <2>4. /\ Named(q[k], u) /\ (q[k].tagged <=> ~Final(q[k]))
        /\ q[k].opening \notin u.ended
        /\ q[k].opening \in u.cancelled => k = 1
        /\ \A j \in 1..k - 1 : Final(q[j]) => q[j].opening # q[k].opening
    BY <1>9, <2>2 DEF Downward
  <2>5. Final(f) => f.opening # q[k].opening
    BY <1>4, <2>2, <2>4
  <2>6. Named(q[k], w) BY <1>7, <2>4 DEF Named, Names
  <2>7. \A j \in 1..i - 1 : Final(r[j]) => r[j].opening # r[i].opening
    BY <2>2, <2>3, <2>4
  <2>8. QED BY <1>7, <2>2, <2>4, <2>5, <2>6, <2>7
<1>12. \A n : Unended(d, u, n) => Unended(e, w, n)
  BY <1>6, <1>7, <1>10 DEF Unended
<1>13. \A t : IsDeferred(e, t) <=> IsDeferred(d, t)
  BY <1>6 DEF IsDeferred
<1>14. Streams(e, w, {})
  <2>1. Streams(d, u, {}) BY <1>8 DEF Lively
  <2>2. \A s \in Stream : e.active[s] # NoStream =>
          /\ s \in e.forwarded \/ IsDeferred(e, s)
          /\ Unended(e, w, e.active[s].opening)
    BY <1>6, <1>12, <1>13, <2>1 DEF Streams
  <2>3. \A n \in 1..Len(w.opens) :
          \/ n \in w.ended \cup w.cancelled \/ EndingIn(e.down, n)
          \/ e.active[w.opens[n].stream] # NoStream
    <3>1. \A n \in 1..Len(u.opens) :
            \/ n \in u.ended \cup u.cancelled \/ EndingIn(q, n)
            \/ d.active[u.opens[n].stream] # NoStream
      BY <1>6, <2>1 DEF Streams
    <3>2. QED BY <1>6, <1>7, <1>10, <3>1
  <2>4. QED BY <2>2, <2>3 DEF Streams
<1>15. Served(e, w, {})
  BY <1>6, <1>7, <1>8, <1>13 DEF Lively, Served, Named, Names, MayBeTold
<1>16. \A p : Upward(p, d, u, {}) => Upward(p, e, w, {})
  <2>1. \A p, i : Opens(p, i, d, u, {}) => Opens(p, i, e, w, {})
    BY <1>6, <1>7 DEF Opens, MayBeTold
  <2>2. \A g : Named(g, u) => Named(g, w)
    BY <1>7 DEF Named, Names
  <2>3. QED BY <1>6, <1>13, <2>1, <2>2 DEF Upward
<1>17. \A t : NoFrameOf(q, t) => NoFrameOf(r, t)
  BY <1>4 DEF NoFrameOf
<1>18. Lively(e, w, {}, {})
  <2>1. Upward(e.up, e, w, {}) /\ Upward(e.pending, e, w, {})
    BY <1>6, <1>8, <1>16 DEF Lively
  <2>2. \A i \in 1..Len(e.deferred) : NoFrameOf(e.down, e.deferred[i].stream)
    BY <1>6, <1>8, <1>17 DEF Lively
  <2>3. Reached(e, w) BY <1>6, <1>7, <1>8 DEF Lively, Reached
  <2>4. Downward(e.down, w) BY <1>6, <1>11
  <2>5. QED BY <1>14, <1>15, <2>1, <2>2, <2>3, <2>4 DEF Lively
<1>19. Base(e, w)
  <2>1. Registers(d, u) /\ Counted(d) BY <1>2 DEF Sound, Base
  <2>2. Registers(e, w) BY <1>6, <1>7, <1>13, <2>1 DEF Registers, Names
  <2>3. Counted(e) BY <1>6, <2>1 DEF Counted
  <2>4. QED BY <1>2, <1>5, <1>6, <2>2, <2>3 DEF Sound, Base
<1>20. Sound(e, w, {}, {})
  BY <1>2, <1>6, <1>8, <1>18, <1>19 DEF Sound
<1>21. SoundWorld(w)
  <2>1. Names(u, f.opening, f.stream)
    BY <1>4, <1>9 DEF Downward, Named
  <2>2. w.ended \subseteq 1..Len(w.opens)
    BY <1>2, <1>7, <2>1 DEF SoundWorld, Names
  <2>3. QED BY <1>2, <1>7, <2>2 DEF SoundWorld
<1>22. QED BY <1>1, <1>20, <1>21 DEF IInv

LEMMA HostReceivesKeeps ==
  ASSUME IInv, HostReceives PROVE IInv'
<1> DEFINE d == Now
           u == World
           f == Head(up)
           h == CASE Head(up).kind = "open" ->
                       [hostOpen EXCEPT ![Head(up).stream] = Head(up).opening]
                  [] Head(up).kind = "cancel" -> [hostOpen EXCEPT ![Head(up).stream] = 0]
                  [] OTHER -> hostOpen
           e == [active |-> active, deferred |-> deferred, forwarded |-> forwarded,
                 pending |-> pending, pendingBytes |-> pendingBytes, up |-> Tail(up),
                 down |-> down, disposed |-> disposed, closeIssued |-> closeIssued,
                 grace |-> grace, client |-> client, upstream |-> upstream,
                 registered |-> registered, baseline |-> baseline]
           w == [opens |-> opens, ended |-> ended, cancelled |-> cancelled,
                 hostOpen |-> h, hostOut |-> hostOut, granted |-> granted]
<1>1. Now' = e /\ World' = w /\ up # <<>>
  <2>1. World' = w BY DEF HostReceives, World
  <2>2. Now' = e BY DEF HostReceives, Now
  <2>3. QED BY <2>1, <2>2 DEF HostReceives
<1>2. SoundWorld(u) /\ Sound(d, u, {}, {}) /\ d \in Draft BY NowDraft DEF IInv
<1>3. up \in Seq(FrameType) BY <1>2 DEF Draft, Now
<1> DEFINE q == up
           r == Tail(up)
<1>4. /\ r \in Seq(FrameType) /\ Len(r) \in Nat /\ Len(q) = Len(r) + 1
      /\ \A i \in 1..Len(r) : r[i] = q[i + 1] /\ i + 1 \in 1..Len(q)
      /\ \A i \in 1..Len(q) : i # 1 => i - 1 \in 1..Len(r) /\ r[i - 1] = q[i]
      /\ f = q[1] /\ 1 \in 1..Len(q) /\ q[1] \in FrameType
  BY <1>1, <1>3, Tails
<1>5. e \in Draft
  BY <1>2, <1>4 DEF Draft, Now
<1>6. /\ e.active = d.active /\ e.deferred = d.deferred /\ e.forwarded = d.forwarded
      /\ e.pending = d.pending /\ e.pendingBytes = d.pendingBytes
      /\ d.up = q /\ e.up = r /\ e.down = d.down
      /\ e.disposed = d.disposed /\ e.closeIssued = d.closeIssued
      /\ e.client = d.client /\ e.upstream = d.upstream
  BY DEF Now
<1>7. /\ w.opens = u.opens /\ w.cancelled = u.cancelled /\ w.ended = u.ended
      /\ w.hostOut = u.hostOut /\ w.granted = u.granted
      /\ w.hostOpen = h /\ u.hostOpen = hostOpen
  BY DEF World
<1>8. hostOpen \in [Stream -> 0..Len(u.opens)] /\ f.stream \in Stream
  BY <1>2, <1>4, <1>7 DEF SoundWorld, FrameType
<1>9. /\ f.kind = "open" => h[f.stream] = f.opening
      /\ f.kind = "cancel" => h[f.stream] = 0
      /\ f.kind \notin {"open", "cancel"} => h[f.stream] = hostOpen[f.stream]
      /\ \A t \in Stream : t # f.stream => h[t] = hostOpen[t]
      /\ h \in {[hostOpen EXCEPT ![f.stream] = f.opening], [hostOpen EXCEPT ![f.stream] = 0],
                hostOpen}
  BY <1>8
<1> HIDE DEF d, u, e, w, q, r, f, h
<1>10. ~d.disposed /\ Lively(d, u, {}, {})
  BY <1>1, <1>2, <1>6 DEF Sound, q
<1>11. d.upstream = "open" /\ d.pending = <<>>
  BY <1>1, <1>6, <1>10 DEF Lively, Reached, q
<1>12. Upward(q, d, u, {}) BY <1>6, <1>10 DEF Lively
<1>13. \A t : IsDeferred(e, t) <=> IsDeferred(d, t)
  BY <1>6 DEF IsDeferred
<1>14. Names(u, f.opening, f.stream) /\ ~IsDeferred(d, f.stream)
       /\ (f.kind = "open" => Opens(q, 1, d, u, {}))
  BY <1>4, <1>12 DEF Upward, Named
<1>15. ASSUME NEW t, CancelIn(q, t), ~(f.kind = "cancel" /\ f.stream = t) PROVE CancelIn(r, t)
  BY <1>4, <1>15 DEF CancelIn
<1>16. Upward(r, e, w, {})
  <2>1. SUFFICES ASSUME NEW i \in 1..Len(r)
        PROVE /\ Named(r[i], w) /\ ~IsDeferred(e, r[i].stream)
              /\ r[i].kind = "cancel" => e.active[r[i].stream] = NoStream
              /\ r[i].kind = "open" => Opens(r, i, e, w, {})
    BY DEF Upward
  <2> DEFINE k == i + 1
  <2>2. r[i] = q[k] /\ k \in 1..Len(q) /\ k # 1 /\ k \in Nat
    BY <1>4
  <2>3. \A j \in k + 1..Len(q) : j - 1 \in i + 1..Len(r) /\ r[j - 1] = q[j]
    BY <1>4
  <2>4. \A j \in 1..Len(r) : j # i => j + 1 # k /\ j + 1 \in 1..Len(q) /\ r[j] = q[j + 1]
    BY <1>4
  <2> HIDE DEF k
  <2>5. /\ Named(q[k], u) /\ ~IsDeferred(d, q[k].stream)
        /\ q[k].kind = "cancel" => d.active[q[k].stream] = NoStream
        /\ q[k].kind = "open" => Opens(q, k, d, u, {})
    BY <1>12, <2>2 DEF Upward
  <2>6. Named(r[i], w) BY <1>7, <2>2, <2>5 DEF Named, Names
  <2>7. ASSUME r[i].kind = "open" PROVE Opens(r, i, e, w, {})
    <3> DEFINE t == q[k].stream
    <3>1. /\ u.hostOpen[t] = 0 /\ NoFrameOf(u.hostOut, t)
          /\ \A j \in 1..Len(q) : j # k /\ q[j].kind = "open" => q[j].stream # t
          /\ \/ t \in d.forwarded
             \/ \E j \in k + 1..Len(q) : q[j].kind = "cancel" /\ q[j].stream = t
          /\ MayBeTold(u, q[k].opening)
      BY <2>2, <2>5, <2>7 DEF Opens
    <3>2. t \in Stream
      <4>1. q[k] \in FrameType BY <1>3, <2>2, Elements DEF q
      <4>2. QED BY <4>1 DEF FrameType
    <3> HIDE DEF t
    <3>3. w.hostOpen[t] = 0
      <4>1. f.kind = "open" => f.stream # t BY <1>4, <2>2, <3>1
      <4>2. QED BY <1>7, <1>9, <3>1, <3>2, <4>1
    <3>4. \A j \in 1..Len(r) : j # i /\ r[j].kind = "open" => r[j].stream # t
      BY <2>4, <3>1
    <3>5. \/ t \in e.forwarded
          \/ \E j \in i + 1..Len(r) : r[j].kind = "cancel" /\ r[j].stream = t
      BY <1>6, <2>3, <3>1
    <3>6. MayBeTold(w, q[k].opening) BY <1>7, <3>1 DEF MayBeTold
    <3>7. QED BY <1>7, <2>2, <3>1, <3>3, <3>4, <3>5, <3>6 DEF Opens, t
  <2>8. QED BY <1>6, <1>13, <2>2, <2>5, <2>6, <2>7
<1>17. Served(e, w, {})
  <2>1. Served(d, u, {}) BY <1>10 DEF Lively
  <2>2. ASSUME NEW t \in Stream, w.hostOpen[t] # 0
        PROVE  /\ Names(w, w.hostOpen[t], t) /\ ~IsDeferred(e, t)
               /\ t \in e.forwarded \/ CancelIn(e.up, t)
               /\ MayBeTold(w, w.hostOpen[t])
    <3>1. CASE f.kind = "open" /\ t = f.stream
      <4>1. w.hostOpen[t] = f.opening BY <1>7, <1>9, <3>1
      <4>2. t \in d.forwarded \/ \E j \in 2..Len(q) : q[j].kind = "cancel" /\ q[j].stream = t
        BY <1>4, <1>14, <3>1 DEF Opens
      <4>3. \A j \in 2..Len(q) : j - 1 \in 1..Len(r) /\ r[j - 1] = q[j]
        BY <1>4
      <4>4. t \in e.forwarded \/ CancelIn(e.up, t)
        BY <1>6, <4>2, <4>3 DEF CancelIn
      <4>5. MayBeTold(w, f.opening)
        BY <1>4, <1>7, <1>14, <3>1 DEF Opens, MayBeTold
      <4>6. QED BY <1>7, <1>13, <1>14, <3>1, <4>1, <4>4, <4>5 DEF Names
    <3>2. CASE ~(f.kind = "open" /\ t = f.stream)
      <4>1. /\ w.hostOpen[t] = u.hostOpen[t] /\ ~(f.kind = "cancel" /\ f.stream = t)
        BY <1>7, <1>9, <2>2, <3>2
      <4>2. /\ Names(u, u.hostOpen[t], t) /\ ~IsDeferred(d, t)
            /\ t \in d.forwarded \/ CancelIn(q, t)
            /\ MayBeTold(u, u.hostOpen[t])
        BY <1>6, <2>1, <2>2, <4>1 DEF Served
      <4>3. t \in e.forwarded \/ CancelIn(e.up, t)
        BY <1>6, <1>15, <4>1, <4>2
      <4>4. QED BY <1>7, <1>13, <4>1, <4>2, <4>3 DEF Names, MayBeTold
    <3>3. QED BY <3>1, <3>2
  <2>3. ASSUME NEW i \in 1..Len(w.hostOut)
        PROVE  /\ Named(w.hostOut[i], w) /\ ~IsDeferred(e, w.hostOut[i].stream)
               /\ w.hostOut[i].kind = "end" => w.hostOpen[w.hostOut[i].stream] = 0
    <3> DEFINE g == u.hostOut[i]
    <3>1. /\ Named(g, u) /\ ~IsDeferred(d, g.stream)
          /\ g.kind = "end" => u.hostOpen[g.stream] = 0
      BY <1>7, <2>1, <2>3 DEF Served
    <3>2. g.stream \in Stream
      <4>1. u.hostOut \in Seq(FrameType) BY <1>2 DEF SoundWorld
      <4>2. g \in FrameType BY <1>7, <2>3, <4>1, Elements
      <4>3. QED BY <4>2 DEF FrameType
    <3>3. f.kind = "open" => g.stream # f.stream
      BY <1>4, <1>7, <1>14, <2>3 DEF Opens, NoFrameOf
    <3>4. g = w.hostOut[i] BY <1>7
    <3> HIDE DEF g
    <3>5. g.kind = "end" => w.hostOpen[g.stream] = 0
      BY <1>7, <1>9, <3>1, <3>2, <3>3
    <3>6. QED BY <1>7, <1>13, <3>1, <3>4, <3>5 DEF Named, Names
  <2>4. QED BY <2>2, <2>3 DEF Served
<1>18. Lively(e, w, {}, {})
  <2>1. Upward(e.up, e, w, {}) BY <1>6, <1>16
  <2>2. Upward(e.pending, e, w, {})
    <3>1. \A i \in 1..Len(e.pending) : FALSE
      <4>1. e.pending = <<>> BY <1>6, <1>11
      <4>2. QED BY <4>1
    <3>2. QED BY <3>1 DEF Upward
  <2>3. Streams(e, w, {})
    BY <1>6, <1>7, <1>10, <1>13 DEF Lively, Streams, Unended
  <2>4. Reached(e, w) BY <1>6, <1>11 DEF Reached
  <2>5. Downward(e.down, w)
    BY <1>6, <1>7, <1>10 DEF Lively, Downward, Named, Names
  <2>6. \A i \in 1..Len(e.deferred) : NoFrameOf(e.down, e.deferred[i].stream)
    BY <1>6, <1>10 DEF Lively
  <2>7. QED BY <1>17, <2>1, <2>2, <2>3, <2>4, <2>5, <2>6 DEF Lively
<1>19. Base(e, w)
  <2>1. Registers(d, u) /\ Counted(d) BY <1>2 DEF Sound, Base
  <2>2. Registers(e, w) BY <1>6, <1>7, <1>13, <2>1 DEF Registers, Names
  <2>3. Counted(e) BY <1>6, <2>1 DEF Counted
  <2>4. QED BY <1>2, <1>5, <1>6, <2>2, <2>3 DEF Sound, Base
<1>20. Sound(e, w, {}, {})
  BY <1>2, <1>6, <1>10, <1>18, <1>19 DEF Sound
<1>21. SoundWorld(w)
  <2> DEFINE m == Len(u.opens)
  <2>1. f.opening \in 0..m
    BY <1>14 DEF Names
  <2>2. 0 \in 0..m
    <3>1. u.opens \in Seq([stream : Stream, endpoint : Endpoint]) BY <1>2 DEF SoundWorld
    <3>2. m \in Nat BY <3>1, Elements
    <3> HIDE DEF m
    <3>3. QED BY <3>2
  <2>3. hostOpen \in [Stream -> 0..m] BY <1>8
  <2> HIDE DEF m
  <2>4. h \in [Stream -> 0..m]
    BY <1>8, <1>9, <2>1, <2>2, <2>3
  <2>5. QED BY <1>2, <1>7, <2>4 DEF SoundWorld, m
<1>22. QED BY <1>1, <1>20, <1>21 DEF IInv

LEMMA HostSendsKeeps ==
  ASSUME IInv, NEW s \in Stream, NEW kind \in {"item", "baseline", "end"},
         HostSends(s, kind)
  PROVE  IInv'
<1> DEFINE d == Now
           u == World
           f == Frame(kind, s, hostOpen[s])
           h == IF kind = "end" THEN [hostOpen EXCEPT ![s] = 0] ELSE hostOpen
           q == hostOut
           r == Append(q, f)
           w == [opens |-> opens, ended |-> ended, cancelled |-> cancelled,
                 hostOpen |-> h, hostOut |-> r, granted |-> granted]
<1>1. Now' = d /\ World' = w /\ hostOpen[s] # 0 /\ d.upstream # "connecting"
  <2>1. World' = w BY DEF HostSends, World
  <2>2. Now' = d BY SameNow DEF HostSends
  <2>3. QED BY <2>1, <2>2, NowFields DEF HostSends, HostSpeaks
<1>2. SoundWorld(u) /\ Sound(d, u, {}, {}) /\ d \in Draft BY NowDraft DEF IInv
<1>3. /\ w.opens = u.opens /\ w.cancelled = u.cancelled /\ w.ended = u.ended
      /\ w.hostOut = r /\ u.hostOut = q /\ w.granted = u.granted
      /\ w.hostOpen = h /\ u.hostOpen = hostOpen
  BY DEF World
<1>4. q \in Seq(FrameType) /\ hostOpen \in [Stream -> 0..Len(u.opens)]
      /\ Len(u.opens) <= MaxOpens
  BY <1>2, <1>3 DEF SoundWorld
<1>5. Len(u.opens) \in Nat /\ hostOpen[s] \in 1..Len(u.opens)
  <2>1. u.opens \in Seq([stream : Stream, endpoint : Endpoint]) BY <1>2 DEF SoundWorld
  <2>2. Len(u.opens) \in Nat BY <2>1, Elements
  <2> DEFINE m == Len(u.opens)
  <2>3. hostOpen[s] \in 0..m BY <1>4
  <2> HIDE DEF m
  <2>4. hostOpen[s] \in 1..m BY <1>1, <2>2, <2>3 DEF m
  <2>5. QED BY <2>2, <2>4 DEF m
<1>6. hostOpen[s] \in Opening
  BY <1>4, <1>5, CarrierAssumption DEF Opening
<1>7. f \in FrameType /\ f.kind = kind /\ f.stream = s /\ f.opening = hostOpen[s]
  BY <1>6, Frames
<1> HIDE DEF f
<1>8. /\ r \in Seq(FrameType) /\ Len(q) \in Nat /\ Len(r) = Len(q) + 1
      /\ r[Len(q) + 1] = f /\ \A i \in 1..Len(q) : r[i] = q[i]
  BY <1>4, <1>7, Appended
<1>9. /\ h[s] = IF kind = "end" THEN 0 ELSE hostOpen[s]
      /\ \A t \in Stream : t # s => h[t] = hostOpen[t]
      /\ h \in {hostOpen, [hostOpen EXCEPT ![s] = 0]}
  BY <1>4
<1> HIDE DEF d, u, h, q, r, w
<1>10. ASSUME ~d.disposed PROVE Lively(d, w, {}, {})
  <2>1. Lively(d, u, {}, {}) BY <1>2, <1>10 DEF Sound
  <2>2. d.upstream = "open" /\ d.pending = <<>>
    BY <1>1, <2>1 DEF Lively, Reached
  <2>3. Served(d, u, {}) BY <2>1 DEF Lively
  <2>4. Names(u, hostOpen[s], s) /\ ~IsDeferred(d, s)
    BY <1>1, <1>3, <2>3 DEF Served
  <2>5. \A t \in Stream : h[t] # 0 => h[t] = hostOpen[t]
    BY <1>9
  <2>6. \A i \in 1..Len(r) : i = Len(q) + 1 \/ i \in 1..Len(q)
    BY <1>8
  <2>7. \A i \in 1..Len(q) : q[i] \in FrameType /\ q[i].stream \in Stream
    <3>1. \A i \in 1..Len(q) : q[i] \in FrameType BY <1>4, Elements
    <3>2. QED BY <3>1 DEF FrameType
  <2>8. Served(d, w, {})
    <3>1. ASSUME NEW t \in Stream, h[t] # 0
          PROVE  /\ Names(w, h[t], t) /\ ~IsDeferred(d, t)
                 /\ t \in d.forwarded \cup {} \/ CancelIn(d.up, t)
                 /\ MayBeTold(w, h[t])
      <4>1. hostOpen[t] # 0 /\ h[t] = hostOpen[t] BY <2>5, <3>1
      <4>2. QED BY <1>3, <2>3, <3>1, <4>1 DEF Served, Names, MayBeTold
    <3>2. ASSUME NEW i \in 1..Len(r)
          PROVE  /\ Named(r[i], w) /\ ~IsDeferred(d, r[i].stream)
                 /\ r[i].kind = "end" => h[r[i].stream] = 0
      <4>1. CASE i = Len(q) + 1
        <5>1. r[i] = f BY <1>8, <4>1
        <5>2. Named(f, w) BY <1>3, <1>7, <2>4 DEF Named, Names
        <5>3. QED BY <1>7, <1>9, <2>4, <5>1, <5>2
      <4>2. CASE i \in 1..Len(q)
        <5>1. r[i] = q[i] BY <1>8, <4>2
        <5>2. /\ Named(q[i], u) /\ ~IsDeferred(d, q[i].stream)
              /\ q[i].kind = "end" => hostOpen[q[i].stream] = 0
          BY <1>3, <2>3, <4>2 DEF Served
        <5>3. Named(q[i], w) BY <1>3, <5>2 DEF Named, Names
        <5>4. q[i].kind = "end" => h[q[i].stream] = 0 BY <2>5, <2>7, <4>2, <5>2
        <5>5. QED BY <5>1, <5>2, <5>3, <5>4
      <4>3. QED BY <2>6, <4>1, <4>2
    <3>3. QED BY <1>3, <3>1, <3>2 DEF Served
  <2>9. Upward(d.up, d, w, {})
    <3>1. Upward(d.up, d, u, {}) BY <2>1 DEF Lively
    <3>2. ASSUME NEW i \in 1..Len(d.up), d.up[i].kind = "open" PROVE Opens(d.up, i, d, w, {})
      <4> DEFINE t == d.up[i].stream
      <4>1. Opens(d.up, i, d, u, {}) BY <3>1, <3>2 DEF Upward
      <4>2. u.hostOpen[t] = 0 /\ NoFrameOf(u.hostOut, t) BY <4>1 DEF Opens
      <4>3. t \in Stream
        <5>1. d.up \in Seq(FrameType) BY <1>2 DEF Draft
        <5>2. d.up[i] \in FrameType BY <5>1, <3>2, Elements
        <5>3. QED BY <5>2 DEF FrameType
      <4>4. t # s BY <1>1, <1>3, <4>2
      <4>5. w.hostOpen[t] = 0 BY <1>3, <2>5, <4>2, <4>3
      <4>6. NoFrameOf(w.hostOut, t)
        <5> HIDE DEF t
        <5>1. QED BY <1>3, <1>7, <1>8, <2>6, <4>2, <4>4 DEF NoFrameOf
      <4>7. MayBeTold(w, d.up[i].opening) BY <1>3, <4>1 DEF Opens, MayBeTold
      <4>8. QED BY <4>1, <4>5, <4>6, <4>7 DEF Opens
    <3>3. QED BY <1>3, <3>1, <3>2 DEF Upward, Named, Names
  <2>10. Upward(d.pending, d, w, {})
    <3>1. \A i \in 1..Len(d.pending) : FALSE
      BY <2>2
    <3>2. QED BY <3>1 DEF Upward
  <2>11. Streams(d, w, {}) BY <1>3, <2>1 DEF Lively, Streams, Unended
  <2>12. Downward(d.down, w) BY <1>3, <2>1 DEF Lively, Downward, Named, Names
  <2>13. QED BY <2>1, <2>2, <2>8, <2>9, <2>10, <2>11, <2>12 DEF Lively, Reached
<1>11. Sound(d, w, {}, {})
  <2>1. Registers(d, w) BY <1>2, <1>3 DEF Sound, Base, Registers, Names
  <2>2. Base(d, w) BY <1>2, <2>1 DEF Sound, Base
  <2>3. QED BY <1>2, <1>10, <2>2 DEF Sound
<1>12. SoundWorld(w)
  <2> DEFINE m == Len(u.opens)
  <2>1. hostOpen \in [Stream -> 0..m] /\ m \in Nat BY <1>4, <1>5
  <2> HIDE DEF m
  <2>2. h \in [Stream -> 0..m]
    BY <1>9, <2>1
  <2>3. QED BY <1>2, <1>3, <1>8, <2>2 DEF SoundWorld, m
<1>13. QED BY <1>1, <1>11, <1>12 DEF IInv

(* What waited for the host, untagged.                                     *)
LEMMA MovedFrames ==
  ASSUME NEW p \in Seq(FrameType), NEW k \in 0..Len(p)
  PROVE  LET r == <<>> \o [i \in 1..k |-> Untagged(p[i])]
             t == SubSeq(p, k + 1, Len(p))
         IN  /\ r \in Seq(FrameType) /\ Len(r) = k
             /\ \A i \in 1..k : /\ r[i].kind = p[i].kind /\ r[i].stream = p[i].stream
                                /\ r[i].opening = p[i].opening
             /\ t \in Seq(FrameType) /\ Len(t) = Len(p) - k
             /\ k = Len(p) => t = <<>>
<1> DEFINE m == [i \in 1..k |-> Untagged(p[i])]
           r == <<>> \o m
           t == SubSeq(p, k + 1, Len(p))
<1>1. Len(p) \in Nat /\ k \in Nat /\ \A i \in 1..k : p[i] \in FrameType
  BY Elements
<1>2. \A f \in FrameType : /\ Untagged(f) \in FrameType /\ Untagged(f).kind = f.kind
                           /\ Untagged(f).stream = f.stream
                           /\ Untagged(f).opening = f.opening
  BY DEF Untagged, FrameType
<1>3. m \in Seq(FrameType) /\ Len(m) = k /\ \A i \in 1..k : m[i] = Untagged(p[i])
  BY <1>1, <1>2
<1> HIDE DEF m
<1>4. r = m
  BY <1>3
<1>5. t \in Seq(FrameType) /\ Len(t) = Len(p) - k
  BY <1>1
<1>6. k = Len(p) => t = <<>>
  BY <1>1, <1>5
<1>7. QED BY <1>1, <1>2, <1>3, <1>4, <1>5, <1>6

LEMMA UpstreamOpensKeeps ==
  ASSUME IInv, UpstreamOpens PROVE IInv'
<1> DEFINE w == World
           a == Now
           b == [a EXCEPT !.upstream = "open"]
           e == Drain(b)
<1>1. Become(e) /\ UNCHANGED outsideVars
  BY DEF UpstreamOpens
<1>2. a \in Draft /\ Base(a, w) /\ Registers(a, w) /\ Counted(a) /\ SoundWorld(w)
      /\ Sound(a, w, {}, {})
  BY NowDraft DEF IInv
<1>3. a.upstream = "connecting"
  BY DEF UpstreamOpens, Now
<1> HIDE DEF a, w
<1>4. /\ b \in Draft /\ SameBooks(b, a) /\ b.pending = a.pending
      /\ b.pendingBytes = a.pendingBytes /\ b.up = a.up /\ b.down = a.down
      /\ b.disposed = a.disposed /\ b.closeIssued = a.closeIssued
      /\ b.client = a.client /\ b.upstream = "open"
  BY <1>2 DEF Draft, Leg, SameBooks
<1> HIDE DEF b
<1>5. CASE a.disposed
  <2>1. e = b BY <1>4, <1>5 DEF Drain
  <2>2. Sound(b, w, {}, {})
    BY <1>2, <1>4, <1>5, FallenSound DEF Sound
  <2> HIDE DEF e
  <2>3. QED BY <1>1, <2>1, <2>2, Acting DEF w
<1>6. CASE ~a.disposed
  <2>1. /\ a.up = <<>> /\ w.hostOut = <<>>
        /\ \A s \in Stream : w.hostOpen[s] = 0
        /\ Lively(a, w, {}, {})
    BY <1>2, <1>3, <1>6 DEF Sound, Lively, Reached
  <2> DEFINE p == b.pending
             room == Capacity - Len(b.up)
             moved == IF Len(p) <= room THEN Len(p) ELSE room
             r == <<>> \o [i \in 1..moved |-> Untagged(p[i])]
             t == SubSeq(p, moved + 1, Len(p))
             n == b.pendingBytes - moved
             c == [b EXCEPT !.up = r, !.pending = t, !.pendingBytes = n]
  <2>2. /\ p \in Seq(FrameType) /\ Len(p) \in Nat /\ Len(b.deferred) \in Nat
        /\ b.pendingBytes = Len(p) + Len(b.deferred)
        /\ b.pendingBytes <= MaxPending /\ b.pendingBytes \in Nat
    BY <1>2, <1>4 DEF Draft, Counted, SameBooks
  <2>3. b.up = <<>> BY <1>4, <2>1
  <2>4. moved \in 0..Len(p)
    <3>1. Len(b.up) = 0 BY <2>3
    <3>2. Capacity \in Nat BY CarrierAssumption
    <3>3. QED BY <2>2, <3>1, <3>2
  <2>5. e = IF moved < Len(p) THEN CloseCarrier(c) ELSE c
    <3>1. ~b.disposed BY <1>4, <1>6
    <3>2. QED BY <2>3, <3>1 DEF Drain
  <2> HIDE DEF room, moved, p
  <2>6. /\ r \in Seq(FrameType) /\ Len(r) = moved
        /\ \A i \in 1..moved : /\ r[i].kind = p[i].kind /\ r[i].stream = p[i].stream
                               /\ r[i].opening = p[i].opening
        /\ t \in Seq(FrameType) /\ Len(t) = Len(p) - moved
        /\ moved = Len(p) => t = <<>>
    BY <2>2, <2>4, MovedFrames
  <2> HIDE DEF r, t
  <2>7. n \in Nat /\ n = Len(t) + Len(b.deferred) /\ n <= MaxPending
    <3> DEFINE m == Len(b.deferred)
               l == Len(p)
               v == Len(t)
               z == b.pendingBytes
    <3>1. /\ l \in Nat /\ m \in Nat /\ moved \in 0..l /\ v = l - moved
          /\ z = l + m /\ z <= MaxPending
      BY <2>2, <2>4, <2>6
    <3>2. MaxPending \in Nat BY CarrierAssumption
    <3> HIDE DEF m, l, v, z
    <3>3. z - moved \in Nat /\ z - moved = v + m /\ z - moved <= MaxPending
      BY <3>1, <3>2
    <3>4. QED BY <3>3 DEF m, v, z
  <2> HIDE DEF n
  <2>8. /\ c \in Draft /\ SameBooks(c, a) /\ c.up = r /\ c.pending = t
        /\ c.pendingBytes = n /\ c.down = a.down /\ c.disposed = a.disposed
        /\ c.closeIssued = a.closeIssued /\ c.client = a.client /\ c.upstream = "open"
        /\ c.deferred = b.deferred
    BY <1>4, <2>6, <2>7 DEF Draft, SameBooks
  <2> HIDE DEF c
  <2>9. Registers(c, w) /\ \A s : IsDeferred(c, s) <=> IsDeferred(a, s)
    BY <1>2, <2>8, SameBooksSound
  <2>10. Base(c, w)
    BY <1>2, <2>7, <2>8, <2>9 DEF Base, Counted
  <2>11. CASE moved < Len(p)
    <3>1. e = CloseCarrier(c) BY <2>5, <2>11
    <3>2. Sound(e, w, {}, {}) BY <2>10, <3>1, CloseSound
    <3> HIDE DEF e
    <3>3. QED BY <1>1, <3>2, Acting DEF w
  <2>12. CASE ~(moved < Len(p))
    <3>1. moved = Len(p) BY <2>2, <2>4, <2>12
    <3>2. t = <<>> /\ e = c BY <2>5, <2>6, <2>12, <3>1
    <3> HIDE DEF e
    <3>3. Upward(r, c, w, {})
      <4>1. Upward(p, a, w, {}) BY <1>4, <2>1 DEF Lively, p
      <4>2. \A i \in 1..Len(p) : /\ r[i].kind = p[i].kind /\ r[i].stream = p[i].stream
                                 /\ r[i].opening = p[i].opening
        BY <2>6, <3>1
      <4>3. Len(r) = Len(p) /\ Len(p) \in Nat BY <2>2, <2>6, <3>1
      <4>4. ASSUME NEW i \in 1..Len(p), Opens(p, i, a, w, {}) PROVE Opens(r, i, c, w, {})
        <5>1. \A j \in i + 1..Len(p) : j \in 1..Len(p) BY <4>3
        <5>2. (\E j \in i + 1..Len(p) : p[j].kind = "cancel" /\ p[j].stream = p[i].stream)
              => \E j \in i + 1..Len(p) : r[j].kind = "cancel" /\ r[j].stream = r[i].stream
          BY <4>2, <5>1
        <5>3. QED BY <2>8, <4>2, <4>3, <4>4, <5>2 DEF Opens, SameBooks
      <4>5. QED BY <2>8, <2>9, <4>1, <4>2, <4>3, <4>4 DEF Upward, Named, SameBooks
    <3>4. Upward(c.pending, c, w, {})
      <4>1. \A i \in 1..Len(c.pending) : FALSE BY <2>8, <3>2
      <4>2. QED BY <4>1 DEF Upward
    <3>5. Reached(c, w) BY <2>8, <3>2 DEF Reached
    <3>6. Streams(c, w, {})
      BY <2>1, <2>8, <2>9 DEF Lively, Streams, Unended, SameBooks
    <3>7. Served(c, w, {})
      <4>1. \A i \in 1..Len(w.hostOut) : FALSE BY <2>1
      <4>2. QED BY <2>1, <4>1 DEF Served
    <3>8. Downward(c.down, w)
          /\ \A i \in 1..Len(c.deferred) : NoFrameOf(c.down, c.deferred[i].stream)
      BY <2>1, <2>8 DEF Lively, SameBooks
    <3>9. Lively(c, w, {}, {})
      BY <2>8, <3>3, <3>4, <3>5, <3>6, <3>7, <3>8 DEF Lively
    <3>10. Sound(c, w, {}, {})
      BY <1>2, <1>6, <2>8, <2>10, <3>9 DEF Sound
    <3>11. QED BY <1>1, <3>2, <3>10, Acting DEF w
  <2>13. QED BY <2>11, <2>12
<1>7. QED BY <1>5, <1>6

(* The browser opens a stream under an id it has not used.                 *)
OpensIn(w1, w, x) ==
  /\ w1.opens = Append(w.opens, x)
  /\ w1.ended = w.ended /\ w1.cancelled = w.cancelled /\ w1.hostOpen = w.hostOpen
  /\ w1.hostOut = w.hostOut /\ w1.granted = w.granted

LEMMA Grown ==
  ASSUME NEW w, SoundWorld(w), NEW x \in [stream : Stream, endpoint : Endpoint], NEW w1,
         OpensIn(w1, w, x), \A i \in 1..Len(w.opens) : w.opens[i].stream # x.stream
  PROVE  LET n == Len(w.opens) + 1
         IN  /\ Len(w.opens) \in Nat /\ Len(w1.opens) = n /\ w1.opens[n] = x
             /\ Names(w1, n, x.stream)
             /\ \A i \in 1..Len(w.opens) : w1.opens[i] = w.opens[i]
             /\ \A m, t : Names(w, m, t) =>
                  Names(w1, m, t) /\ t # x.stream /\ m # n /\ w1.opens[m] = w.opens[m]
             /\ Len(w.opens) < MaxOpens => SoundWorld(w1)
<1> DEFINE q == w.opens
           r == Append(q, x)
           n == Len(q) + 1
<1>1. q \in Seq([stream : Stream, endpoint : Endpoint]) BY DEF SoundWorld
<1>2. /\ r \in Seq([stream : Stream, endpoint : Endpoint]) /\ Len(q) \in Nat
      /\ Len(r) = n /\ r[n] = x /\ \A i \in 1..Len(q) : r[i] = q[i]
  BY <1>1, Appended
<1>3. w1.opens = r BY DEF OpensIn
<1>4. \A i \in 1..Len(q) : q[i].stream # x.stream OBVIOUS
<1>0. SoundWorld(w) /\ Len(q) = Len(w.opens) OBVIOUS
<1>5. \A m, t : Names(w, m, t) <=> m \in 1..Len(q) /\ q[m].stream = t BY DEF Names
<1>6. \A m, t : Names(w1, m, t) <=> m \in 1..n /\ r[m].stream = t
  BY <1>2, <1>3 DEF Names
<1>7. Len(q) < MaxOpens => SoundWorld(w1)
  <2>1. ASSUME Len(q) < MaxOpens PROVE SoundWorld(w1)
    <3>1. n <= MaxOpens /\ 1..Len(q) \subseteq 1..n /\ 0..Len(q) \subseteq 0..n
          /\ \A i \in 1..n : i = n \/ i \in 1..Len(q)
      BY <1>2, <2>1, CarrierAssumption
    <3>2. w.hostOpen \in [Stream -> 0..Len(q)] BY <1>0 DEF SoundWorld
    <3>3. w.hostOpen \in [Stream -> 0..n] BY <3>1, <3>2
    <3>4. w.ended \subseteq 1..Len(q) /\ w.cancelled \subseteq 1..Len(q)
          /\ w.hostOut \in Seq(FrameType) /\ w.granted \subseteq Stream
      BY <1>0 DEF SoundWorld
    <3>5. w.ended \subseteq 1..n /\ w.cancelled \subseteq 1..n BY <3>1, <3>4
    <3>6. \A i, j \in 1..Len(q) : i # j => q[i].stream # q[j].stream
      BY <1>0 DEF SoundWorld
    <3>7. \A i, j \in 1..n : i # j => r[i].stream # r[j].stream
      BY <1>2, <1>4, <3>1, <3>6
    <3> HIDE DEF r, n, q
    <3>8. QED BY <1>2, <1>3, <3>1, <3>3, <3>4, <3>5, <3>7 DEF SoundWorld, OpensIn
  <2>2. QED BY <2>1
<1> HIDE DEF r
<1>8. \A m, t : Names(w, m, t) =>
        Names(w1, m, t) /\ t # x.stream /\ m # n /\ w1.opens[m] = w.opens[m]
  <2>1. 1..Len(q) \subseteq 1..n /\ n \notin 1..Len(q) BY <1>2
  <2>2. QED BY <1>2, <1>3, <1>4, <1>5, <1>6, <2>1
<1>9. Names(w1, n, x.stream)
  <2>1. n \in 1..n BY <1>2
  <2>2. QED BY <1>2, <1>6, <2>1
<1>10. QED BY <1>2, <1>3, <1>7, <1>8, <1>9

(* Nobody has heard of the stream: it is owed everything.                  *)
Fresh(d, w, s, n) ==
  /\ ~IsDeferred(d, s) /\ s \notin d.forwarded
  /\ ~d.disposed => Unheard(d, w, s) /\ Unended(d, w, n) /\ NoFrameOf(d.down, s)

LEMMA NewOpening ==
  ASSUME NEW w, SoundWorld(w), NEW x \in [stream : Stream, endpoint : Endpoint], NEW w1,
         OpensIn(w1, w, x), \A i \in 1..Len(w.opens) : w.opens[i].stream # x.stream,
         NEW d, Sound(d, w, {}, {})
  PROVE  /\ Sound(d, w1, {}, {x.stream}) /\ d.active[x.stream] = NoStream
         /\ Fresh(d, w1, x.stream, Len(w.opens) + 1)
<1> DEFINE s == x.stream
           n == Len(w.opens) + 1
<1>1. /\ Len(w.opens) \in Nat /\ Len(w1.opens) = n /\ w1.opens[n] = x
      /\ \A m, t : Names(w, m, t) =>
           Names(w1, m, t) /\ t # s /\ m # n /\ w1.opens[m] = w.opens[m]
  BY Grown
<1>2. w1.ended = w.ended /\ w1.cancelled = w.cancelled /\ w1.hostOpen = w.hostOpen
      /\ w1.hostOut = w.hostOut /\ w1.granted = w.granted
  BY DEF OpensIn
<1>3. s \in Stream /\ SoundWorld(w) /\ Sound(d, w, {}, {}) OBVIOUS
<1>4. d \in Draft /\ Base(d, w) /\ Registers(d, w) /\ Counted(d) BY <1>3 DEF Sound, Base
<1>5. w.ended \subseteq 1..Len(w.opens) /\ w.cancelled \subseteq 1..Len(w.opens)
  BY <1>3 DEF SoundWorld
<1>14. \A m \in 1..Len(w1.opens) : m = n \/ m \in 1..Len(w.opens)
  BY <1>1
<1>15. \A m \in 1..Len(w.opens) : w1.opens[m] = w.opens[m]
  BY <1>1 DEF Names
<1> HIDE DEF n, s
<1>6. \A f : Named(f, w) => Named(f, w1) /\ f.stream # s /\ f.opening # n
  BY <1>1 DEF Named
<1>7. \A m, t : Names(w, m, t) /\ MayBeTold(w, m) => MayBeTold(w1, m)
  BY <1>1, <1>2 DEF MayBeTold
<1>8. d.active[s] = NoStream
  BY <1>1, <1>3, <1>4 DEF Registers
<1>9. ~IsDeferred(d, s) /\ s \notin d.forwarded
  <2>1. s \notin d.forwarded BY <1>4, <1>8 DEF Registers
  <2>2. ASSUME NEW i \in 1..Len(d.deferred), d.deferred[i].stream = s PROVE FALSE
    <3>1. d.active[s] = [endpoint |-> d.deferred[i].endpoint, opening |-> d.deferred[i].opening]
      BY <1>4, <2>2 DEF Registers
    <3>2. d.deferred[i] \in Waiting BY <1>4, Elements DEF Draft
    <3>3. d.active[s] # NoStream
      BY <3>1, <3>2, CarrierAssumption DEF Waiting, Endpoint
    <3>4. QED BY <1>8, <3>3
  <2>3. QED BY <2>1, <2>2 DEF IsDeferred
<1>10. Base(d, w1)
  <2>1. Registers(d, w1)
    <3>1. ASSUME NEW t \in Stream, d.active[t] # NoStream
          PROVE  /\ Names(w1, d.active[t].opening, t)
                 /\ w1.opens[d.active[t].opening].endpoint = d.active[t].endpoint
      <4>1. Names(w, d.active[t].opening, t)
            /\ w.opens[d.active[t].opening].endpoint = d.active[t].endpoint
        BY <1>4, <3>1 DEF Registers
      <4>2. QED BY <1>1, <4>1
    <3>2. QED BY <1>4, <3>1 DEF Registers
  <2>2. QED BY <1>4, <2>1 DEF Base
<1>11. ASSUME ~d.disposed PROVE Lively(d, w1, {}, {s}) /\ Unheard(d, w1, s)
                                /\ Unended(d, w1, n) /\ NoFrameOf(d.down, s)
  <2>1. Lively(d, w, {}, {}) BY <1>3, <1>11 DEF Sound
  <2>2. Reached(d, w1) BY <1>2, <2>1 DEF Lively, Reached
  <2>3. Streams(d, w1, {s})
    <3>1. Streams(d, w, {}) BY <2>1 DEF Lively
    <3>2. \A t \in Stream \ {s} : d.active[t] # NoStream =>
            /\ t \in d.forwarded \/ IsDeferred(d, t)
            /\ Unended(d, w1, d.active[t].opening)
      BY <1>2, <3>1 DEF Streams, Unended
    <3>3. ASSUME NEW m \in 1..Len(w1.opens)
          PROVE  \/ m \in w1.ended \cup w1.cancelled \/ EndingIn(d.down, m)
                 \/ d.active[w1.opens[m].stream] # NoStream \/ w1.opens[m].stream \in {s}
      <4>1. CASE m = n BY <1>1, <4>1 DEF s
      <4>2. CASE m \in 1..Len(w.opens)
        BY <1>2, <1>15, <3>1, <4>2 DEF Streams
      <4>3. QED BY <1>14, <4>1, <4>2
    <3>4. QED BY <3>2, <3>3 DEF Streams
  <2>4. Served(d, w1, {})
    <3>1. Served(d, w, {}) BY <2>1 DEF Lively
    <3>2. QED BY <1>1, <1>2, <1>6, <1>7, <3>1 DEF Served
  <2>5. ASSUME NEW q, Upward(q, d, w, {}) PROVE Upward(q, d, w1, {})
    <3>1. ASSUME NEW i \in 1..Len(q), Opens(q, i, d, w, {}) PROVE Opens(q, i, d, w1, {})
      <4>1. Names(w, q[i].opening, q[i].stream) BY <2>5 DEF Upward, Named
      <4>2. QED BY <1>2, <1>7, <3>1, <4>1 DEF Opens
    <3>2. QED BY <1>6, <2>5, <3>1 DEF Upward
  <2>6. Upward(d.up, d, w1, {}) /\ Upward(d.pending, d, w1, {})
    BY <2>1, <2>5 DEF Lively
  <2>7. Downward(d.down, w1)
    BY <1>2, <1>6, <2>1 DEF Lively, Downward
  <2>8. Lively(d, w1, {}, {s})
    BY <2>1, <2>2, <2>3, <2>4, <2>6, <2>7 DEF Lively
  <2>9. NoFrameOf(d.down, s) /\ ~EndingIn(d.down, n)
    BY <1>6, <2>1 DEF Lively, Downward, NoFrameOf, EndingIn
  <2>10. NoFrameOf(d.up, s) /\ NoFrameOf(d.pending, s)
    BY <1>6, <2>1 DEF Lively, Upward, NoFrameOf
  <2>11. NoFrameOf(w.hostOut, s)
    BY <1>6, <2>1 DEF Lively, Served, NoFrameOf
  <2>12. w.hostOpen[s] = 0
    BY <1>1, <1>3, <2>1 DEF Lively, Served
  <2>13. n \notin w.ended \cup w.cancelled
    BY <1>1, <1>5 DEF n
  <2>14. QED BY <1>2, <2>8, <2>9, <2>10, <2>11, <2>12, <2>13 DEF Unheard, Unended
<1>12. Sound(d, w1, {}, {s})
  BY <1>3, <1>10, <1>11 DEF Sound
<1>13. QED BY <1>8, <1>9, <1>11, <1>12 DEF Fresh, s, n

(* It is entered in the map of the active streams.                         *)
LEMMA Activated ==
  ASSUME NEW w, SoundWorld(w), NEW s \in Stream, NEW n, Names(w, n, s), NEW d,
         Sound(d, w, {}, {s}), Fresh(d, w, s, n)
  PROVE  LET e == [d EXCEPT !.active[s] = [endpoint |-> w.opens[n].endpoint, opening |-> n]]
         IN  /\ Sound(e, w, {}, {s}) /\ Fresh(e, w, s, n)
             /\ e.active[s] = [endpoint |-> w.opens[n].endpoint, opening |-> n]
             /\ e.active[s] # NoStream /\ e.active[s].opening = n
<1> DEFINE o == [endpoint |-> w.opens[n].endpoint, opening |-> n]
           e == [d EXCEPT !.active[s] = o]
<1>1. d \in Draft /\ Base(d, w) /\ Registers(d, w) /\ Counted(d) BY DEF Sound, Base
<1>2. n \in Opening BY NamedOpening
<1>3. w.opens[n].endpoint \in Endpoint
  <2>1. n \in 1..Len(w.opens) BY DEF Names
  <2>2. w.opens \in Seq([stream : Stream, endpoint : Endpoint]) BY DEF SoundWorld
  <2>3. w.opens[n] \in [stream : Stream, endpoint : Endpoint] BY <2>1, <2>2, Elements
  <2>4. QED BY <2>3
<1>4. o \in OpenStream /\ o # NoStream /\ o.opening = n /\ o.endpoint = w.opens[n].endpoint
  BY <1>2, <1>3, CarrierAssumption DEF OpenStream
<1> HIDE DEF o
<1>5. d.active \in [Stream -> OpenStream \cup {NoStream}] BY <1>1 DEF Draft
<1> DEFINE a == [d.active EXCEPT ![s] = o]
<1>6. a \in [Stream -> OpenStream \cup {NoStream}] /\ a[s] = o
      /\ \A t \in Stream \ {s} : a[t] = d.active[t]
  BY <1>4, <1>5
<1>7. e = [d EXCEPT !.active = a] BY <1>1 DEF Draft
<1> HIDE DEF a, e
<1>8. /\ e \in Draft /\ e.active = a /\ e.deferred = d.deferred
      /\ e.forwarded = d.forwarded /\ e.pending = d.pending
      /\ e.pendingBytes = d.pendingBytes /\ e.up = d.up /\ e.down = d.down
      /\ e.disposed = d.disposed /\ e.closeIssued = d.closeIssued
      /\ e.client = d.client /\ e.upstream = d.upstream
  BY <1>1, <1>6, <1>7 DEF Draft
<1>9. \A t : IsDeferred(e, t) <=> IsDeferred(d, t) BY <1>8 DEF IsDeferred
<1>10. ~IsDeferred(d, s) /\ s \notin d.forwarded BY DEF Fresh
<1>11. Registers(e, w)
  <2>1. ASSUME NEW t \in Stream, e.active[t] # NoStream
        PROVE  /\ Names(w, e.active[t].opening, t)
               /\ w.opens[e.active[t].opening].endpoint = e.active[t].endpoint
    <3>1. CASE t = s BY <1>4, <1>6, <1>8, <3>1
    <3>2. CASE t # s BY <1>1, <1>6, <1>8, <2>1, <3>2 DEF Registers
    <3>3. QED BY <3>1, <3>2
  <2>2. \A t \in e.forwarded : e.active[t] # NoStream /\ ~IsDeferred(e, t)
    <3>1. d.forwarded \subseteq Stream BY <1>1 DEF Draft
    <3>2. QED BY <1>1, <1>6, <1>8, <1>9, <1>10, <3>1 DEF Registers
  <2>3. ASSUME NEW i \in 1..Len(e.deferred)
        PROVE  e.active[e.deferred[i].stream] =
                 [endpoint |-> e.deferred[i].endpoint, opening |-> e.deferred[i].opening]
    <3>1. d.deferred[i].stream # s BY <1>8, <1>10 DEF IsDeferred
    <3>2. d.deferred[i] \in Waiting BY <1>1, <1>8, Elements DEF Draft
    <3>3. d.deferred[i].stream \in Stream BY <3>2 DEF Waiting
    <3>4. QED BY <1>1, <1>6, <1>8, <3>1, <3>3 DEF Registers
  <2>4. \A i, j \in 1..Len(e.deferred) :
          i # j => e.deferred[i].stream # e.deferred[j].stream
    BY <1>1, <1>8 DEF Registers
  <2>5. QED BY <2>1, <2>2, <2>3, <2>4 DEF Registers
<1>12. Base(e, w)
  BY <1>1, <1>8, <1>11 DEF Base, Counted
<1>13. ASSUME ~d.disposed PROVE Lively(e, w, {}, {s})
  <2>1. Lively(d, w, {}, {s}) /\ Unheard(d, w, s) BY <1>13 DEF Sound, Fresh
  <2>2. Streams(e, w, {s})
    <3>1. Streams(d, w, {s}) BY <2>1 DEF Lively
    <3>2. \A t \in Stream \ {s} : e.active[t] # NoStream =>
            /\ t \in e.forwarded \/ IsDeferred(e, t)
            /\ Unended(e, w, e.active[t].opening)
      BY <1>6, <1>8, <1>9, <3>1 DEF Streams, Unended
    <3>3. ASSUME NEW m \in 1..Len(w.opens)
          PROVE  \/ m \in w.ended \cup w.cancelled \/ EndingIn(e.down, m)
                 \/ e.active[w.opens[m].stream] # NoStream \/ w.opens[m].stream \in {s}
      <4>1. w.opens[m].stream \in Stream
        <5>1. w.opens \in Seq([stream : Stream, endpoint : Endpoint]) BY DEF SoundWorld
        <5>2. w.opens[m] \in [stream : Stream, endpoint : Endpoint] BY <5>1, Elements
        <5>3. QED BY <5>2
      <4>2. QED BY <1>6, <1>8, <3>1, <4>1 DEF Streams
    <3>4. QED BY <3>2, <3>3 DEF Streams
  <2>3. Served(e, w, {}) BY <1>8, <1>9, <2>1 DEF Lively, Served
  <2>4. ASSUME NEW q \in Seq(FrameType), Upward(q, d, w, {}), NoFrameOf(q, s)
        PROVE  Upward(q, e, w, {})
    <3>1. \A i \in 1..Len(q) : q[i].stream \in Stream \ {s}
      <4>1. \A i \in 1..Len(q) : q[i] \in FrameType BY Elements
      <4>2. QED BY <2>4, <4>1 DEF FrameType, NoFrameOf
    <3>2. \A i \in 1..Len(q) : Opens(q, i, d, w, {}) => Opens(q, i, e, w, {})
      BY <1>8 DEF Opens
    <3>3. QED BY <1>6, <1>8, <1>9, <2>4, <3>1, <3>2 DEF Upward
  <2>5. Upward(e.up, e, w, {}) /\ Upward(e.pending, e, w, {})
    <3>1. d.up \in Seq(FrameType) /\ d.pending \in Seq(FrameType) BY <1>1 DEF Draft
    <3>2. QED BY <1>8, <2>1, <2>4, <3>1 DEF Lively, Unheard
  <2>6. Reached(e, w) /\ Downward(e.down, w)
        /\ \A i \in 1..Len(e.deferred) : NoFrameOf(e.down, e.deferred[i].stream)
    BY <1>8, <2>1 DEF Lively, Reached
  <2>7. QED BY <2>2, <2>3, <2>5, <2>6 DEF Lively
<1>14. Sound(e, w, {}, {s})
  BY <1>8, <1>12, <1>13 DEF Sound
<1>15. Fresh(e, w, s, n)
  BY <1>8, <1>9 DEF Fresh, Unheard, Unended
<1>16. QED BY <1>4, <1>6, <1>8, <1>14, <1>15 DEF e, o

LEMMA ClientOpensKeeps ==
  ASSUME ~IdReuse, IInv, NEW s \in Stream, NEW endpoint \in Endpoint,
         NEW refused \in BOOLEAN, ClientOpens(s, endpoint, refused)
  PROVE  IInv'
<1> DEFINE w == World
           x == [stream |-> s, endpoint |-> endpoint]
           n == Len(opens) + 1
           b == Expire(Now)
           e == Opened(b, s, n, endpoint, refused)
           v == [opens |-> Append(opens, x), ended |-> ended, cancelled |-> cancelled,
                 hostOpen |-> hostOpen, hostOut |-> hostOut, granted |-> granted]
<1>1. Become(e) /\ World' = v
  BY DEF ClientOpens, World
<1>2. SoundWorld(w) /\ Sound(b, w, {}, {})
  BY ExpireSound DEF IInv
<1>3. OpensIn(v, w, x) /\ v.granted = granted /\ n = Len(w.opens) + 1
  BY DEF OpensIn, World
<1>4. /\ \A i \in 1..Len(w.opens) : w.opens[i].stream # s
      /\ Len(w.opens) < MaxOpens
  BY WorldFields DEF ClientOpens
<1>5. x \in [stream : Stream, endpoint : Endpoint] /\ x.stream = s /\ x.endpoint = endpoint
  OBVIOUS
<1> HIDE DEF x, w, n, b, v
<1>6. /\ Names(v, n, s) /\ v.opens[n] = x /\ SoundWorld(v)
  BY <1>2, <1>3, <1>4, <1>5, Grown
<1>7. Sound(b, v, {}, {s}) /\ Fresh(b, v, s, n) /\ b.active[s] = NoStream
  BY <1>2, <1>3, <1>4, <1>5, NewOpening
<1> DEFINE o == [endpoint |-> v.opens[n].endpoint, opening |-> n]
           d == [b EXCEPT !.active[s] = o]
<1>8. /\ Sound(d, v, {}, {s}) /\ Fresh(d, v, s, n) /\ d.active[s] = o
      /\ d.active[s] # NoStream /\ d.active[s].opening = n
  BY <1>6, <1>7, Activated
<1>9. o = [endpoint |-> endpoint, opening |-> n] BY <1>5, <1>6
<1>10. e = CloseCarrier(b) \/ e = Reject(b, s, n)
       \/ (endpoint \in {"session", "control"} /\ e = Defer(d, s, n, endpoint))
       \/ (~Denied(s, endpoint, refused) /\ (endpoint = "session" => baseline)
           /\ e = ForwardOpen(d, s, n))
  BY <1>9 DEF Opened
<1> HIDE DEF o, d, e
<1>11. CASE e = CloseCarrier(b)
  <2>1. Base(b, v) BY <1>7 DEF Sound
  <2>2. Sound(e, v, {}, {}) BY <1>11, <2>1, CloseSound
  <2>3. QED BY <1>1, <1>6, <2>2, Stepping
<1>12. CASE e = Reject(b, s, n)
  <2>1. ~b.disposed => Unended(b, v, n) /\ Unheard(b, v, s) BY <1>7 DEF Fresh
  <2>2. Sound(e, v, {}, {}) BY <1>6, <1>7, <1>12, <2>1, RejectSound
  <2>3. QED BY <1>1, <1>6, <2>2, Stepping
<1>13. CASE endpoint \in {"session", "control"} /\ e = Defer(d, s, n, endpoint)
  <2>1. ~IsDeferred(d, s) /\ s \notin d.forwarded
        /\ (~d.disposed => Unheard(d, v, s) /\ Unended(d, v, n) /\ NoFrameOf(d.down, s))
    BY <1>8 DEF Fresh
  <2>2. d.active[s] = [endpoint |-> endpoint, opening |-> n] BY <1>8, <1>9
  <2>3. Sound(Defer(d, s, n, endpoint), v, {}, {})
    BY <1>6, <1>8, <1>13, <2>1, <2>2, DeferSound
  <2>4. QED BY <1>1, <1>6, <1>13, <2>3, Stepping
<1>14. CASE ~Denied(s, endpoint, refused) /\ (endpoint = "session" => baseline)
            /\ e = ForwardOpen(d, s, n)
  <2>1. ~IsDeferred(d, s) /\ (~d.disposed => Unheard(d, v, s) /\ Unended(d, v, n))
    BY <1>8 DEF Fresh
  <2>2. MayBeTold(v, n)
    BY <1>3, <1>5, <1>6, <1>14 DEF MayBeTold, Denied
  <2>3. Sound(ForwardOpen(d, s, n), v, {}, {})
    BY <1>6, <1>8, <2>1, <2>2, ForwardOpenSound
  <2>4. QED BY <1>1, <1>6, <1>14, <2>3, Stepping
<1>15. QED BY <1>10, <1>11, <1>12, <1>13, <1>14

(* The browser cancels a stream.                                           *)
CancelsIn(v, w, n) ==
  /\ v.opens = w.opens /\ v.ended = w.ended /\ v.cancelled = w.cancelled \cup {n}
  /\ v.hostOpen = w.hostOpen /\ v.hostOut = w.hostOut /\ v.granted = w.granted

LEMMA CancelSeen ==
  ASSUME NEW w, SoundWorld(w), NEW s \in Stream, NEW n, Names(w, n, s),
         NEW v, CancelsIn(v, w, n), NEW d, Sound(d, w, {}, {s}), d.active[s] = NoStream,
         ~d.disposed => \A i \in 1..Len(d.down) : d.down[i].opening = n => i = 1
  PROVE  Sound(d, v, {}, {})
<1>1. SoundWorld(v)
  BY DEF SoundWorld, CancelsIn, Names
<1>2. /\ v.opens = w.opens /\ v.ended = w.ended /\ v.cancelled = w.cancelled \cup {n}
      /\ v.hostOpen = w.hostOpen /\ v.hostOut = w.hostOut /\ v.granted = w.granted
  BY DEF CancelsIn
<1>3. \A m, t : Names(v, m, t) <=> Names(w, m, t) BY <1>2 DEF Names
<1>4. \A f : Named(f, v) <=> Named(f, w) BY <1>3 DEF Named
<1>5. \A m : MayBeTold(v, m) <=> MayBeTold(w, m) BY <1>2 DEF MayBeTold
<1>6. Base(d, v) BY <1>2, <1>3 DEF Sound, Base, Registers
<1>7. ASSUME ~d.disposed PROVE Lively(d, v, {}, {s})
  <2>1. Lively(d, w, {}, {s}) BY <1>7 DEF Sound
  <2>2. Reached(d, v) BY <1>2, <2>1 DEF Lively, Reached
  <2>3. Streams(d, v, {s})
    <3>1. Streams(d, w, {s}) /\ Registers(d, w) BY <2>1 DEF Lively, Sound, Base
    <3>2. ASSUME NEW t \in Stream \ {s}, d.active[t] # NoStream
          PROVE  /\ t \in d.forwarded \/ IsDeferred(d, t)
                 /\ Unended(d, v, d.active[t].opening)
      <4>1. Unended(d, w, d.active[t].opening) /\ (t \in d.forwarded \/ IsDeferred(d, t))
        BY <3>1, <3>2 DEF Streams
      <4>2. Names(w, d.active[t].opening, t) BY <3>1, <3>2 DEF Registers
      <4>3. d.active[t].opening # n BY <4>2 DEF Names
      <4>4. QED BY <1>2, <4>1, <4>3 DEF Unended
    <3>3. QED BY <1>2, <3>1, <3>2 DEF Streams
  <2>4. Served(d, v, {}) BY <1>2, <1>3, <1>4, <1>5, <2>1 DEF Lively, Served
  <2>5. ASSUME NEW q, Upward(q, d, w, {}) PROVE Upward(q, d, v, {})
    BY <1>2, <1>4, <1>5, <2>5 DEF Upward, Opens
  <2>6. Downward(d.down, v)
    BY <1>2, <1>4, <1>7, <2>1 DEF Lively, Downward
  <2>7. QED BY <2>1, <2>2, <2>3, <2>4, <2>5, <2>6 DEF Lively
<1>8. Sound(d, v, {}, {s}) BY <1>6, <1>7 DEF Sound
<1>9. Names(v, n, s) /\ n \in v.cancelled BY <1>2, <1>3
<1>10. QED BY <1>1, <1>8, <1>9, EndedSound

(* A deferred stream that the browser cancels.                             *)
LEMMA DeferredCancelled ==
  ASSUME NEW w, SoundWorld(w), NEW s \in Stream, NEW n, Names(w, n, s),
         NEW v, CancelsIn(v, w, n), NEW d, Sound(d, w, {}, {}), IsDeferred(d, s)
  PROVE  Sound([DropDeferred(d, s) EXCEPT !.active[s] = NoStream], v, {}, {})
<1> DEFINE g == DropDeferred(d, s)
           e == [g EXCEPT !.active[s] = NoStream]
<1>1. /\ ~d.disposed => Unheard(d, w, s) /\ NoFrameOf(d.down, s)
      /\ s \notin d.forwarded
  BY UnheardDeferred
<1>2. Sound(d, w, {}, {s}) BY Excused
<1>3. d \in Draft /\ Registers(d, w) /\ Counted(d) BY <1>2 DEF Sound, Base
<1>4. /\ g \in Draft /\ ~IsDeferred(g, s)
      /\ g.active = d.active /\ g.forwarded = d.forwarded
      /\ g.pending = d.pending /\ g.up = d.up /\ g.down = d.down
      /\ g.disposed = d.disposed
  BY <1>3, Dropping
<1>5. Sound(g, w, {}, {s}) BY <1>2, DropSound
<1> HIDE DEF g
<1>6. Sound(g, w, {s}, {s}) BY <1>5, Excused
<1>7. /\ e \in Draft /\ e.active = [g.active EXCEPT ![s] = NoStream]
      /\ e.forwarded = g.forwarded /\ e.deferred = g.deferred
      /\ e.up = g.up /\ e.down = g.down
      /\ e.pending = g.pending /\ e.pendingBytes = g.pendingBytes
      /\ e.disposed = g.disposed /\ e.closeIssued = g.closeIssued
      /\ e.client = g.client /\ e.upstream = g.upstream
  <2>1. [g.active EXCEPT ![s] = NoStream] \in [Stream -> OpenStream \cup {NoStream}]
    BY <1>4 DEF Draft
  <2>2. QED BY <1>4, <2>1 DEF Draft
<1>8. e.active[s] = NoStream
  <2>1. g.active \in [Stream -> OpenStream \cup {NoStream}] BY <1>4 DEF Draft
  <2>2. QED BY <1>7, <2>1
<1> HIDE DEF e
<1>9. Sound(e, w, {s}, {s})
  <2>1. e.forwarded = g.forwarded \ {s} BY <1>1, <1>4, <1>7
  <2>2. QED BY <1>4, <1>6, <1>7, <2>1, LettingGo
<1>10. ~e.disposed => Unheard(e, w, s) /\ NoFrameOf(e.down, s)
  BY <1>1, <1>4, <1>7 DEF Unheard
<1>11. Sound(e, w, {}, {s}) BY <1>8, <1>9, <1>10, UnheardSound
<1>12. ASSUME ~e.disposed, NEW i \in 1..Len(e.down), e.down[i].opening = n PROVE FALSE
  <2>1. Named(e.down[i], w) BY <1>11, <1>12 DEF Sound, Lively, Downward
  <2>2. e.down[i].stream = s BY <1>12, <2>1 DEF Named, Names
  <2>3. QED BY <1>10, <1>12, <2>2 DEF NoFrameOf
<1>13. Sound(e, v, {}, {})
  BY <1>8, <1>11, <1>12, CancelSeen
<1>14. QED BY <1>13 DEF e, g

(* A forwarded stream that the browser cancels, and the host can be told.  *)
LEMMA ForwardedCancelled ==
  ASSUME NEW w, SoundWorld(w), NEW s \in Stream, NEW n, Names(w, n, s),
         NEW v, CancelsIn(v, w, n), NEW d, Sound(d, w, {}, {}), ~IsDeferred(d, s),
         d.active[s] # NoStream, d.active[s].opening = n, UpstreamTakes(d)
  PROVE  Sound([QueueUp(d, Frame("cancel", s, n)) EXCEPT
                  !.down = WithoutUnsent(@, s), !.forwarded = @ \ {s},
                  !.active[s] = NoStream], v, {}, {})
<1> DEFINE c == Frame("cancel", s, n)
           h == QueueUp(d, c)
           l == WithoutUnsent(d.down, s)
           g == [d EXCEPT !.down = l, !.forwarded = @ \ {s}, !.active[s] = NoStream]
           e == [h EXCEPT !.down = WithoutUnsent(@, s), !.forwarded = @ \ {s},
                          !.active[s] = NoStream]
           k == QueueUp(g, c)
<1>1. d \in Draft /\ Base(d, w) /\ Registers(d, w) BY DEF Sound, Base
<1>2. l \in Seq(FrameType) /\ d.active \in [Stream -> OpenStream \cup {NoStream}]
      /\ d.down \in Seq(FrameType)
  <2>1. d.down \in Seq(FrameType) BY <1>1 DEF Draft
  <2>2. QED BY <1>1, <2>1, UnsentFrames DEF Draft
<1>3. n \in Opening BY NamedOpening
<1>4. c \in FrameType /\ c.kind = "cancel" /\ c.stream = s /\ c.opening = n
  BY <1>3, Frames
<1> HIDE DEF c
<1>5. Named(c, w) BY <1>4 DEF Named
<1>6. /\ UpstreamTakes(d)
      /\ h = IF Connected(d) THEN [d EXCEPT !.up = Append(@, c)]
             ELSE [d EXCEPT !.pending = Append(@, c), !.pendingBytes = @ + 1]
  BY DEF QueueUp
<1>7. /\ g \in Draft /\ g.active = [d.active EXCEPT ![s] = NoStream]
      /\ g.forwarded = d.forwarded \ {s} /\ g.deferred = d.deferred
      /\ g.up = d.up /\ g.down = l
      /\ g.pending = d.pending /\ g.pendingBytes = d.pendingBytes
      /\ g.disposed = d.disposed /\ g.closeIssued = d.closeIssued
      /\ g.client = d.client /\ g.upstream = d.upstream
  <2>1. [d.active EXCEPT ![s] = NoStream] \in [Stream -> OpenStream \cup {NoStream}]
    BY <1>2
  <2>2. QED BY <1>1, <1>2, <2>1 DEF Draft
<1>8. UpstreamTakes(g) /\ (Connected(g) <=> Connected(d))
  BY <1>6, <1>7 DEF UpstreamTakes, Connected
<1>9. k = e
  <2>1. k = IF Connected(g) THEN [g EXCEPT !.up = Append(@, c)]
            ELSE [g EXCEPT !.pending = Append(@, c), !.pendingBytes = @ + 1]
    BY <1>8 DEF QueueUp
  <2> HIDE DEF k, h
  <2>2. CASE Connected(d)
    <3>1. h = [d EXCEPT !.up = Append(d.up, c)] /\ h.down = d.down
      BY <1>1, <1>6, <2>2 DEF Draft
    <3>2. e = [h EXCEPT !.down = l, !.forwarded = @ \ {s}, !.active[s] = NoStream]
      BY <3>1
    <3>3. k = [g EXCEPT !.up = Append(d.up, c)] BY <1>7, <1>8, <2>1, <2>2
    <3> HIDE DEF l, e
    <3>4. QED BY <1>1, <3>1, <3>2, <3>3 DEF Draft
  <2>3. CASE ~Connected(d)
    <3>1. h = [d EXCEPT !.pending = Append(d.pending, c), !.pendingBytes = d.pendingBytes + 1]
          /\ h.down = d.down
      BY <1>1, <1>6, <2>3 DEF Draft
    <3>2. e = [h EXCEPT !.down = l, !.forwarded = @ \ {s}, !.active[s] = NoStream]
      BY <3>1
    <3>3. k = [g EXCEPT !.pending = Append(d.pending, c), !.pendingBytes = d.pendingBytes + 1]
      BY <1>7, <1>8, <2>1, <2>3
    <3> HIDE DEF l, e
    <3>4. QED BY <1>1, <3>1, <3>2, <3>3 DEF Draft
  <2>4. QED BY <2>2, <2>3
<1> HIDE DEF h, e, g, k
<1>10. Sound(g, w, {s}, {s})
  <2>1. Sound(d, w, {s}, {s}) BY Excused
  <2>2. g.down \in {d.down, WithoutUnsent(d.down, s)} /\ g.up \in {d.up, WithoutUnsent(d.up, s)}
    BY <1>7
  <2> HIDE DEF l
  <2>3. QED BY <1>7, <2>1, <2>2, LettingGo
<1>11. g.active[s] = NoStream /\ ~IsDeferred(g, s)
  BY <1>2, <1>7 DEF IsDeferred
<1>12. /\ Sound(k, w, {}, {s}) /\ SameBooks(k, g)
       /\ ~k.disposed => ~g.disposed /\ k.down = g.down
  BY <1>4, <1>5, <1>10, <1>11, QueueCancelSound DEF k
<1>13. k.active[s] = NoStream BY <1>11, <1>12 DEF SameBooks
<1>14. ASSUME ~k.disposed, NEW i \in 1..Len(k.down), k.down[i].opening = n PROVE i = 1
  <2>1. k.down = l /\ ~d.disposed BY <1>7, <1>12, <1>14
  <2>2. Lively(d, w, {}, {}) BY <2>1 DEF Sound
  <2>3. Unended(d, w, n) BY <2>2 DEF Lively, Streams
  <2>4. PICK j \in 1..Len(d.down) :
          l[i] = d.down[j] /\ (i = 1 \/ ~(l[i].tagged /\ l[i].stream = s))
    BY <1>2, <1>14, <2>1, UnsentFrames
  <2> HIDE DEF l
  <2>5. Named(d.down[j], w) /\ (d.down[j].tagged <=> ~Final(d.down[j]))
    BY <2>2 DEF Lively, Downward
  <2>6. d.down[j].opening = n BY <1>14, <2>1, <2>4
  <2>7. d.down[j].stream = s BY <2>5, <2>6 DEF Named, Names
  <2>8. ~Final(d.down[j]) BY <2>3, <2>6 DEF Unended, EndingIn
  <2>9. QED BY <2>4, <2>5, <2>7, <2>8
<1>15. Sound(k, v, {}, {})
  BY <1>12, <1>13, <1>14, CancelSeen
<1>16. QED BY <1>9, <1>15 DEF e, h, c

LEMMA ClientCancelsKeeps ==
  ASSUME IInv, NEW s \in Stream, ClientCancels(s) PROVE IInv'
<1> DEFINE w == World
           b == Expire(Now)
           e == Cancelled(b, s)
           n == active[s].opening
           v == [opens |-> opens, ended |-> ended, cancelled |-> cancelled \cup {n},
                 hostOpen |-> hostOpen, hostOut |-> hostOut, granted |-> granted]
<1>1. /\ Become(e) /\ UNCHANGED <<granted, opens, hostOpen, hostOut, ended>>
      /\ cancelled' = IF b.active[s] = NoStream THEN cancelled ELSE cancelled \cup {n}
  BY DEF ClientCancels
<1>2. /\ SoundWorld(w) /\ Sound(b, w, {}, {})
      /\ \A t \in Stream : b.active[t] \in {Now.active[t], NoStream}
  BY ExpireSound DEF IInv
<1>3. b.active[s] # NoStream => b.active[s] = active[s]
  BY <1>2, NowFields
<1>4. b.active[s] # NoStream => World' = v
  BY <1>1 DEF World
<1>5. CancelsIn(v, w, n)
  BY DEF CancelsIn, World
<1> HIDE DEF b, w, v
<1>6. CASE b.active[s] = NoStream
  <2>1. e = b BY <1>6 DEF Cancelled
  <2>2. UNCHANGED outsideVars BY <1>1, <1>6 DEF outsideVars
  <2> HIDE DEF e
  <2>3. QED BY <1>1, <1>2, <2>1, <2>2, Acting DEF w
<1>7. CASE b.active[s] # NoStream
  <2>1. b.active[s].opening = n /\ Base(b, w) /\ b \in Draft
    BY <1>2, <1>3, <1>7 DEF Sound, Base
  <2>2. Names(w, n, s) BY <1>7, <2>1 DEF Base, Registers
  <2>3. SoundWorld(v) BY <1>2, <1>5, <2>2 DEF SoundWorld, CancelsIn, Names
  <2>4. Base(b, v) BY <1>5, <2>1 DEF Base, Registers, Names, CancelsIn
  <2> DEFINE c == Frame("cancel", s, n)
  <2> HIDE DEF n
  <2>5. Sound(e, v, {}, {})
    <3>1. CASE IsDeferred(b, s)
      <4>1. e = [DropDeferred(b, s) EXCEPT !.active[s] = NoStream]
        BY <1>7, <3>1 DEF Cancelled
      <4> HIDE DEF e
      <4>2. QED BY <1>2, <1>5, <2>2, <3>1, <4>1, DeferredCancelled
    <3>2. CASE ~IsDeferred(b, s) /\ UpstreamTakes(b)
      <4>1. e = [QueueUp(b, c) EXCEPT
                   !.down = WithoutUnsent(@, s), !.forwarded = @ \ {s},
                   !.active[s] = NoStream]
        BY <1>7, <2>1, <3>2 DEF Cancelled
      <4> HIDE DEF e
      <4>2. QED BY <1>2, <1>5, <1>7, <2>1, <2>2, <3>2, <4>1, ForwardedCancelled
    <3>3. CASE ~IsDeferred(b, s) /\ ~UpstreamTakes(b)
      <4>1. e = QueueUp(b, c) BY <1>7, <2>1, <3>3 DEF Cancelled
      <4>2. e = CloseCarrier(b) \/ (e = b /\ b.disposed) BY <3>3, <4>1 DEF QueueUp
      <4> HIDE DEF e
      <4>3. CASE e = CloseCarrier(b) BY <2>4, <4>3, CloseSound
      <4>4. CASE e = b /\ b.disposed
        BY <1>2, <2>4, <4>4 DEF Sound
      <4>5. QED BY <4>2, <4>3, <4>4
    <3>4. QED BY <3>1, <3>2, <3>3
  <2> HIDE DEF e
  <2>6. QED BY <1>1, <1>4, <1>7, <2>3, <2>5, Stepping
<1>8. QED BY <1>6, <1>7

LEMMA ClientSendsKeeps ==
  ASSUME IInv, NEW s \in Stream, NEW kind \in {"item", "end"}, ClientSends(s, kind)
  PROVE  IInv'
<1> DEFINE w == World
           b == Expire(Now)
           n == b.active[s].opening
           f == Frame("end", s, n)
<1>1. PICK e : /\ Become(e) /\ UNCHANGED outsideVars
               /\ \/ e = b
                  \/ /\ b.active[s] # NoStream /\ s \in b.forwarded
                     /\ e = QueueUpItem(b, s, n) \/ e = QueueUp(b, f)
  BY Zenon DEF ClientSends
<1>2. SoundWorld(w) /\ Sound(b, w, {}, {})
  BY ExpireSound DEF IInv
<1> HIDE DEF b, w
<1>3. CASE e = b
  BY <1>1, <1>2, <1>3, Acting DEF w
<1>4. CASE b.active[s] # NoStream /\ s \in b.forwarded /\ e = QueueUpItem(b, s, n)
  <2>1. Sound(e, w, {}, {}) BY <1>2, <1>4, ItemUpSound
  <2>2. QED BY <1>1, <2>1, Acting DEF w
<1>5. CASE b.active[s] # NoStream /\ s \in b.forwarded /\ e = QueueUp(b, f)
  <2>1. Registers(b, w) BY <1>2 DEF Sound, Base
  <2>2. Names(w, n, s) /\ ~IsDeferred(b, s) BY <1>5, <2>1 DEF Registers
  <2>3. n \in Opening BY <1>2, <2>2, NamedOpening
  <2> HIDE DEF n
  <2>4. f \in FrameType /\ f.kind = "end" /\ f.stream = s /\ f.opening = n
    BY <2>3, Frames
  <2> HIDE DEF f
  <2>5. Named(f, w) /\ ~IsDeferred(b, f.stream) BY <2>2, <2>4 DEF Named
  <2>6. Sound(QueueUp(b, f), w, {}, {})
    BY <1>2, <2>4, <2>5, QueueUpSound
  <2>7. QED BY <1>1, <1>5, <2>6, Acting DEF w
<1>6. QED BY <1>1, <1>3, <1>4, <1>5

(* The gateway takes up a frame of the host.                               *)
HeardIn(v, w) ==
  /\ v.opens = w.opens /\ v.ended = w.ended /\ v.cancelled = w.cancelled
  /\ v.hostOpen = w.hostOpen /\ v.hostOut = Tail(w.hostOut) /\ v.granted = w.granted

LEMMA HeardSound ==
  ASSUME NEW w, SoundWorld(w), w.hostOut # <<>>, NEW v, HeardIn(v, w),
         NEW d, Sound(d, w, {}, {})
  PROVE  /\ SoundWorld(v) /\ Sound(d, v, {}, {})
         /\ Head(w.hostOut) \in FrameType
         /\ ~d.disposed =>
              LET f == Head(w.hostOut)
                  s == f.stream
              IN  /\ Named(f, v) /\ ~IsDeferred(d, s)
                  /\ f.kind = "end" => v.hostOpen[s] = 0
                  /\ \A i \in 1..Len(d.up) : d.up[i].kind = "open" => d.up[i].stream # s
                  /\ \A i \in 1..Len(d.pending) :
                       d.pending[i].kind = "open" => d.pending[i].stream # s
<1> DEFINE q == w.hostOut
           t == Tail(q)
           f == Head(q)
<1>0. SoundWorld(w) /\ q # <<>> /\ Sound(d, w, {}, {}) OBVIOUS
<1>1. q \in Seq(FrameType) BY DEF SoundWorld
<1>2. /\ t \in Seq(FrameType) /\ Len(t) \in Nat
      /\ \A i \in 1..Len(t) : t[i] = q[i + 1] /\ i + 1 \in 1..Len(q)
      /\ f = q[1] /\ 1 \in 1..Len(q) /\ q[1] \in FrameType
  BY <1>0, <1>1, Tails
<1>3. /\ v.opens = w.opens /\ v.ended = w.ended /\ v.cancelled = w.cancelled
      /\ v.hostOpen = w.hostOpen /\ v.hostOut = t /\ v.granted = w.granted
  BY DEF HeardIn
<1> HIDE DEF t
<1>4. SoundWorld(v) BY <1>0, <1>2, <1>3 DEF SoundWorld
<1>5. \A x, m : Names(v, x, m) <=> Names(w, x, m) BY <1>3 DEF Names
<1>6. \A x : Named(x, v) <=> Named(x, w) BY <1>5 DEF Named
<1>7. \A m : MayBeTold(v, m) <=> MayBeTold(w, m) BY <1>3 DEF MayBeTold
<1>8. \A s : NoFrameOf(q, s) => NoFrameOf(t, s) BY <1>2 DEF NoFrameOf
<1>9. Base(d, v) BY <1>0, <1>3, <1>5 DEF Sound, Base, Registers
<1>10. ASSUME ~d.disposed PROVE Lively(d, w, {}, {}) BY <1>0, <1>10 DEF Sound
<1>11. ASSUME ~d.disposed PROVE Lively(d, v, {}, {})
  <2>1. Lively(d, w, {}, {}) BY <1>10, <1>11
  <2>2. Reached(d, v) BY <1>0, <2>1 DEF Lively, Reached
  <2>3. Streams(d, v, {}) BY <1>3, <2>1 DEF Lively, Streams, Unended
  <2>4. Served(d, v, {})
    <3>1. Served(d, w, {}) BY <2>1 DEF Lively
    <3>2. \A i \in 1..Len(t) : /\ Named(t[i], v) /\ ~IsDeferred(d, t[i].stream)
                               /\ t[i].kind = "end" => w.hostOpen[t[i].stream] = 0
      BY <1>2, <1>6, <3>1 DEF Served
    <3>3. QED BY <1>3, <1>5, <1>7, <3>1, <3>2 DEF Served
  <2>5. ASSUME NEW p, Upward(p, d, w, {}) PROVE Upward(p, d, v, {})
    BY <1>3, <1>6, <1>7, <1>8, <2>5 DEF Upward, Opens
  <2>6. Downward(d.down, v) BY <1>3, <1>6, <2>1 DEF Lively, Downward
  <2>7. QED BY <2>1, <2>2, <2>3, <2>4, <2>5, <2>6 DEF Lively
<1>12. Sound(d, v, {}, {}) BY <1>0, <1>9, <1>11 DEF Sound
<1>13. ASSUME ~d.disposed
       PROVE  /\ Named(f, v) /\ ~IsDeferred(d, f.stream)
              /\ f.kind = "end" => v.hostOpen[f.stream] = 0
              /\ \A i \in 1..Len(d.up) : d.up[i].kind = "open" => d.up[i].stream # f.stream
              /\ \A i \in 1..Len(d.pending) :
                   d.pending[i].kind = "open" => d.pending[i].stream # f.stream
  <2>1. Lively(d, w, {}, {}) BY <1>10, <1>13
  <2>2. Named(f, v) /\ ~IsDeferred(d, f.stream) /\ (f.kind = "end" => v.hostOpen[f.stream] = 0)
    BY <1>2, <1>3, <1>6, <2>1 DEF Lively, Served
  <2>3. ASSUME NEW p, Upward(p, d, w, {}), NEW i \in 1..Len(p), p[i].kind = "open"
        PROVE  p[i].stream # f.stream
    <3>1. NoFrameOf(q, p[i].stream) BY <2>3 DEF Upward, Opens
    <3>2. QED BY <1>2, <3>1 DEF NoFrameOf
  <2>4. Upward(d.up, d, w, {}) /\ Upward(d.pending, d, w, {}) BY <2>1 DEF Lively
  <2>5. QED BY <2>2, <2>3, <2>4
<1>14. QED BY <1>2, <1>4, <1>12, <1>13

(* The host serves s no more and will not be asked to.                     *)
LEMMA GoneSound ==
  ASSUME NEW d, NEW w, NEW s, NEW Y, Sound(d, w, {s}, Y), d.active[s] = NoStream,
         ~d.disposed =>
           /\ w.hostOpen[s] = 0
           /\ \A i \in 1..Len(d.up) : d.up[i].kind = "open" => d.up[i].stream # s
           /\ \A i \in 1..Len(d.pending) : d.pending[i].kind = "open" => d.pending[i].stream # s
  PROVE  Sound(d, w, {}, Y)
<1>1. ASSUME ~d.disposed PROVE Lively(d, w, {}, Y)
  <2>1. Lively(d, w, {s}, Y) BY <1>1 DEF Sound
  <2>2. ASSUME NEW q, \A i \in 1..Len(q) : q[i].kind = "open" => q[i].stream # s,
               Upward(q, d, w, {s})
        PROVE  Upward(q, d, w, {})
    <3>1. \A i \in 1..Len(q) :
            q[i].kind = "open" /\ Opens(q, i, d, w, {s}) => Opens(q, i, d, w, {})
      BY <2>2 DEF Opens
    <3>2. QED BY <2>2, <3>1 DEF Upward
  <2>3. Upward(d.up, d, w, {}) /\ Upward(d.pending, d, w, {})
    BY <1>1, <2>1, <2>2 DEF Lively
  <2>4. Served(d, w, {})
    BY <1>1, <2>1 DEF Lively, Served
  <2>5. QED BY <2>1, <2>3, <2>4 DEF Lively
<1>2. QED BY <1>1 DEF Sound

(* The host ended a stream, and the browser is told.                       *)
LEMMA EndSound ==
  ASSUME NEW w, SoundWorld(w), NEW f \in FrameType, f.kind = "end", Named(f, w),
         NEW d, Sound(d, w, {}, {}), ~d.disposed, ~IsDeferred(d, f.stream),
         d.active[f.stream] # NoStream, d.active[f.stream].opening = f.opening,
         w.hostOpen[f.stream] = 0,
         \A i \in 1..Len(d.up) : d.up[i].kind = "open" => d.up[i].stream # f.stream,
         \A i \in 1..Len(d.pending) : d.pending[i].kind = "open" => d.pending[i].stream # f.stream
  PROVE  Sound(Ended(d, f), w, {}, {})
<1> DEFINE s == f.stream
           n == f.opening
           c == SendControl(d, f)
           e == [c EXCEPT !.active[s] = NoStream, !.forwarded = @ \ {s}]
           r == Append(d.down, Untagged(f))
<1>1. s \in Stream /\ d \in Draft /\ Base(d, w) /\ Lively(d, w, {}, {}) /\ Final(f)
  BY DEF FrameType, Sound, Base, Final
<1>2. CASE ~ClientTakes(d)
  <2>1. Ended(d, f) = CloseCarrier(d) BY <1>2 DEF Ended, SendControl, ClientTakes
  <2>2. QED BY <1>1, <2>1, CloseSound
<1>3. CASE ClientTakes(d)
  <2>1. Ended(d, f) = e BY <1>3 DEF Ended
  <2>2. c = [d EXCEPT !.down = r] BY <1>3 DEF ClientTakes, SendControl
  <2>3. Unended(d, w, n) BY <1>1 DEF Lively, Streams
  <2>4. Sound(d, w, {}, {s}) BY Excused
  <2>5. /\ Sound(c, w, {}, {s}) /\ SameBooks(c, d)
        /\ ~c.disposed => EndingIn(c.down, n)
    BY <1>1, <2>3, <2>4, ControlSound
  <2>6. c.up = d.up /\ c.pending = d.pending /\ ~c.disposed
    BY <1>1, <2>2 DEF Draft
  <2> HIDE DEF c
  <2>7. c \in Draft /\ ~IsDeferred(c, s)
    BY <2>5 DEF Sound, Base, SameBooks, IsDeferred
  <2>8. /\ e \in Draft /\ e.active = [c.active EXCEPT ![s] = NoStream]
        /\ e.forwarded = c.forwarded \ {s} /\ e.deferred = c.deferred
        /\ e.up = c.up /\ e.down = c.down
        /\ e.pending = c.pending /\ e.pendingBytes = c.pendingBytes
        /\ e.disposed = c.disposed /\ e.closeIssued = c.closeIssued
        /\ e.client = c.client /\ e.upstream = c.upstream
    <3>1. [c.active EXCEPT ![s] = NoStream] \in [Stream -> OpenStream \cup {NoStream}]
      BY <2>7 DEF Draft
    <3>2. QED BY <2>7, <3>1 DEF Draft
  <2>9. e.active[s] = NoStream
    <3>1. c.active \in [Stream -> OpenStream \cup {NoStream}] BY <2>7 DEF Draft
    <3>2. QED BY <1>1, <2>8, <3>1
  <2> HIDE DEF e
  <2>10. /\ Sound(e, w, {s}, {s})
         /\ \A m : EndingIn(e.down, m) <=> EndingIn(c.down, m)
    <3>1. Sound(c, w, {s}, {s}) BY <2>5, Excused
    <3>2. e.up \in {c.up, WithoutUnsent(c.up, s)} /\ e.down \in {c.down, WithoutUnsent(c.down, s)}
      BY <2>8
    <3>3. QED BY <1>1, <2>6, <2>7, <2>8, <3>1, <3>2, LettingGo
  <2>11. Sound(e, w, {}, {s})
    <3>1. /\ w.hostOpen[s] = 0
          /\ \A i \in 1..Len(e.up) : e.up[i].kind = "open" => e.up[i].stream # s
          /\ \A i \in 1..Len(e.pending) : e.pending[i].kind = "open" => e.pending[i].stream # s
      BY <2>6, <2>8
    <3>2. Sound(e, w, {s}, {s}) BY <2>10
    <3> HIDE DEF s
    <3>3. QED BY <2>9, <3>1, <3>2, GoneSound
  <2>12. EndingIn(e.down, n) /\ Names(w, n, s)
    BY <2>5, <2>6, <2>10 DEF Named
  <2>13. Sound(e, w, {}, {}) BY <2>9, <2>11, <2>12, EndedSound
  <2>14. QED BY <2>1, <2>13
<1>4. QED BY <1>2, <1>3

(* The host's list of the workspaces is shown, and the deferred streams    *)
(* are taken up.                                                           *)
LEMMA ShownSound ==
  ASSUME NEW w, SoundWorld(w), w.granted = granted, NEW f \in FrameType,
         NEW d, Sound(d, w, {}, {}), d.active[f.stream] # NoStream,
         d.active[f.stream].opening = f.opening, f.stream \in d.forwarded
  PROVE  Sound(BaselineShown(d, f), w, {}, {})
<1> DEFINE b == [d EXCEPT !.baseline = TRUE]
           c == SendItem(b, f.stream, f.opening)
<1>1. d \in Draft BY DEF Sound, Base
<1>2. /\ b \in Draft /\ b.active = d.active /\ b.deferred = d.deferred
      /\ b.forwarded = d.forwarded /\ b.pending = d.pending
      /\ b.pendingBytes = d.pendingBytes /\ b.up = d.up /\ b.down = d.down
      /\ b.disposed = d.disposed /\ b.closeIssued = d.closeIssued
      /\ b.client = d.client /\ b.upstream = d.upstream
  BY <1>1 DEF Draft
<1>3. BaselineShown(d, f) = IF ClientTakes(b) THEN Flush(c) ELSE c
  BY DEF BaselineShown
<1> HIDE DEF b
<1>4. Sound(b, w, {}, {}) BY <1>2, AlikeSound
<1>5. f.stream \in Stream BY DEF FrameType
<1>6. Sound(c, w, {}, {}) BY <1>2, <1>4, <1>5, ItemSound
<1> HIDE DEF c
<1>7. Sound(Flush(c), w, {}, {}) BY <1>6, FlushSound
<1>8. QED BY <1>3, <1>6, <1>7

LEMMA HostMessageKeeps ==
  ASSUME IInv, HostMessage PROVE IInv'
<1> DEFINE w == World
           a == Now
           f == Head(hostOut)
           s == f.stream
           n == f.opening
           v == [opens |-> opens, ended |-> ended, cancelled |-> cancelled,
                 hostOpen |-> hostOpen, hostOut |-> Tail(hostOut), granted |-> granted]
<1>1. World' = v /\ v.granted = granted
  BY DEF HostMessage, World
<1>2. HeardIn(v, w) /\ w.hostOut # <<>> /\ f = Head(w.hostOut)
  BY DEF HostMessage, HeardIn, World
<1>3. SoundWorld(w) /\ Sound(a, w, {}, {}) BY DEF IInv
<1>4. a.active = active /\ a.client = client BY NowFields
<1>5. \/ UNCHANGED carrierVars
      \/ /\ active[s] # NoStream /\ client = "open"
         /\ \/ f.kind = "end" /\ Become(Ended(a, f))
            \/ Become(a) \/ Become(Reject(a, s, active[s].opening))
            \/ Become(BaselineShown(a, f)) \/ Become(SendItem(a, s, n))
  BY Zenon DEF HostMessage
<1>6. UNCHANGED carrierVars => Now' = a BY SameNow
<1> HIDE DEF a, w, v, f
<1>7. /\ SoundWorld(v) /\ Sound(a, v, {}, {}) /\ f \in FrameType
      /\ ~a.disposed =>
           /\ Named(f, v) /\ ~IsDeferred(a, s)
           /\ f.kind = "end" => v.hostOpen[s] = 0
           /\ \A i \in 1..Len(a.up) : a.up[i].kind = "open" => a.up[i].stream # s
           /\ \A i \in 1..Len(a.pending) : a.pending[i].kind = "open" => a.pending[i].stream # s
  BY <1>2, <1>3, HeardSound
<1>8. CASE UNCHANGED carrierVars
  BY <1>1, <1>6, <1>7, <1>8 DEF IInv
<1>9. CASE active[s] # NoStream /\ client = "open"
           /\ \/ f.kind = "end" /\ Become(Ended(a, f))
              \/ Become(a) \/ Become(Reject(a, s, active[s].opening))
              \/ Become(BaselineShown(a, f)) \/ Become(SendItem(a, s, n))
  <2>1. ~a.disposed BY <1>4, <1>7, <1>9 DEF Sound
  <2>2. s \in Stream BY <1>7 DEF FrameType
  <2>3. Lively(a, v, {}, {}) /\ Registers(a, v) BY <1>7, <2>1 DEF Sound, Base
  <2>4. Names(v, n, s) /\ Names(v, a.active[s].opening, s)
    BY <1>4, <1>7, <1>9, <2>1, <2>2, <2>3 DEF Named, Registers
  <2>5. a.active[s].opening = n BY <1>7, <2>4, OneOpening
  <2>6. s \in a.forwarded /\ Unended(a, v, n)
    BY <1>4, <1>7, <1>9, <2>1, <2>2, <2>3, <2>5 DEF Lively, Streams
  <2>7. PICK e : /\ Become(e)
                 /\ \/ f.kind = "end" /\ e = Ended(a, f)
                    \/ e = a \/ e = Reject(a, s, n)
                    \/ e = BaselineShown(a, f) \/ e = SendItem(a, s, n)
    BY <1>4, <1>9, <2>5
  <2>8. CASE f.kind = "end" /\ e = Ended(a, f)
    <3>1. Sound(Ended(a, f), v, {}, {})
      BY <1>4, <1>7, <1>9, <2>1, <2>5, <2>8, EndSound
    <3>2. QED BY <1>1, <1>7, <2>7, <2>8, <3>1, Stepping
  <2>9. CASE e = a
    BY <1>1, <1>7, <2>7, <2>9, Stepping
  <2>10. CASE e = Reject(a, s, n)
    <3>1. Sound(a, v, {}, {s}) BY <1>7, Excused
    <3>2. Sound(e, v, {}, {}) BY <1>7, <2>2, <2>4, <2>6, <2>10, <3>1, RejectSound
    <3>3. QED BY <1>1, <1>7, <2>7, <3>2, Stepping
  <2>11. CASE e = BaselineShown(a, f)
    <3>1. Sound(BaselineShown(a, f), v, {}, {})
      BY <1>1, <1>4, <1>7, <1>9, <2>5, <2>6, ShownSound
    <3>2. QED BY <1>1, <1>7, <2>7, <2>11, <3>1, Stepping
  <2>12. CASE e = SendItem(a, s, n)
    <3>1. Sound(SendItem(a, s, n), v, {}, {})
      BY <1>4, <1>7, <1>9, <2>2, <2>5, <2>6, ItemSound
    <3>2. QED BY <1>1, <1>7, <2>7, <2>12, <3>1, Stepping
  <2>13. QED BY <2>7, <2>8, <2>9, <2>10, <2>11, <2>12
<1>10. QED BY <1>5, <1>8, <1>9

------------------------------------------------------------------------------
(* The invariant, and what it says.                                        *)

LEMMA InitSound ==
  ASSUME Init PROVE IInv
<1> DEFINE w == World
           d == Now
<1>1. /\ w.opens = <<>> /\ w.ended = {} /\ w.cancelled = {}
      /\ w.hostOpen = [s \in Stream |-> 0] /\ w.hostOut = <<>> /\ w.granted \subseteq Stream
  BY DEF Init, World
<1>2. /\ d.active = [s \in Stream |-> NoStream] /\ d.deferred = <<>>
      /\ d.forwarded = {} /\ d.pending = <<>> /\ d.pendingBytes = 0
      /\ d.up = <<>> /\ d.down = <<>> /\ ~d.disposed /\ ~d.closeIssued
      /\ d.client = "open" /\ d.upstream = "connecting"
  BY DEF Init, Now
<1>3. d \in Draft
  <2>1. active \in [Stream -> OpenStream \cup {NoStream}] BY DEF Init
  <2>2. baseline \in BOOLEAN BY DEF Init
  <2>3. deferred \in Seq(Waiting) /\ pending \in Seq(FrameType) /\ up \in Seq(FrameType)
        /\ down \in Seq(FrameType) /\ forwarded \in SUBSET Stream /\ pendingBytes \in Nat
    BY DEF Init
  <2>4. /\ disposed \in BOOLEAN /\ closeIssued \in BOOLEAN /\ grace \in BOOLEAN
        /\ client \in Leg \ {"connecting"} /\ upstream \in Leg /\ registered \in BOOLEAN
    BY DEF Init, Leg
  <2>5. QED BY <2>1, <2>2, <2>3, <2>4 DEF Now, Draft
<1> HIDE DEF w, d
<1>4. SoundWorld(w)
  <2>1. Len(w.opens) = 0 /\ MaxOpens \in Nat BY <1>1, CarrierAssumption
  <2>2. <<>> \in Seq([stream : Stream, endpoint : Endpoint]) /\ <<>> \in Seq(FrameType)
    OBVIOUS
  <2>3. w.hostOpen \in [Stream -> 0..Len(w.opens)] BY <1>1, <2>1
  <2>4. QED BY <1>1, <2>1, <2>2, <2>3 DEF SoundWorld
<1>5. Len(d.deferred) = 0 /\ Len(d.pending) = 0 /\ Len(d.up) = 0 /\ Len(d.down) = 0
      /\ Len(w.hostOut) = 0 /\ Len(w.opens) = 0
  BY <1>1, <1>2
<1>6. ~\E i \in 1..0 : TRUE OBVIOUS
<1>7. Base(d, w)
  <2>1. Counted(d) BY <1>2, <1>5, CarrierAssumption DEF Counted
  <2>2. Registers(d, w) BY <1>2, <1>5, <1>6 DEF Registers
  <2>3. QED BY <1>2, <1>3, <2>1, <2>2 DEF Base
<1>8. Lively(d, w, {}, {})
  <2>1. Reached(d, w) BY <1>1, <1>2 DEF Reached
  <2>2. Streams(d, w, {}) BY <1>2, <1>5, <1>6 DEF Streams
  <2>3. Served(d, w, {}) BY <1>1, <1>5, <1>6 DEF Served
  <2>4. Upward(d.up, d, w, {}) /\ Upward(d.pending, d, w, {}) /\ Downward(d.down, w)
    BY <1>5, <1>6 DEF Upward, Downward
  <2>5. QED BY <1>5, <1>6, <2>1, <2>2, <2>3, <2>4 DEF Lively
<1>9. Sound(d, w, {}, {}) BY <1>2, <1>7, <1>8 DEF Sound
<1>10. QED BY <1>4, <1>9 DEF IInv, w, d

LEMMA NextSound ==
  ASSUME ~IdReuse, IInv, [Next]_vars PROVE IInv'
<1>1. CASE \E s \in Stream, endpoint \in Endpoint, refused \in BOOLEAN :
             ClientOpens(s, endpoint, refused)
  BY <1>1, ClientOpensKeeps
<1>2. CASE \E s \in Stream : ClientCancels(s) \/ GrantSession(s)
  BY <1>2, ClientCancelsKeeps, GrantSessionKeeps
<1>3. CASE \E s \in Stream, kind \in {"item", "end"} : ClientSends(s, kind)
  BY <1>3, ClientSendsKeeps
<1>4. CASE ClientMisspeaks
  BY <1>4, ClientMisspeaksKeeps
<1>5. CASE UpstreamOpens \/ HostMessage
  BY <1>5, UpstreamOpensKeeps, HostMessageKeeps
<1>6. CASE HostMisspeaks \/ LegFails
  BY <1>6, ClosingKeeps
<1>7. CASE HeartbeatTick
  BY <1>7, HeartbeatTickKeeps
<1>8. CASE ClientErrors \/ UpstreamErrors
  BY <1>8, ErrorsKeep
<1>9. CASE ClientCloses \/ UpstreamCloses
  BY <1>9, ClientClosesKeeps, UpstreamClosesKeeps
<1>10. CASE GraceFires \/ Revoke \/ BaselineElsewhere
  BY <1>10, GraceFiresKeeps, RevokeKeeps, BaselineElsewhereKeeps
<1>11. CASE PublishWorkspaceUpsert \/ PublishSessionAttachment
  BY <1>11, PublishKeeps
<1>12. CASE HostReceives \/ ClientReceives
  BY <1>12, HostReceivesKeeps, ClientReceivesKeeps
<1>13. CASE \E s \in Stream, kind \in {"item", "baseline", "end"} : HostSends(s, kind)
  BY <1>13, HostSendsKeeps
<1>14. CASE TtlPasses
  BY <1>14, TtlPassesKeeps
<1>15. CASE UNCHANGED vars
  <2>1. Now' = Now /\ World' = World
    BY <1>15 DEF vars, carrierVars, outsideVars, Now, World
  <2>2. QED BY <2>1 DEF IInv
<1>16. QED
  BY <1>1, <1>2, <1>3, <1>4, <1>5, <1>6, <1>7, <1>8, <1>9, <1>10, <1>11, <1>12,
     <1>13, <1>14, <1>15 DEF Next

(* The inductive invariant, through every handler, timer and failure.      *)
THEOREM CarrierInvariance == ASSUME ~IdReuse PROVE Spec => []IInv
<1>1. Init => IInv BY InitSound
<1>2. IInv /\ [Next]_vars => IInv' BY NextSound
<1>3. QED BY <1>1, <1>2, PTL DEF Spec

LEMMA KeepsTypes == ASSUME IInv PROVE TypeOK
<1>1. Now \in Draft /\ SoundWorld(World) BY NowDraft
<1>2. /\ active \in [Stream -> OpenStream \cup {NoStream}] /\ deferred \in Seq(Waiting)
      /\ forwarded \in SUBSET Stream /\ pending \in Seq(FrameType) /\ pendingBytes \in Nat
      /\ up \in Seq(FrameType) /\ down \in Seq(FrameType) /\ disposed \in BOOLEAN
      /\ closeIssued \in BOOLEAN /\ grace \in BOOLEAN /\ client \in Leg \ {"connecting"}
      /\ upstream \in Leg /\ registered \in BOOLEAN /\ baseline \in BOOLEAN
  BY <1>1 DEF Now, Draft
<1>3. /\ opens \in Seq([stream : Stream, endpoint : Endpoint]) /\ Len(opens) <= MaxOpens
      /\ ended \subseteq 1..Len(opens) /\ cancelled \subseteq 1..Len(opens)
      /\ hostOpen \in [Stream -> 0..Len(opens)]
      /\ hostOut \in Seq(FrameType) /\ granted \subseteq Stream
  BY <1>1 DEF World, SoundWorld
<1>4. 1..Len(opens) \subseteq Opening /\ 0..Len(opens) \subseteq Opening \cup {0}
  <2>1. Len(opens) \in Nat /\ MaxOpens \in Nat BY <1>3, CarrierAssumption
  <2>2. QED BY <1>3, <2>1 DEF Opening
<1>5. ended \subseteq Opening /\ cancelled \subseteq Opening
      /\ hostOpen \in [Stream -> Opening \cup {0}]
  BY <1>3, <1>4
<1>6. QED BY <1>2, <1>3, <1>5 DEF TypeOK, Waiting

LEMMA KeepsBooks == ASSUME IInv PROVE PendingCounted /\ RegistersAgree /\ OneEnding
<1>1. /\ Sound(Now, World, {}, {}) /\ Registers(Now, World) /\ Counted(Now)
      /\ Now \in Draft
  BY NowDraft DEF IInv
<1>2. PendingCounted
  BY <1>1, NowFields DEF Counted, PendingCounted
<1>3. RegistersAgree
  <2>1. \A s \in forwarded : active[s] # NoStream /\ ~IsDeferred(Now, s)
    BY <1>1, NowFields DEF Registers
  <2>2. ASSUME NEW i \in 1..Len(deferred)
        PROVE  /\ active[deferred[i].stream] # NoStream
               /\ active[deferred[i].stream].opening = deferred[i].opening
    <3>1. active[deferred[i].stream] =
            [endpoint |-> deferred[i].endpoint, opening |-> deferred[i].opening]
      BY <1>1, NowFields DEF Registers
    <3>2. deferred \in Seq(Waiting) BY <1>1, NowFields DEF Draft
    <3>3. deferred[i] \in Waiting BY <3>2, Elements
    <3>4. QED BY <3>1, <3>3, CarrierAssumption DEF Waiting, Endpoint
  <2>3. QED BY <2>1, <2>2 DEF RegistersAgree
<1>4. OneEnding
  <2>1. CASE disposed
    <3>1. down = <<>> BY <1>1, <2>1, NowFields DEF Sound
    <3>2. \A i \in 1..Len(down) : FALSE BY <3>1
    <3>3. QED BY <3>2 DEF OneEnding
  <2>2. CASE ~disposed
    <3>1. Downward(down, World) BY <1>1, <2>2, NowFields DEF Sound, Lively
    <3>2. QED BY <3>1, WorldFields DEF Downward, OneEnding
  <2>3. QED BY <2>1, <2>2
<1>5. QED BY <1>2, <1>3, <1>4

LEMMA KeepsHost == ASSUME IInv PROVE NoOrphanAtHost
<1>1. ASSUME NEW s \in Stream, hostOpen[s] # 0, ~disposed
      PROVE  \/ s \in forwarded /\ active[s].opening = hostOpen[s]
             \/ CancelUnderWay(s)
  <2>1. Sound(Now, World, {}, {}) /\ Registers(Now, World) /\ SoundWorld(World)
    BY NowDraft DEF IInv
  <2>2. Served(Now, World, {}) BY <1>1, <2>1, NowFields DEF Sound, Lively
  <2>3. Names(World, hostOpen[s], s) /\ (s \in forwarded \/ CancelIn(up, s))
    BY <1>1, <2>2, NowFields, WorldFields DEF Served
  <2>4. CASE s \in forwarded
    <3>1. Names(World, active[s].opening, s)
      BY <2>1, <2>4, NowFields DEF Registers
    <3>2. QED BY <2>1, <2>3, <2>4, <3>1, OneOpening
  <2>5. CASE CancelIn(up, s)
    BY <2>5 DEF CancelIn, CancelUnderWay
  <2>6. QED BY <2>3, <2>4, <2>5
<1>2. QED BY <1>1 DEF NoOrphanAtHost

LEMMA KeepsBrowser == ASSUME IInv PROVE NoSilentDrop
<1>1. ASSUME NEW n \in 1..Len(opens), ~disposed
      PROVE  \/ n \in ended \cup cancelled
             \/ active[opens[n].stream] # NoStream /\ active[opens[n].stream].opening = n
             \/ \E i \in 1..Len(down) : Final(down[i]) /\ down[i].opening = n
  <2>1. Sound(Now, World, {}, {}) /\ Registers(Now, World) /\ SoundWorld(World)
    BY NowDraft DEF IInv
  <2>2. Streams(Now, World, {}) BY <1>1, <2>1, NowFields DEF Sound, Lively
  <2>3. \/ n \in ended \cup cancelled \/ EndingIn(down, n)
        \/ active[opens[n].stream] # NoStream
    BY <2>2, NowFields, WorldFields DEF Streams
  <2>4. CASE active[opens[n].stream] # NoStream
    <3>1. Names(World, n, opens[n].stream) BY WorldFields DEF Names
    <3>2. opens[n].stream \in Stream
      <4>1. opens \in Seq([stream : Stream, endpoint : Endpoint])
        BY <2>1, WorldFields DEF SoundWorld
      <4>2. opens[n] \in [stream : Stream, endpoint : Endpoint] BY <4>1, Elements
      <4>3. QED BY <4>2
    <3>3. Names(World, active[opens[n].stream].opening, opens[n].stream)
      BY <2>1, <2>4, <3>2, NowFields DEF Registers
    <3>4. QED BY <2>1, <2>4, <3>1, <3>3, OneOpening
  <2>5. QED BY <2>3, <2>4 DEF EndingIn
<1>2. QED BY <1>1 DEF NoSilentDrop

LEMMA KeepsGranted == ASSUME IInv PROVE OnlyGrantedReachHost
<1>1. ASSUME Subuser, ~disposed, NEW n \in 1..Len(opens),
             opens[n].endpoint = "session", OnItsWay(n)
      PROVE  opens[n].stream \in granted
  <2>1. Sound(Now, World, {}, {}) /\ SoundWorld(World) BY DEF IInv
  <2>2. Lively(Now, World, {}, {}) BY <1>1, <2>1, NowFields DEF Sound
  <2>3. SUFFICES MayBeTold(World, n)
    BY <1>1, WorldFields DEF MayBeTold
  <2>4. CASE hostOpen[opens[n].stream] = n
    <3>1. opens[n].stream \in Stream
      <4>1. opens \in Seq([stream : Stream, endpoint : Endpoint])
        BY <2>1, WorldFields DEF SoundWorld
      <4>2. opens[n] \in [stream : Stream, endpoint : Endpoint] BY <4>1, Elements
      <4>3. QED BY <4>2
    <3>2. n # 0 OBVIOUS
    <3>3. QED BY <2>2, <2>4, <3>1, <3>2, WorldFields DEF Lively, Served
  <2>5. ASSUME NEW q, Upward(q, Now, World, {}),
               \E i \in 1..Len(q) : q[i].kind = "open" /\ q[i].opening = n
        PROVE  MayBeTold(World, n)
    BY <2>5 DEF Upward, Opens
  <2>6. Upward(up, Now, World, {}) /\ Upward(pending, Now, World, {})
    BY <2>2, NowFields DEF Lively
  <2>7. QED BY <1>1, <2>4, <2>5, <2>6 DEF OnItsWay
<1>2. QED BY <1>1 DEF OnlyGrantedReachHost

(* The carrier's books are kept: the types, the pending budget, the        *)
(* registers of the streams, and one ending at most for each.              *)
THEOREM BookkeepingHolds == ASSUME ~IdReuse PROVE Spec => []Bookkeeping
<1>1. IInv => Bookkeeping BY KeepsTypes, KeepsBooks DEF Bookkeeping
<1>2. QED BY <1>1, CarrierInvariance, PTL

(* The host never serves a stream the gateway has forgotten.               *)
THEOREM NoOrphan == ASSUME ~IdReuse PROVE Spec => []NoOrphanAtHost
<1>1. IInv => NoOrphanAtHost BY KeepsHost
<1>2. QED BY <1>1, CarrierInvariance, PTL

(* No stream of the browser ends in silence.                               *)
THEOREM NoSilence == ASSUME ~IdReuse PROVE Spec => []NoSilentDrop
<1>1. IInv => NoSilentDrop BY KeepsBrowser
<1>2. QED BY <1>1, CarrierInvariance, PTL

(* A sub-user's session stream reaches the host only while granted.        *)
THEOREM GrantedOnly == ASSUME ~IdReuse PROVE Spec => []OnlyGrantedReachHost
<1>1. IInv => OnlyGrantedReachHost BY KeepsGranted
<1>2. QED BY <1>1, CarrierInvariance, PTL
==============================================================================
