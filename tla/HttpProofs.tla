----------------------------- MODULE HttpProofs -----------------------------
(***************************************************************************)
(* Proofs about HttpProxy for any backends, pool sizes, requests and        *)
(* connections: a connection has one owner, a reused one carries nothing of *)
(* an earlier request, and the retry neither blames a stale connection on   *)
(* the backend nor sends a body twice.                                      *)
(***************************************************************************)
EXTENDS HttpProxy, WellFoundedInduction, TLAPS

Holding(r) == pc[r] \in {"write", "read", "body"}

(* Where a request stands tells what it holds and how often it was sent:     *)
(* once on a pooled connection and once more on a new one.                   *)
RequestState ==
    \A r \in Requests :
        /\ held[r] # Nothing <=> Holding(r)
        /\ reused[r] => Holding(r)
        /\ pc[r] \in {"free", "get"} => sent[r] = 0
        /\ pc[r] = "write" /\ reused[r] => sent[r] = 0
        /\ pc[r] \in {"dial", "write"} => sent[r] <= 1
        /\ pc[r] = "read" /\ reused[r] => sent[r] <= 1

\* A body that nobody has read has not been sent.
UnreadIsUnsent ==
    \A r \in Requests : upload[r] = "unread" => sent[r] = 0

\* A new connection that the backend has closed is the backend's fault.
GoneIsFaulty ==
    \A r \in Requests :
        held[r] # Nothing /\ ~reused[r] /\ link[held[r]].gone => r \in faulty

Silent(l) == l.inbox = <<>> /\ l.wire = <<>>

(* What is on a connection that no interim response came on: the request     *)
(* whose response is awaited, or that response, or the rest of its body, of  *)
(* the request that holds the connection; nothing otherwise.                 *)
Carries(c, l) ==
    /\ \A r \in Requests : held[r] = c /\ pc[r] = "read" =>
          /\ l.rest = Nothing
          /\ \/ Silent(l)
             \/ l.inbox = <<r>> /\ l.wire = <<>>
             \/ l.inbox = <<>> /\ Len(l.wire) = 1 /\ l.wire[1].of = r
    /\ \A r \in Requests : held[r] = c /\ pc[r] = "body" =>
          Silent(l) /\ l.rest \in {Nothing, r} /\ got[r].of = r
    /\ (\A r \in Requests : held[r] = c => pc[r] = "write") =>
          Silent(l) /\ l.rest = Nothing

NothingIsLeft == \A c \in Conns : link[c] # Nothing /\ ~link[c].interim => Carries(c, link[c])

\* No connection is in two places of the pool.
Distinct ==
    \A a, b \in Address : \A i \in DOMAIN idle[a], j \in DOMAIN idle[b] :
        idle[a][i] = idle[b][j] => a = b /\ i = j

PoolOK ==
    /\ maxIdle \in MaxIdles
    /\ idle \in [Address -> Seq(Conns)]
    /\ \A b \in Address : idle[b] # <<>> => Len(idle[b]) <= maxIdle
    /\ Distinct

\* The owners of open connections, the places in the pool apart.
Owners ==
    /\ \A c \in Conns :
          link[c] # Nothing <=> Pooled(c) \/ c \in expired \/ \E r \in Requests : held[r] = c
    /\ \A c \in expired : ~Pooled(c)
    /\ \A r \in Requests : ~Pooled(held[r]) /\ held[r] \notin expired
    /\ \A r, q \in Requests : held[r] = held[q] /\ held[r] # Nothing => r = q

HttpInv ==
    /\ TypeOK /\ PoolOK /\ Owners /\ RequestState /\ UnreadIsUnsent /\ UploadedOnce
    /\ GoneIsFaulty /\ StaleIsNotBlamed /\ NothingIsLeft

-----------------------------------------------------------------------------
(* The loop of cleanup, for any list of connections.                         *)

(* A set of numbers has a least one.                                         *)
LEMMA LeastNumber ==
    ASSUME NEW T \in SUBSET Nat, T # {}
    PROVE  \E x \in T : \A y \in T : x <= y
<1>1. PICK x \in T : \A y \in T : ~(<<y, x>> \in OpToRel(<, Nat))
  BY WFMin, NatLessThanWellFounded
<1>2. \A y \in T : ~(y < x)
  BY <1>1 DEF OpToRel
<1> QED BY <1>2

\* What an iteration of the loop makes of the list so far.
LoopStep(s, good, n, k) == IF s[n] \in good THEN Append(k, s[n]) ELSE k

\* f is the list after each iteration, up to the n-th.
IsLoop(s, good, f, n) ==
    f = [i \in 0..n |-> IF i = 0 THEN <<>> ELSE LoopStep(s, good, i, f[i - 1])]

(* The recursive function that Only is made of exists.                       *)
LEMMA LoopExists ==
    ASSUME NEW s, NEW good
    PROVE  \A n \in Nat : \E f : IsLoop(s, good, f, n)
<1> DEFINE T == {n \in Nat : ~\E f : IsLoop(s, good, f, n)}
<1> SUFFICES ASSUME T # {} PROVE FALSE
  OBVIOUS
<1>1. PICK n \in T : \A m \in T : n <= m
  <2>1. T \subseteq Nat
    OBVIOUS
  <2> HIDE DEF T
  <2> QED BY <2>1, LeastNumber
<1>2. n \in Nat /\ ~\E f : IsLoop(s, good, f, n)
  OBVIOUS
<1>3. n # 0
  <2> DEFINE f == [i \in 0..0 |-> <<>>]
  <2>1. IsLoop(s, good, f, 0)
    BY DEF IsLoop
  <2> QED BY <1>2, <2>1
<1>4. n - 1 \in Nat /\ n - 1 \notin T
  BY <1>1, <1>2, <1>3
<1>5. PICK f : IsLoop(s, good, f, n - 1)
  BY <1>4
<1> DEFINE g == [i \in 0..n |-> IF i = n THEN LoopStep(s, good, n, f[n - 1]) ELSE f[i]]
<1>6. \A i \in 0..(n - 1) :
        f[i] = IF i = 0 THEN <<>> ELSE LoopStep(s, good, i, f[i - 1])
  BY <1>5 DEF IsLoop
<1>7. \A i \in 0..n : g[i] = IF i = 0 THEN <<>> ELSE LoopStep(s, good, i, g[i - 1])
  <2> SUFFICES ASSUME NEW i \in 0..n
               PROVE  g[i] = IF i = 0 THEN <<>> ELSE LoopStep(s, good, i, g[i - 1])
    OBVIOUS
  <2>1. CASE i = n
    <3>1. g[n - 1] = f[n - 1]
      BY <1>2, <1>3
    <3> QED BY <1>2, <1>3, <2>1, <3>1
  <2>2. CASE i # n /\ i # 0
    <3>1. g[i] = f[i] /\ g[i - 1] = f[i - 1]
      BY <1>2, <2>2
    <3>2. f[i] = LoopStep(s, good, i, f[i - 1])
      BY <1>2, <1>6, <2>2
    <3> QED BY <2>2, <3>1, <3>2
  <2>3. CASE i # n /\ i = 0
    BY <1>2, <1>6, <2>3
  <2> QED BY <2>1, <2>2, <2>3
<1>8. IsLoop(s, good, g, n)
  <2> HIDE DEF g
  <2>1. g = [i \in 0..n |-> g[i]]
    BY DEF g
  <2> QED BY <1>7, <2>1 DEF IsLoop
<1> QED BY <1>2, <1>8

LEMMA OnlyIsLoop ==
    ASSUME NEW s, NEW good, Len(s) \in Nat
    PROVE  \E f : IsLoop(s, good, f, Len(s)) /\ Only(s, good) = f[Len(s)]
<1> DEFINE f == CHOOSE k : IsLoop(s, good, k, Len(s))
<1>1. IsLoop(s, good, f, Len(s))
  BY LoopExists
<1>2. Only(s, good) = f[Len(s)]
  BY DEF Only, IsLoop, LoopStep
<1> QED BY <1>1, <1>2

\* k holds the connections of the first n of s that are good, each once.
KeepsGood(s, good, n, k) ==
    /\ Len(k) <= n
    /\ \A c : (\E j \in 1..Len(k) : k[j] = c) <=> c \in good /\ \E i \in 1..n : s[i] = c
    /\ IsInjective(s) => IsInjective(k)

(* An iteration keeps its connection if it is good, and the ones before.     *)
LEMMA StepKeepsGood ==
    ASSUME NEW S, NEW s \in Seq(S), NEW good, NEW n \in 1..Len(s), NEW k \in Seq(S),
           KeepsGood(s, good, n - 1, k)
    PROVE  /\ LoopStep(s, good, n, k) \in Seq(S)
           /\ KeepsGood(s, good, n, LoopStep(s, good, n, k))
<1> DEFINE m == LoopStep(s, good, n, k)
<1>1. s[n] \in S /\ Len(k) \in Nat /\ n \in Nat /\ n >= 1 /\ DOMAIN s = 1..Len(s)
  OBVIOUS
<1>2. \A c : (\E i \in 1..n : s[i] = c) <=> c = s[n] \/ \E i \in 1..(n - 1) : s[i] = c
  BY <1>1
<1>3. CASE s[n] \in good
  <2>1. m = Append(k, s[n])
    BY <1>3 DEF LoopStep
  <2>2. /\ m \in Seq(S) /\ Len(m) = Len(k) + 1 /\ m[Len(k) + 1] = s[n]
        /\ \A j \in 1..Len(k) : m[j] = k[j]
    BY <1>1, <2>1
  <2> HIDE DEF m
  <2>3. \A c : (\E j \in 1..Len(m) : m[j] = c) <=> c = s[n] \/ \E j \in 1..Len(k) : k[j] = c
    <3> SUFFICES ASSUME NEW c
                 PROVE  (\E j \in 1..Len(m) : m[j] = c)
                            <=> c = s[n] \/ \E j \in 1..Len(k) : k[j] = c
      OBVIOUS
    <3>1. ASSUME NEW j \in 1..Len(m), m[j] = c
          PROVE  c = s[n] \/ \E i \in 1..Len(k) : k[i] = c
      <4>1. CASE j = Len(k) + 1
        BY <2>2, <3>1, <4>1
      <4>2. CASE j \in 1..Len(k)
        BY <2>2, <3>1, <4>2
      <4> QED BY <1>1, <2>2, <4>1, <4>2
    <3>2. ASSUME NEW j \in 1..Len(k), k[j] = c PROVE \E i \in 1..Len(m) : m[i] = c
      <4>1. j \in 1..Len(m) /\ m[j] = c
        BY <1>1, <2>2, <3>2
      <4> QED BY <4>1
    <3>3. ASSUME c = s[n] PROVE \E i \in 1..Len(m) : m[i] = c
      <4>1. Len(k) + 1 \in 1..Len(m)
        BY <1>1, <2>2
      <4> QED BY <2>2, <3>3, <4>1
    <3> QED BY <3>1, <3>2, <3>3
  <2>4. ASSUME IsInjective(s) PROVE IsInjective(m)
    <3>1. \A i \in 1..(n - 1) : s[i] # s[n]
      BY <1>1, <2>4 DEF IsInjective
    <3>2. \A j \in 1..Len(k) : k[j] # s[n]
      BY <3>1 DEF KeepsGood
    <3>3. \A i, j \in 1..Len(k) : k[i] = k[j] => i = j
      BY <2>4 DEF KeepsGood, IsInjective
    <3>4. DOMAIN m = 1..(Len(k) + 1)
      BY <2>2
    <3>5. \A i \in DOMAIN m : i \in 1..Len(k) \/ i = Len(k) + 1
      BY <1>1, <3>4
    <3> QED BY <2>2, <3>2, <3>3, <3>5 DEF IsInjective
  <2>5. Len(m) <= n
    BY <1>1, <2>2 DEF KeepsGood
  <2>6. \A c : (\E j \in 1..Len(m) : m[j] = c) <=> c \in good /\ \E i \in 1..n : s[i] = c
    BY <1>2, <1>3, <2>3 DEF KeepsGood
  <2> QED BY <2>2, <2>4, <2>5, <2>6 DEF KeepsGood, m
<1>4. CASE s[n] \notin good
  <2>1. m = k
    BY <1>4 DEF LoopStep
  <2>2. \A c : (\E j \in 1..Len(k) : k[j] = c) <=> c \in good /\ \E i \in 1..n : s[i] = c
    BY <1>2, <1>4 DEF KeepsGood
  <2> QED BY <1>1, <2>1, <2>2 DEF KeepsGood
<1> QED BY <1>3, <1>4

(* cleanup keeps exactly the good connections, and none twice.               *)
LEMMA OnlyKeepsGood ==
    ASSUME NEW S, NEW s \in Seq(S), NEW good
    PROVE  Only(s, good) \in Seq(S) /\ KeepsGood(s, good, Len(s), Only(s, good))
<1>1. Len(s) \in Nat
  OBVIOUS
<1>2. PICK f : IsLoop(s, good, f, Len(s)) /\ Only(s, good) = f[Len(s)]
  BY <1>1, OnlyIsLoop
<1>3. \A n \in 0..Len(s) : f[n] = IF n = 0 THEN <<>> ELSE LoopStep(s, good, n, f[n - 1])
  BY <1>2 DEF IsLoop
<1> DEFINE Good(n) == f[n] \in Seq(S) /\ KeepsGood(s, good, n, f[n])
           T == {n \in 0..Len(s) : ~Good(n)}
<1>4. T = {}
  <2> SUFFICES ASSUME T # {} PROVE FALSE
    OBVIOUS
  <2>1. PICK n \in T : \A m \in T : n <= m
    <3>1. T \subseteq Nat
      OBVIOUS
    <3> HIDE DEF T
    <3> QED BY <3>1, LeastNumber
  <2>2. n \in 0..Len(s) /\ ~Good(n)
    OBVIOUS
  <2>3. n # 0
    <3>1. <<>> \in Seq(S) /\ KeepsGood(s, good, 0, <<>>)
      BY DEF KeepsGood, IsInjective
    <3>2. f[0] = <<>>
      BY <1>1, <1>3
    <3> QED BY <2>2, <3>1, <3>2
  <2>4. n \in 1..Len(s) /\ n - 1 \in 0..Len(s) /\ Good(n - 1)
    BY <1>1, <2>1, <2>2, <2>3
  <2>5. f[n] = LoopStep(s, good, n, f[n - 1])
    BY <1>3, <2>2, <2>3
  <2>6. Good(n)
    BY <2>4, <2>5, StepKeepsGood
  <2> QED BY <2>2, <2>6
<1>5. Good(Len(s))
  BY <1>1, <1>4
<1> QED BY <1>2, <1>5

-----------------------------------------------------------------------------
(* The pool: who is in it after get, put and cleanup.                        *)

LEMMA OneOwnerIs == OneOwner <=> Owners /\ Distinct
BY DEF OneOwner, Owners, Distinct

LEMMA PooledAt ==
    \A c : Pooled(c) <=> \E b \in Address : \E i \in DOMAIN idle[b] : idle[b][i] = c
BY DEF Pooled, Range

LEMMA GetPool ==
    ASSUME PoolOK, NEW b \in Address, idle[b] # <<>>,
           idle' = [idle EXCEPT ![b] = Taken(b)], UNCHANGED maxIdle
    PROVE  /\ PoolOK' /\ Last(idle[b]) \in Conns /\ Pooled(Last(idle[b]))
           /\ \A c : Pooled(c)' <=> Pooled(c) /\ c # Last(idle[b])
<1> DEFINE s == idle[b]  n == Len(s)  t == Taken(b)
<1>1. s \in Seq(Conns) /\ n \in Nat /\ n >= 1 /\ DOMAIN s = 1..n /\ Last(s) = s[n]
  BY DEF PoolOK, Last
<1>2. /\ t \in Seq(Conns) /\ Len(t) = n - 1 /\ DOMAIN t = 1..(n - 1)
      /\ \A i \in 1..(n - 1) : t[i] = s[i]
  BY <1>1 DEF Taken, Front
<1>3. idle' \in [Address -> Seq(Conns)] /\ idle'[b] = t
      /\ \A a \in Address \ {b} : idle'[a] = idle[a]
  BY <1>2 DEF PoolOK
<1>4. \A a \in Address : \A i \in DOMAIN idle'[a] : i \in DOMAIN idle[a] /\ idle'[a][i] = idle[a][i]
  BY <1>1, <1>2, <1>3
<1>5. s[n] \in Conns /\ n \in DOMAIN s
  BY <1>1
<1>6. \A a \in Address : \A i \in DOMAIN idle[a] :
        IF a = b /\ i = n THEN idle[a][i] = s[n]
                          ELSE i \in DOMAIN idle'[a] /\ idle[a][i] # s[n]
  BY <1>1, <1>2, <1>3, <1>5 DEF PoolOK, Distinct
<1> HIDE DEF s, n, t
<1>7. Distinct'
  BY <1>4 DEF PoolOK, Distinct
<1>8. \A a \in Address : idle'[a] # <<>> => Len(idle'[a]) <= maxIdle'
  <2> SUFFICES ASSUME NEW a \in Address, idle'[a] # <<>> PROVE Len(idle'[a]) <= maxIdle'
    OBVIOUS
  <2>1. CASE a = b
    <3>1. n <= maxIdle /\ maxIdle \in Int
      BY HttpAssumptions DEF PoolOK, s, n
    <3> QED BY <1>1, <1>2, <1>3, <2>1, <3>1
  <2>2. CASE a # b
    BY <1>3, <2>2 DEF PoolOK
  <2> QED BY <2>1, <2>2
<1>9. \A c : Pooled(c)' <=> \E a \in Address : \E i \in DOMAIN idle'[a] : idle'[a][i] = c
  BY DEF Pooled, Range
<1>10. \A c : Pooled(c)' <=> Pooled(c) /\ c # s[n]
  <2>1. \A a \in Address : \A i \in DOMAIN idle'[a] : idle'[a][i] # s[n]
    <3> SUFFICES ASSUME NEW a \in Address, NEW i \in DOMAIN idle'[a] PROVE idle'[a][i] # s[n]
      OBVIOUS
    <3>1. ~(a = b /\ i = n)
      BY <1>1, <1>2, <1>3
    <3> QED BY <1>4, <1>6, <3>1
  <2> QED BY <1>4, <1>6, <1>9, <2>1, PooledAt
<1>11. Pooled(s[n])
  BY <1>5, PooledAt DEF s
<1> QED BY <1>1, <1>3, <1>5, <1>7, <1>8, <1>10, <1>11 DEF PoolOK, s

LEMMA PutPool ==
    ASSUME PoolOK, NEW b \in Address, NEW c \in Conns, ~Pooled(c), HasRoom(b),
           idle' = [idle EXCEPT ![b] = Append(@, c)], UNCHANGED maxIdle
    PROVE  PoolOK' /\ \A x : Pooled(x)' <=> Pooled(x) \/ x = c
<1> DEFINE s == idle[b]  n == Len(s)  t == Append(s, c)
<1>1. s \in Seq(Conns) /\ n \in Nat /\ DOMAIN s = 1..n
  BY DEF PoolOK
<1>2. /\ t \in Seq(Conns) /\ Len(t) = n + 1 /\ DOMAIN t = 1..(n + 1)
      /\ t[n + 1] = c /\ \A i \in 1..n : t[i] = s[i]
  BY <1>1
<1>3. idle' \in [Address -> Seq(Conns)] /\ idle'[b] = t
      /\ \A a \in Address \ {b} : idle'[a] = idle[a]
  BY <1>2 DEF PoolOK
<1> HIDE DEF t
<1>4. \A a \in Address : \A i \in DOMAIN idle'[a] :
        \/ a = b /\ i = n + 1 /\ idle'[a][i] = c
        \/ i \in DOMAIN idle[a] /\ idle'[a][i] = idle[a][i]
  BY <1>1, <1>2, <1>3
<1>5. \A a \in Address : \A i \in DOMAIN idle[a] :
        i \in DOMAIN idle'[a] /\ idle'[a][i] = idle[a][i] /\ idle[a][i] # c
  <2>1. \A a \in Address : \A i \in DOMAIN idle[a] : idle[a][i] # c
    BY PooledAt
  <2> QED BY <1>1, <1>2, <1>3, <2>1
<1>6. n + 1 \in DOMAIN idle'[b] /\ idle'[b][n + 1] = c
  BY <1>1, <1>2, <1>3
<1>7. Len(t) <= maxIdle
  BY <1>1, <1>2, HttpAssumptions DEF HasRoom, PoolOK
<1> HIDE DEF s, n
<1>8. Distinct'
  BY <1>4, <1>5 DEF PoolOK, Distinct
<1>9. \A a \in Address : idle'[a] # <<>> => Len(idle'[a]) <= maxIdle'
  BY <1>3, <1>7 DEF PoolOK
<1>10. \A x : Pooled(x)' <=> \E a \in Address : \E i \in DOMAIN idle'[a] : idle'[a][i] = x
  BY DEF Pooled, Range
<1>11. \A x : Pooled(x)' <=> Pooled(x) \/ x = c
  BY <1>4, <1>5, <1>6, <1>10, PooledAt
<1> QED BY <1>3, <1>8, <1>9, <1>11 DEF PoolOK

LEMMA CleanupPool ==
    ASSUME PoolOK, Cleanup
    PROVE  /\ PoolOK' /\ expired' \subseteq Conns
           /\ \A c : Pooled(c)' <=> Pooled(c) /\ c \notin old
           /\ \A c : c \in expired' <=> Pooled(c) /\ c \in old
<1>1. /\ maxIdle' = maxIdle /\ idle' = [b \in Address |-> Kept(b)]
      /\ expired' = UNION {Range(idle[b]) \ Range(Kept(b)) : b \in Address}
  BY DEF Cleanup
<1>2. ASSUME NEW b \in Address
      PROVE  /\ Kept(b) \in Seq(Conns) /\ Len(Kept(b)) <= Len(idle[b])
             /\ Range(Kept(b)) = Range(idle[b]) \ old
             /\ \A i, j \in DOMAIN Kept(b) : Kept(b)[i] = Kept(b)[j] => i = j
  <2> DEFINE s == idle[b]
             k == Kept(b)
  <2>1. s \in Seq(Conns) /\ DOMAIN s = 1..Len(s) /\ \A i \in 1..Len(s) : s[i] \in Conns
    BY DEF PoolOK
  <2>2. k \in Seq(Conns) /\ KeepsGood(s, Conns \ old, Len(s), k)
    BY <2>1, OnlyKeepsGood DEF Kept
  <2>3. IsInjective(s)
    BY DEF PoolOK, Distinct, IsInjective
  <2> HIDE DEF s, k
  <2>4. DOMAIN k = 1..Len(k)
    BY <2>2
  <2>5. Range(k) = Range(s) \ old
    BY <2>1, <2>2, <2>4 DEF KeepsGood, Range
  <2> QED BY <2>2, <2>3, <2>5 DEF KeepsGood, IsInjective, s, k
<1>3. idle' \in [Address -> Seq(Conns)] /\ \A b \in Address : idle'[b] = Kept(b)
  BY <1>1, <1>2
<1>4. \A b \in Address : idle'[b] # <<>> => Len(idle'[b]) <= maxIdle'
  <2> SUFFICES ASSUME NEW b \in Address, Kept(b) # <<>> PROVE Len(Kept(b)) <= maxIdle
    BY <1>1, <1>3
  <2>1. Len(Kept(b)) \in Nat /\ Len(Kept(b)) # 0 /\ Len(Kept(b)) <= Len(idle[b])
    BY <1>2
  <2>2. idle[b] \in Seq(Conns) /\ Len(idle[b]) \in Nat /\ maxIdle \in Int
    BY HttpAssumptions DEF PoolOK
  <2>3. idle[b] # <<>>
    BY <2>1, <2>2
  <2>4. Len(idle[b]) <= maxIdle
    BY <2>3 DEF PoolOK
  <2> QED BY <2>1, <2>2, <2>4
<1>5. Distinct'
  <2> SUFFICES ASSUME NEW a \in Address, NEW b \in Address,
                      NEW i \in DOMAIN Kept(a), NEW j \in DOMAIN Kept(b),
                      Kept(a)[i] = Kept(b)[j]
               PROVE  a = b /\ i = j
    BY <1>3 DEF Distinct
  <2>1. Kept(a)[i] \in Range(idle[a]) /\ Kept(b)[j] \in Range(idle[b])
    BY <1>2 DEF Range
  <2>2. a = b
    BY <2>1 DEF Range, PoolOK, Distinct
  <2> QED BY <1>2, <2>2
<1>6. \A c : Pooled(c)' <=> Pooled(c) /\ c \notin old
  BY <1>2, <1>3 DEF Pooled
<1>7. \A c : c \in expired' <=> Pooled(c) /\ c \in old
  BY <1>1, <1>2 DEF Pooled
<1>8. \A c : Pooled(c) => c \in Conns
  BY PooledAt DEF PoolOK
<1> QED BY <1>1, <1>3, <1>4, <1>5, <1>6, <1>7, <1>8 DEF PoolOK

-----------------------------------------------------------------------------
(* The steps of a request.                                                   *)

LEMMA NewLinkIs ==
    /\ NewLink \in Link /\ NewLink # Nothing /\ ~NewLink.gone /\ ~NewLink.interim
    /\ Silent(NewLink) /\ NewLink.rest = Nothing
<1>1. NewLink \in Link
  BY DEF NewLink, Link
<1>2. NewLink # Nothing
  BY <1>1, HttpAssumptions
<1> QED BY <1>1, <1>2 DEF NewLink, Silent

(* A step of r changes nothing on a connection that it has nothing to do with. *)
LEMMA Elsewhere ==
    ASSUME NEW r \in Requests, NEW c \in Conns, Carries(c, link[c]),
           link'[c] = link[c], held[r] # c, held'[r] # c,
           \A q \in Requests \ {r} :
               held'[q] = held[q] /\ pc'[q] = pc[q] /\ got'[q] = got[q]
    PROVE  Carries(c, link[c])'
BY DEF Carries

(* A new service: nothing is connected.                                      *)
LEMMA InitHttp == Init => HttpInv
<1> SUFFICES ASSUME Init PROVE HttpInv
  OBVIOUS
<1>1. Backends \in Seq(Address) /\ Len(Backends) \in Nat \ {0} /\ Backends[1] \in Address
  BY HttpAssumptions DEF Address
<1>2. NoResponse \in Response
  BY DEF NoResponse, Response
<1>3. \A b \in Address : idle[b] = <<>>
  BY DEF Init
<1>4. TypeOK
  BY <1>1, <1>2 DEF Init, TypeOK
<1>5. \A c : ~Pooled(c)
  BY <1>3 DEF Pooled, Range
<1>6. PoolOK
  BY <1>3, <1>4 DEF PoolOK, TypeOK, Distinct
<1>7. Owners
  BY <1>5, HttpAssumptions DEF Init, Owners
<1>8. RequestState /\ UnreadIsUnsent /\ UploadedOnce /\ GoneIsFaulty
      /\ StaleIsNotBlamed /\ NothingIsLeft
  BY DEF Init, RequestState, Holding, UnreadIsUnsent, UploadedOnce, GoneIsFaulty,
         StaleIsNotBlamed, NothingIsLeft
<1> QED BY <1>4, <1>6, <1>7, <1>8 DEF HttpInv

(* nextBackend picks a backend of the service.                               *)
LEMMA ArriveHttp ==
    ASSUME HttpInv, NEW r \in Requests, NEW u \in {"none", "unread"}, Arrive(r, u)
    PROVE  HttpInv'
<1> USE DEF HttpInv
<1>1. /\ pc[r] = "free" /\ pc' = [pc EXCEPT ![r] = "get"]
      /\ upload' = [upload EXCEPT ![r] = u]
      /\ dest' = [dest EXCEPT ![r] = Backends[next + 1]]
      /\ next' = (next + 1) % Len(Backends)
      /\ UNCHANGED <<maxIdle, idle, old, expired, link, held, reused, got, sent, faulty>>
  BY DEF Arrive, poolVars
<1>2. Backends[next + 1] \in Address /\ next' \in 0..(Len(Backends) - 1)
  <2>1. Backends \in Seq(Address) /\ Len(Backends) \in Nat \ {0}
    BY HttpAssumptions DEF Address
  <2>2. next + 1 \in 1..Len(Backends)
    BY <2>1 DEF TypeOK
  <2> QED BY <1>1, <2>1, <2>2
<1>3. TypeOK'
  BY <1>1, <1>2 DEF TypeOK
<1>4. PoolOK' /\ Owners'
  BY <1>1 DEF PoolOK, Distinct, Owners, Pooled
<1>5. RequestState' /\ UnreadIsUnsent' /\ UploadedOnce' /\ GoneIsFaulty' /\ StaleIsNotBlamed'
  BY <1>1 DEF TypeOK, RequestState, Holding, UnreadIsUnsent, UploadedOnce, GoneIsFaulty,
              StaleIsNotBlamed
<1>6. NothingIsLeft'
  <2>1. held[r] = Nothing
    BY <1>1 DEF RequestState, Holding
  <2>2. \A q \in Requests \ {r} : pc'[q] = pc[q]
    BY <1>1 DEF TypeOK
  <2>3. \A c \in Conns : held[r] # c /\ held'[r] # c
    BY <1>1, <2>1, HttpAssumptions
  <2> QED BY <1>1, <2>2, <2>3, Elsewhere DEF NothingIsLeft
<1> QED BY <1>3, <1>4, <1>5, <1>6

(* get hands over a connection that nobody else has and that is silent.      *)
LEMMA GetHttp ==
    ASSUME HttpInv, NEW r \in Requests, Get(r)
    PROVE  HttpInv'
<1> USE DEF HttpInv
<1> DEFINE b == dest[r]
<1>1. pc[r] = "get" /\ b \in Address
      /\ UNCHANGED <<maxIdle, next, expired, link, dest, upload, got, sent, faulty>>
  BY DEF Get, TypeOK
<1>2. held[r] = Nothing /\ ~reused[r] /\ sent[r] = 0
  BY <1>1 DEF RequestState, Holding
<1>3. CASE idle[b] = <<>>
  <2>1. pc' = [pc EXCEPT ![r] = "dial"] /\ UNCHANGED <<maxIdle, idle, old, held, reused>>
    BY <1>3 DEF Get
  <2>2. TypeOK'
    BY <1>1, <2>1 DEF TypeOK
  <2>3. PoolOK' /\ Owners'
    BY <1>1, <2>1 DEF PoolOK, Distinct, Owners, Pooled
  <2>4. RequestState' /\ UnreadIsUnsent' /\ UploadedOnce' /\ GoneIsFaulty' /\ StaleIsNotBlamed'
    BY <1>1, <1>2, <2>1 DEF TypeOK, RequestState, Holding, UnreadIsUnsent, UploadedOnce,
                            GoneIsFaulty, StaleIsNotBlamed
  <2>5. NothingIsLeft'
    <3>1. \A q \in Requests \ {r} : pc'[q] = pc[q]
      BY <2>1 DEF TypeOK
    <3>2. \A c \in Conns : held[r] # c /\ held'[r] # c
      BY <1>2, <2>1, HttpAssumptions
    <3> QED BY <1>1, <2>1, <3>1, <3>2, Elsewhere DEF NothingIsLeft
  <2> QED BY <2>2, <2>3, <2>4, <2>5
<1>4. CASE idle[b] # <<>>
  <2> DEFINE k == Last(idle[b])
  <2>1. /\ idle' = [idle EXCEPT ![b] = Taken(b)] /\ old' = old \ {k}
        /\ held' = [held EXCEPT ![r] = k] /\ reused' = [reused EXCEPT ![r] = TRUE]
        /\ pc' = [pc EXCEPT ![r] = "write"]
    BY <1>4 DEF Get
  <2>2. PoolOK' /\ k \in Conns /\ Pooled(k) /\ \A c : Pooled(c)' <=> Pooled(c) /\ c # k
    BY <1>1, <1>4, <2>1, GetPool
  <2> HIDE DEF k
  <2>3. k # Nothing /\ Nothing \notin Conns
    BY <2>2, HttpAssumptions
  <2>4. /\ held'[r] = k /\ pc'[r] = "write" /\ reused'[r]
        /\ \A q \in Requests \ {r} :
              held'[q] = held[q] /\ pc'[q] = pc[q] /\ reused'[q] = reused[q]
    BY <2>1 DEF TypeOK
  <2>5. \A q \in Requests : held[q] # k
    BY <2>2 DEF Owners
  <2>6. TypeOK'
    BY <1>1, <2>1, <2>2 DEF TypeOK, PoolOK
  <2>7. Owners'
    <3>1. k \notin expired /\ link[k] # Nothing
      BY <2>2 DEF Owners
    <3>2. \A c \in Conns : link'[c] # Nothing
              <=> Pooled(c)' \/ c \in expired' \/ \E q \in Requests : held'[q] = c
      BY <1>1, <1>2, <2>2, <2>3, <2>4, <3>1 DEF Owners
    <3>3. \A c \in expired' : ~Pooled(c)'
      BY <1>1, <2>2 DEF Owners
    <3>4. \A q \in Requests : ~Pooled(held[q])' /\ held'[q] \notin expired'
      BY <1>1, <2>2, <2>4, <3>1 DEF Owners
    <3>5. \A p, q \in Requests : held'[p] = held'[q] /\ held'[p] # Nothing => p = q
      BY <2>4, <2>5 DEF Owners
    <3> QED BY <3>2, <3>3, <3>4, <3>5 DEF Owners
  <2>8. RequestState' /\ UnreadIsUnsent' /\ UploadedOnce' /\ GoneIsFaulty' /\ StaleIsNotBlamed'
    BY <1>1, <1>2, <2>3, <2>4 DEF RequestState, Holding, UnreadIsUnsent, UploadedOnce,
                                  GoneIsFaulty, StaleIsNotBlamed
  <2>9. NothingIsLeft'
    <3> SUFFICES ASSUME NEW c \in Conns, link[c] # Nothing, ~link[c].interim
                 PROVE  Carries(c, link[c])'
      BY <1>1 DEF NothingIsLeft
    <3>1. Carries(c, link[c])
      BY DEF NothingIsLeft
    <3>2. CASE c = k
      BY <1>1, <2>4, <2>5, <3>1, <3>2 DEF Carries
    <3>3. CASE c # k
      <4>1. held[r] # c /\ held'[r] # c
        BY <1>2, <2>3, <2>4, <3>3
      <4> QED BY <1>1, <2>4, <3>1, <4>1, Elsewhere
    <3> QED BY <3>2, <3>3
  <2> QED BY <2>2, <2>6, <2>7, <2>8, <2>9
<1> QED BY <1>3, <1>4

(* A dialled connection is new: nobody has it and nothing is on it.          *)
LEMMA DialHttp ==
    ASSUME HttpInv, NEW r \in Requests, Dial(r)
    PROVE  HttpInv'
<1> USE DEF HttpInv
<1> DEFINE k == CHOOSE c \in Free : TRUE
<1>1. /\ pc[r] = "dial" /\ Free # {}
      /\ link' = [link EXCEPT ![k] = NewLink] /\ held' = [held EXCEPT ![r] = k]
      /\ pc' = [pc EXCEPT ![r] = "write"]
      /\ UNCHANGED <<maxIdle, next, idle, old, expired, dest, reused, upload, got, sent, faulty>>
  BY DEF Dial, poolVars
<1>2. k \in Free
  BY <1>1
<1> HIDE DEF k
<1>3. k \in Conns /\ link[k] = Nothing /\ k # Nothing /\ Nothing \notin Conns
  BY <1>2, HttpAssumptions DEF Free
<1>4. held[r] = Nothing /\ ~reused[r] /\ sent[r] <= 1
  BY <1>1 DEF RequestState, Holding
<1>5. /\ held'[r] = k /\ pc'[r] = "write" /\ link'[k] = NewLink
      /\ \A q \in Requests \ {r} : held'[q] = held[q] /\ pc'[q] = pc[q]
      /\ \A c \in Conns \ {k} : link'[c] = link[c]
  BY <1>1, <1>3 DEF TypeOK
<1>6. ~Pooled(k) /\ k \notin expired /\ \A q \in Requests : held[q] # k
  BY <1>3 DEF Owners
<1>7. TypeOK'
  BY <1>1, <1>3, NewLinkIs DEF TypeOK
<1>8. PoolOK' /\ \A c : Pooled(c)' <=> Pooled(c)
  BY <1>1 DEF PoolOK, Distinct, Pooled
<1>9. Owners'
  <2>1. \A c \in Conns : link'[c] # Nothing
            <=> Pooled(c)' \/ c \in expired' \/ \E q \in Requests : held'[q] = c
    BY <1>1, <1>3, <1>4, <1>5, <1>6, <1>8, NewLinkIs DEF Owners
  <2>2. \A q \in Requests : ~Pooled(held[q])' /\ held'[q] \notin expired'
    BY <1>1, <1>5, <1>6, <1>8 DEF Owners
  <2>3. \A p, q \in Requests : held'[p] = held'[q] /\ held'[p] # Nothing => p = q
    BY <1>5, <1>6 DEF Owners
  <2> QED BY <1>1, <1>8, <2>1, <2>2, <2>3 DEF Owners
<1>10. RequestState' /\ UnreadIsUnsent' /\ UploadedOnce' /\ StaleIsNotBlamed'
  BY <1>1, <1>3, <1>4, <1>5 DEF RequestState, Holding, UnreadIsUnsent, UploadedOnce,
                                StaleIsNotBlamed
<1>11. GoneIsFaulty'
  <2> SUFFICES ASSUME NEW q \in Requests, held'[q] # Nothing, ~reused[q], link'[held'[q]].gone
               PROVE  q \in faulty
    BY <1>1 DEF GoneIsFaulty
  <2>1. q # r
    BY <1>5, NewLinkIs
  <2>2. held[q] \in Conns \ {k} /\ held[q] # Nothing
    BY <1>5, <1>6, <2>1 DEF TypeOK
  <2> QED BY <1>5, <2>1, <2>2 DEF GoneIsFaulty
<1>12. NothingIsLeft'
  <2> SUFFICES ASSUME NEW c \in Conns, link'[c] # Nothing, ~link'[c].interim
               PROVE  Carries(c, link[c])'
    BY DEF NothingIsLeft
  <2>1. CASE c = k
    BY <1>5, <1>6, <2>1, NewLinkIs DEF Carries
  <2>2. CASE c # k
    <3>1. held[r] # c /\ held'[r] # c /\ link'[c] = link[c] /\ Carries(c, link[c])
      BY <1>3, <1>4, <1>5, <2>2 DEF NothingIsLeft
    <3> QED BY <1>1, <1>5, <3>1, Elsewhere
  <2> QED BY <2>1, <2>2
<1> QED BY <1>7, <1>8, <1>9, <1>10, <1>11, <1>12
(* Where no connection changes hands, is opened or closed.                   *)
LEMMA SameOwners ==
    ASSUME PoolOK, Owners, UNCHANGED <<maxIdle, idle, expired, held>>,
           \A c \in Conns : link'[c] = Nothing <=> link[c] = Nothing
    PROVE  PoolOK' /\ Owners'
<1>1. PoolOK' /\ \A c : Pooled(c)' <=> Pooled(c)
  BY DEF PoolOK, Distinct, Pooled
<1> QED BY <1>1 DEF Owners

(* A step of a request that has no connection and leaves them all alone.     *)
LEMMA WithoutConn ==
    ASSUME HttpInv, NEW r \in Requests, held[r] = Nothing,
           UNCHANGED <<maxIdle, idle, expired, link, held>>,
           \A q \in Requests \ {r} : pc'[q] = pc[q] /\ got'[q] = got[q]
    PROVE  PoolOK' /\ Owners' /\ NothingIsLeft'
<1> USE DEF HttpInv
<1>1. PoolOK' /\ Owners'
  BY SameOwners
<1>2. \A c \in Conns : held[r] # c /\ held'[r] # c
  BY HttpAssumptions
<1>3. NothingIsLeft'
  BY <1>2, Elsewhere DEF NothingIsLeft
<1> QED BY <1>1, <1>3

(* A backend that refuses a connection is at fault.                          *)
LEMMA DialFailsHttp ==
    ASSUME HttpInv, NEW r \in Requests, DialFails(r)
    PROVE  HttpInv'
<1> USE DEF HttpInv
<1>1. /\ pc[r] = "dial" /\ pc' = [pc EXCEPT ![r] = "bad_gateway"]
      /\ faulty' = faulty \cup {r}
      /\ UNCHANGED <<maxIdle, next, idle, old, expired, link, dest, held, reused, upload, got, sent>>
  BY DEF DialFails, poolVars
<1>2. held[r] = Nothing /\ ~reused[r]
  BY <1>1 DEF RequestState, Holding
<1>3. TypeOK'
  BY <1>1 DEF TypeOK
<1>4. pc'[r] = "bad_gateway" /\ \A q \in Requests \ {r} : pc'[q] = pc[q]
  BY <1>1 DEF TypeOK
<1>5. PoolOK' /\ Owners' /\ NothingIsLeft'
  BY <1>1, <1>2, <1>4, WithoutConn
<1>6. RequestState' /\ UnreadIsUnsent' /\ UploadedOnce' /\ GoneIsFaulty' /\ StaleIsNotBlamed'
  BY <1>1, <1>2, <1>4 DEF RequestState, Holding, UnreadIsUnsent, UploadedOnce, GoneIsFaulty,
                          StaleIsNotBlamed
<1> QED BY <1>3, <1>5, <1>6

(* After the 502 the goroutine is as it was at first.                        *)
LEMMA BadGatewayHttp ==
    ASSUME HttpInv, NEW r \in Requests, BadGateway(r)
    PROVE  HttpInv'
<1> USE DEF HttpInv
<1>1. /\ pc[r] = "bad_gateway" /\ pc' = [pc EXCEPT ![r] = "free"]
      /\ held' = [held EXCEPT ![r] = Nothing] /\ reused' = [reused EXCEPT ![r] = FALSE]
      /\ upload' = [upload EXCEPT ![r] = "none"] /\ got' = [got EXCEPT ![r] = NoResponse]
      /\ sent' = [sent EXCEPT ![r] = 0] /\ faulty' = faulty \ {r}
      /\ UNCHANGED <<maxIdle, next, idle, old, expired, link, dest>>
  BY DEF BadGateway, Finish, poolVars
<1>2. held[r] = Nothing /\ ~reused[r]
  BY <1>1 DEF RequestState, Holding
<1>3. held' = held
  BY <1>1, <1>2 DEF TypeOK
<1>4. NoResponse \in Response
  BY DEF NoResponse, Response
<1>5. TypeOK'
  BY <1>1, <1>4 DEF TypeOK
<1>6. /\ pc'[r] = "free" /\ ~reused'[r] /\ upload'[r] = "none" /\ sent'[r] = 0
      /\ \A q \in Requests \ {r} :
            /\ pc'[q] = pc[q] /\ got'[q] = got[q] /\ reused'[q] = reused[q]
            /\ upload'[q] = upload[q] /\ sent'[q] = sent[q] /\ (q \in faulty => q \in faulty')
  BY <1>1 DEF TypeOK
<1>7. PoolOK' /\ Owners' /\ NothingIsLeft'
  BY <1>1, <1>2, <1>3, <1>6, WithoutConn
<1>8. RequestState' /\ UnreadIsUnsent' /\ UploadedOnce' /\ GoneIsFaulty' /\ StaleIsNotBlamed'
  BY <1>1, <1>2, <1>3, <1>6 DEF RequestState, Holding, UnreadIsUnsent, UploadedOnce,
                                GoneIsFaulty, StaleIsNotBlamed
<1> QED BY <1>5, <1>7, <1>8

(* A request that holds a connection is the only one to do so, and it is open. *)
LEMMA HeldIsOpen ==
    ASSUME HttpInv, NEW r \in Requests, Holding(r)
    PROVE  /\ held[r] \in Conns /\ link[held[r]] # Nothing /\ link[held[r]] \in Link
           /\ ~Pooled(held[r]) /\ held[r] \notin expired
           /\ \A q \in Requests \ {r} : held[q] # held[r]
<1> USE DEF HttpInv
<1>1. held[r] \in Conns /\ held[r] # Nothing
  BY DEF RequestState, TypeOK
<1>2. link[held[r]] # Nothing /\ link[held[r]] \in Link
  BY <1>1 DEF Owners, TypeOK
<1> QED BY <1>1, <1>2 DEF Owners

(* A request writes on a silent connection: its own request is then alone    *)
(* on it. It wrote at most once before, and never a body.                    *)
LEMMA WriteHttp ==
    ASSUME HttpInv, NEW r \in Requests, Write(r)
    PROVE  HttpInv'
<1> USE DEF HttpInv
<1> DEFINE k == held[r]  l == link[k]
           m == IF l.gone THEN l ELSE [l EXCEPT !.inbox = Append(@, r)]
<1>1. /\ pc[r] = "write" /\ upload[r] # "spent" /\ pc' = [pc EXCEPT ![r] = "read"]
      /\ upload' = [upload EXCEPT ![r] = AfterWrite(@)]
      /\ UNCHANGED <<maxIdle, next, idle, old, expired, dest, held, reused, got, faulty>>
  BY DEF Write, poolVars
<1>2. /\ k \in Conns /\ l # Nothing /\ l \in Link /\ \A q \in Requests \ {r} : held[q] # k
  BY <1>1, HeldIsOpen DEF Holding
<1>3. /\ link' = [link EXCEPT ![k] = m]
      /\ \/ sent' = sent
         \/ sent' = [sent EXCEPT ![r] = @ + 1]
  BY DEF Write, TypeOK
<1>4. m \in Link /\ m # Nothing /\ m.gone = l.gone /\ m.interim = l.interim
  <2> DEFINE i == Append(l.inbox, r)
  <2>1. i \in Seq(Requests \cup {Stale})
    BY <1>2 DEF Link
  <2> HIDE DEF l, i
  <2>2. /\ [l EXCEPT !.inbox = i] \in Link
        /\ [l EXCEPT !.inbox = i].gone = l.gone /\ [l EXCEPT !.inbox = i].interim = l.interim
    BY <1>2, <2>1 DEF Link
  <2>3. m \in Link /\ m.gone = l.gone /\ m.interim = l.interim
    BY <1>2, <2>2 DEF i
  <2> QED BY <2>3, HttpAssumptions
<1>5. ~l.interim => m.rest = Nothing /\ m.wire = <<>> /\ (m.inbox = <<>> \/ m.inbox = <<r>>)
  <2> SUFFICES ASSUME ~l.interim
               PROVE  m.rest = Nothing /\ m.wire = <<>> /\ (m.inbox = <<>> \/ m.inbox = <<r>>)
    OBVIOUS
  <2>1. Silent(l) /\ l.rest = Nothing
    BY <1>1, <1>2 DEF NothingIsLeft, Carries
  <2>2. Append(<<>>, r) = <<r>>
    OBVIOUS
  <2> QED BY <1>2, <2>1, <2>2 DEF Silent, Link
<1> HIDE DEF k, l, m
<1>6. sent[r] \in 0..1 /\ (reused[r] => sent[r] = 0) /\ (upload[r] # "none" => sent[r] = 0)
      /\ (upload'[r] # "none" => upload[r] # "none") /\ upload'[r] \in {"none", "spent"}
  <2>1. upload'[r] = AfterWrite(upload[r]) /\ upload[r] \in {"none", "unread"}
    BY <1>1 DEF TypeOK
  <2> QED BY <1>1, <2>1 DEF TypeOK, RequestState, UnreadIsUnsent, AfterWrite
<1>7. /\ pc'[r] = "read" /\ link'[k] = m /\ sent'[r] \in 0..2 /\ sent'[r] <= sent[r] + 1
      /\ \A q \in Requests \ {r} :
            pc'[q] = pc[q] /\ upload'[q] = upload[q] /\ sent'[q] = sent[q]
      /\ \A c \in Conns \ {k} : link'[c] = link[c]
  BY <1>1, <1>2, <1>3, <1>6 DEF TypeOK
<1>8. TypeOK'
  <2>1. upload' \in [Requests -> {"none", "unread", "spent"}]
    BY <1>1 DEF TypeOK, AfterWrite
  <2>2. link' \in [Conns -> Link \cup {Nothing}]
    BY <1>3, <1>4 DEF TypeOK
  <2>3. sent' \in [Requests -> 0..2]
    <3>1. sent[r] + 1 \in 0..2
      BY <1>6
    <3> QED BY <1>3, <3>1 DEF TypeOK
  <2> QED BY <1>1, <2>1, <2>2, <2>3 DEF TypeOK
<1>9. PoolOK' /\ Owners'
  BY <1>1, <1>2, <1>4, <1>7, SameOwners DEF l
<1>10. RequestState' /\ UnreadIsUnsent' /\ UploadedOnce' /\ StaleIsNotBlamed'
  BY <1>1, <1>6, <1>7 DEF RequestState, Holding, UnreadIsUnsent, UploadedOnce, StaleIsNotBlamed
<1>11. GoneIsFaulty'
  BY <1>1, <1>2, <1>4, <1>7 DEF GoneIsFaulty, TypeOK, k, l
<1>12. NothingIsLeft'
  <2> SUFFICES ASSUME NEW c \in Conns, link'[c] # Nothing, ~link'[c].interim
               PROVE  Carries(c, link[c])'
    BY DEF NothingIsLeft
  <2>1. CASE c = k
    BY <1>1, <1>2, <1>4, <1>5, <1>7, <2>1 DEF Carries, Silent, k
  <2>2. CASE c # k
    <3>1. held[r] # c /\ held'[r] # c /\ link'[c] = link[c] /\ Carries(c, link[c])
      BY <1>1, <1>7, <2>2 DEF NothingIsLeft, k
    <3> QED BY <1>1, <1>7, <3>1, Elsewhere
  <2> QED BY <2>1, <2>2
<1> QED BY <1>8, <1>9, <1>10, <1>11, <1>12
(* The connection of r is closed: it is nobody's, and no other is touched.   *)
LEMMA Closed ==
    ASSUME HttpInv, NEW r \in Requests, Holding(r),
           link' = [link EXCEPT ![held[r]] = Nothing],
           held' = [held EXCEPT ![r] = Nothing], UNCHANGED <<maxIdle, idle, expired>>,
           \A q \in Requests \ {r} :
               /\ pc'[q] = pc[q] /\ got'[q] = got[q] /\ reused'[q] = reused[q]
               /\ (q \in faulty => q \in faulty')
    PROVE  /\ link' \in [Conns -> Link \cup {Nothing}]
           /\ held' \in [Requests -> Conns \cup {Nothing}]
           /\ PoolOK' /\ Owners' /\ GoneIsFaulty' /\ NothingIsLeft'
<1> USE DEF HttpInv
<1> DEFINE k == held[r]
<1>1. k \in Conns /\ ~Pooled(k) /\ k \notin expired /\ \A q \in Requests \ {r} : held[q] # k
  BY HeldIsOpen
<1>2. /\ held'[r] = Nothing /\ link'[k] = Nothing
      /\ \A q \in Requests \ {r} : held'[q] = held[q]
      /\ \A c \in Conns \ {k} : link'[c] = link[c]
      /\ link' \in [Conns -> Link \cup {Nothing}] /\ held' \in [Requests -> Conns \cup {Nothing}]
  BY <1>1 DEF TypeOK
<1>3. PoolOK' /\ \A c : Pooled(c)' <=> Pooled(c)
  BY DEF PoolOK, Distinct, Pooled
<1>4. Nothing \notin Conns /\ ~Pooled(Nothing) /\ Nothing \notin expired
  BY HttpAssumptions, PooledAt DEF PoolOK, TypeOK
<1> HIDE DEF k
<1>5. Owners'
  <2>1. \A c \in Conns : link'[c] # Nothing
            <=> Pooled(c)' \/ c \in expired' \/ \E q \in Requests : held'[q] = c
    BY <1>1, <1>2, <1>3, <1>4 DEF Owners, k
  <2>2. \A q \in Requests : ~Pooled(held[q])' /\ held'[q] \notin expired'
    BY <1>2, <1>3, <1>4 DEF Owners
  <2>3. \A p, q \in Requests : held'[p] = held'[q] /\ held'[p] # Nothing => p = q
    BY <1>2 DEF Owners
  <2> QED BY <1>3, <2>1, <2>2, <2>3 DEF Owners
<1>6. GoneIsFaulty'
  BY <1>1, <1>2 DEF GoneIsFaulty, TypeOK
<1>7. NothingIsLeft'
  <2> SUFFICES ASSUME NEW c \in Conns, link'[c] # Nothing, ~link'[c].interim
               PROVE  Carries(c, link[c])'
    BY DEF NothingIsLeft
  <2>1. held[r] # c /\ held'[r] # c /\ link'[c] = link[c] /\ Carries(c, link[c])
    BY <1>2, <1>4 DEF NothingIsLeft, k
  <2> QED BY <1>2, <2>1, Elsewhere
<1> QED BY <1>2, <1>3, <1>5, <1>6, <1>7

(* A failed attempt: on a pooled connection it is made again, with as much   *)
(* of the body as is left; on a new one it is the backend's fault, or the    *)
(* request has a body.                                                       *)
LEMMA DiscardHttp ==
    ASSUME HttpInv, NEW r \in Requests, Discard(r),
           pc[r] \in {"write", "read"},
           reused[r] \/ r \in faulty' \/ link[held[r]].gone \/ upload[r] # "none",
           upload' = upload \/ upload' = [upload EXCEPT ![r] = AfterWrite(@)],
           faulty' \in {faulty, faulty \cup {r}},
           UNCHANGED <<maxIdle, next, idle, old, expired, dest, got, sent>>
    PROVE  HttpInv'
<1> USE DEF HttpInv
<1>1. /\ link' = [link EXCEPT ![held[r]] = Nothing] /\ held' = [held EXCEPT ![r] = Nothing]
      /\ reused' = [reused EXCEPT ![r] = FALSE]
      /\ pc' = [pc EXCEPT ![r] = AfterFailure(r)]
  BY DEF Discard
<1>2. Holding(r) /\ held[r] # Nothing
  BY DEF Holding, RequestState
<1>3. upload' \in [Requests -> {"none", "unread", "spent"}]
      /\ \A q \in Requests \ {r} : upload'[q] = upload[q]
  BY DEF TypeOK, AfterWrite
<1>4. (upload'[r] = "none" <=> upload[r] = "none") /\ (upload'[r] = "unread" => upload[r] = "unread")
  BY DEF TypeOK, AfterWrite
<1>5. /\ pc'[r] = (IF reused[r] THEN "dial" ELSE "bad_gateway") /\ ~reused'[r] /\ held'[r] = Nothing
      /\ \A q \in Requests \ {r} :
            pc'[q] = pc[q] /\ reused'[q] = reused[q] /\ held'[q] = held[q]
  BY <1>1 DEF TypeOK, AfterFailure
<1>6. /\ link' \in [Conns -> Link \cup {Nothing}] /\ held' \in [Requests -> Conns \cup {Nothing}]
      /\ PoolOK' /\ Owners' /\ GoneIsFaulty' /\ NothingIsLeft'
  BY <1>1, <1>2, <1>5, Closed
<1>7. TypeOK'
  BY <1>1, <1>3, <1>6 DEF TypeOK, AfterFailure
<1>8. RequestState'
  BY <1>5 DEF RequestState, Holding
<1>9. UnreadIsUnsent' /\ UploadedOnce'
  BY <1>3, <1>4 DEF UnreadIsUnsent, UploadedOnce
<1>10. StaleIsNotBlamed'
  <2>1. ~reused[r] => r \in faulty' \/ upload[r] # "none"
    BY <1>2 DEF GoneIsFaulty
  <2> QED BY <1>3, <1>4, <1>5, <2>1 DEF StaleIsNotBlamed
<1> QED BY <1>6, <1>7, <1>8, <1>9, <1>10

LEMMA FailureHttp ==
    ASSUME HttpInv, NEW r \in Requests, WriteFails(r) \/ ReadFails(r)
    PROVE  HttpInv'
<1>1. CASE WriteFails(r)
  <2>1. /\ Discard(r) /\ pc[r] = "write" /\ (link[held[r]].gone \/ upload[r] # "none")
        /\ upload' = [upload EXCEPT ![r] = AfterWrite(@)]
        /\ UNCHANGED <<maxIdle, next, idle, old, expired, dest, got, sent, faulty>>
    BY <1>1 DEF WriteFails, poolVars
  <2> QED BY <2>1, DiscardHttp
<1>2. CASE ReadFails(r)
  <2>1. /\ Discard(r) /\ pc[r] = "read"
        /\ faulty' = IF reused[r] THEN faulty ELSE faulty \cup {r}
        /\ UNCHANGED <<maxIdle, next, idle, old, expired, dest, upload, got, sent>>
    BY <1>2 DEF ReadFails, poolVars
  <2> QED BY <2>1, DiscardHttp
<1> QED BY <1>1, <1>2

LEMMA EmptyIs ==
    ASSUME NEW S, NEW s \in Seq(S), Len(s) = 0
    PROVE  s = <<>>
OBVIOUS

LEMMA OneElement ==
    ASSUME NEW S, NEW s \in Seq(S), Len(s) = 1
    PROVE  Head(s) = s[1] /\ Tail(s) = <<>>
<1>1. s # <<>>
  OBVIOUS
<1>2. Tail(s) \in Seq(S) /\ Len(Tail(s)) = 0
  BY <1>1
<1>3. Tail(s) = <<>>
  BY <1>2, EmptyIs
<1> QED BY <1>1, <1>3

(* A response that is read is the one to the request, unless an interim      *)
(* response came before it.                                                  *)
LEMMA ReadHttp ==
    ASSUME HttpInv, NEW r \in Requests, Read(r)
    PROVE  HttpInv'
<1> USE DEF HttpInv
<1> DEFINE k == held[r]  l == link[k]
           resp == IF l.rest # Nothing THEN [NoResponse EXCEPT !.of = l.rest] ELSE Head(l.wire)
           w == IF l.rest # Nothing THEN l.wire ELSE Tail(l.wire)
           o == IF resp.body THEN resp.of ELSE Nothing
           m == [l EXCEPT !.wire = w, !.rest = o]
<1>1. /\ pc[r] = "read" /\ pc' = [pc EXCEPT ![r] = "body"]
      /\ (l.rest # Nothing \/ l.wire # <<>>)
      /\ got' = [got EXCEPT ![r] = resp] /\ link' = [link EXCEPT ![k] = m]
      /\ UNCHANGED <<maxIdle, next, idle, old, expired, dest, held, reused, upload, sent, faulty>>
  BY DEF Read, poolVars
<1>2. /\ k \in Conns /\ l # Nothing /\ l \in Link /\ \A q \in Requests \ {r} : held[q] # k
  BY <1>1, HeldIsOpen DEF Holding
<1>3. resp \in Response /\ w \in Seq(Response)
  <2>1. /\ l.wire \in Seq(Response) /\ l.rest \in Requests \cup {Stale, Nothing}
    BY <1>2 DEF Link
  <2>2. [NoResponse EXCEPT !.of = l.rest] \in Response
    BY <2>1 DEF NoResponse, Response
  <2> HIDE DEF l
  <2> QED BY <1>1, <2>1, <2>2
<1>4. m \in Link /\ m # Nothing /\ m.gone = l.gone /\ m.interim = l.interim
  <2>1. o \in Requests \cup {Stale, Nothing}
    BY <1>3 DEF Response
  <2> HIDE DEF l, w, o
  <2>2. m \in Link /\ m.gone = l.gone /\ m.interim = l.interim
    BY <1>2, <1>3, <2>1 DEF Link
  <2> QED BY <2>2, HttpAssumptions
<1>5. ~l.interim => Silent(m) /\ m.rest \in {Nothing, r} /\ resp.of = r
  <2> SUFFICES ASSUME ~l.interim
               PROVE  Silent(m) /\ m.rest \in {Nothing, r} /\ resp.of = r
    OBVIOUS
  <2>1. Carries(k, l)
    BY <1>2 DEF NothingIsLeft
  <2>2. l.rest = Nothing /\ l.inbox = <<>> /\ Len(l.wire) = 1 /\ l.wire[1].of = r
    BY <1>1, <2>1 DEF Carries, Silent
  <2>3. l.wire \in Seq(Response)
    BY <1>2 DEF Link
  <2> HIDE DEF l
  <2>4. Head(l.wire) = l.wire[1] /\ Tail(l.wire) = <<>>
    BY <2>2, <2>3, OneElement
  <2>5. resp.of = r /\ w = <<>>
    BY <2>2, <2>4
  <2> HIDE DEF w, resp
  <2>6. m.wire = w /\ m.inbox = l.inbox /\ m.rest = o
    BY <1>2 DEF Link
  <2> QED BY <2>2, <2>5, <2>6 DEF Silent
<1> HIDE DEF k, l, m, resp, w, o
<1>6. /\ pc'[r] = "body" /\ link'[k] = m /\ got'[r] = resp
      /\ \A q \in Requests \ {r} : pc'[q] = pc[q] /\ got'[q] = got[q]
      /\ \A c \in Conns \ {k} : link'[c] = link[c]
  BY <1>1, <1>2 DEF TypeOK
<1>7. TypeOK'
  BY <1>1, <1>3, <1>4 DEF TypeOK
<1>8. PoolOK' /\ Owners'
  BY <1>1, <1>2, <1>4, <1>6, SameOwners DEF l
<1>9. RequestState' /\ UnreadIsUnsent' /\ UploadedOnce' /\ StaleIsNotBlamed'
  BY <1>1, <1>6 DEF RequestState, Holding, UnreadIsUnsent, UploadedOnce, StaleIsNotBlamed
<1>10. GoneIsFaulty'
  BY <1>1, <1>2, <1>4, <1>6 DEF GoneIsFaulty, TypeOK, k, l
<1>11. NothingIsLeft'
  <2> SUFFICES ASSUME NEW c \in Conns, link'[c] # Nothing, ~link'[c].interim
               PROVE  Carries(c, link[c])'
    BY DEF NothingIsLeft
  <2>1. CASE c = k
    BY <1>1, <1>2, <1>4, <1>5, <1>6, <2>1 DEF Carries, k
  <2>2. CASE c # k
    <3>1. held[r] # c /\ held'[r] # c /\ link'[c] = link[c] /\ Carries(c, link[c])
      BY <1>1, <1>6, <2>2 DEF NothingIsLeft, k
    <3> QED BY <1>1, <1>6, <3>1, Elsewhere
  <2> QED BY <2>1, <2>2
<1> QED BY <1>7, <1>8, <1>9, <1>10, <1>11
(* What CloseBody leaves of a connection that goes into the pool.            *)
LEMMA OrphanedIs ==
    ASSUME NEW r \in Requests, NEW l \in Link
    PROVE  LET m == Orphaned(Drained(l), r)
           IN  /\ m \in Link /\ m # Nothing /\ m.gone = l.gone /\ m.interim = l.interim
               /\ Silent(l) => Silent(m) /\ m.rest = Nothing
<1> DEFINE i == [n \in DOMAIN l.inbox |-> IF l.inbox[n] = r THEN Stale ELSE l.inbox[n]]
           w == [n \in DOMAIN l.wire |->
                    IF l.wire[n].of = r THEN [l.wire[n] EXCEPT !.of = Stale] ELSE l.wire[n]]
           m == Orphaned(Drained(l), r)
<1>1. l.inbox \in Seq(Requests \cup {Stale}) /\ l.wire \in Seq(Response) /\ r # Nothing
  BY HttpAssumptions DEF Link
<1>2. i \in Seq(Requests \cup {Stale})
  BY <1>1
<1>3. w \in Seq(Response)
  <2> DEFINE s == l.wire
  <2>1. s \in Seq(Response) /\ DOMAIN s = 1..Len(s) /\ Len(s) \in Nat
    BY <1>1
  <2>2. \A n \in DOMAIN s : s[n] \in Response /\ [s[n] EXCEPT !.of = Stale] \in Response
    <3>1. \A x \in Response : [x EXCEPT !.of = Stale] \in Response
      BY DEF Response
    <3> QED BY <2>1, <3>1
  <2> HIDE DEF s
  <2>3. [n \in DOMAIN s |-> IF s[n].of = r THEN [s[n] EXCEPT !.of = Stale] ELSE s[n]]
            \in Seq(Response)
    BY <2>1, <2>2
  <2> QED BY <2>3 DEF s
<1>4. Silent(l) => i = <<>> /\ w = <<>>
  <2> SUFFICES ASSUME Silent(l) PROVE i = <<>> /\ w = <<>>
    OBVIOUS
  <2>1. DOMAIN l.inbox = {} /\ DOMAIN l.wire = {}
    BY DEF Silent
  <2>2. i \in Seq(Requests \cup {Stale}) /\ DOMAIN i = {}
    BY <1>2, <2>1
  <2>3. w \in Seq(Response) /\ DOMAIN w = {}
    BY <1>3, <2>1
  <2> HIDE DEF i, w
  <2>4. Len(i) = 0 /\ Len(w) = 0
    BY <2>2, <2>3
  <2> QED BY <2>2, <2>3, <2>4
<1>5. /\ m \in Link /\ m.inbox = i /\ m.wire = w /\ m.rest = Nothing
      /\ m.gone = l.gone /\ m.interim = l.interim
  <2> DEFINE d == Drained(l)
  <2>1. /\ d \in Link /\ d.inbox = l.inbox /\ d.wire = l.wire /\ d.rest = Nothing
        /\ d.gone = l.gone /\ d.interim = l.interim
    BY DEF Drained, Link
  <2> HIDE DEF d
  <2>2. Orphaned(d, r) = [d EXCEPT !.inbox = i, !.wire = w, !.rest = Nothing]
    BY <1>1, <2>1 DEF Orphaned
  <2> HIDE DEF i, w
  <2>3. m = [d EXCEPT !.inbox = i, !.wire = w, !.rest = Nothing]
    BY <2>2 DEF d
  <2> HIDE DEF m
  <2>4. Nothing \in Requests \cup {Stale, Nothing}
    OBVIOUS
  <2> QED BY <1>2, <1>3, <2>1, <2>3, <2>4 DEF Link
<1> HIDE DEF i, w, m
<1>6. m # Nothing
  BY <1>5, HttpAssumptions
<1>7. Silent(l) => Silent(m) /\ m.rest = Nothing
  BY <1>4, <1>5 DEF Silent
<1> QED BY <1>5, <1>6, <1>7 DEF m

(* A connection goes back to the pool with nothing on it, or is closed.      *)
LEMMA CloseBodyHttp ==
    ASSUME HttpInv, NEW r \in Requests, NEW ok \in BOOLEAN, CloseBody(r, ok)
    PROVE  HttpInv'
<1> USE DEF HttpInv
<1> DEFINE k == held[r]  b == dest[r]
           kept == ok /\ ~got[r].close /\ HasRoom(b)
           m == Orphaned(Drained(link[k]), r)
<1>1. /\ pc[r] = "body" /\ pc' = [pc EXCEPT ![r] = "free"]
      /\ held' = [held EXCEPT ![r] = Nothing] /\ reused' = [reused EXCEPT ![r] = FALSE]
      /\ upload' = [upload EXCEPT ![r] = "none"] /\ got' = [got EXCEPT ![r] = NoResponse]
      /\ sent' = [sent EXCEPT ![r] = 0] /\ faulty' = faulty \ {r}
      /\ UNCHANGED <<maxIdle, next, old, expired, dest>>
  BY DEF CloseBody, Finish
<1>2. /\ idle' = IF kept THEN [idle EXCEPT ![b] = Append(@, k)] ELSE idle
      /\ link' = [link EXCEPT ![k] = IF kept THEN m ELSE Nothing]
  BY DEF CloseBody
<1>3. Holding(r) /\ b \in Address
  BY <1>1 DEF Holding, TypeOK
<1>4. /\ k \in Conns /\ link[k] # Nothing /\ link[k] \in Link /\ ~Pooled(k) /\ k \notin expired
      /\ \A q \in Requests \ {r} : held[q] # k
  BY <1>3, HeldIsOpen
<1>5. /\ m \in Link /\ m # Nothing /\ m.gone = link[k].gone /\ m.interim = link[k].interim
      /\ Silent(link[k]) => Silent(m) /\ m.rest = Nothing
  BY <1>4, OrphanedIs
<1> HIDE DEF k, b, kept, m
<1>6. /\ pc'[r] = "free" /\ ~reused'[r] /\ upload'[r] = "none" /\ sent'[r] = 0
      /\ held'[r] = Nothing
      /\ \A q \in Requests \ {r} :
            /\ pc'[q] = pc[q] /\ got'[q] = got[q] /\ reused'[q] = reused[q]
            /\ held'[q] = held[q] /\ upload'[q] = upload[q] /\ sent'[q] = sent[q]
            /\ (q \in faulty => q \in faulty')
  BY <1>1 DEF TypeOK
<1>7. RequestState' /\ UnreadIsUnsent' /\ UploadedOnce' /\ StaleIsNotBlamed'
  BY <1>6 DEF RequestState, Holding, UnreadIsUnsent, UploadedOnce, StaleIsNotBlamed
<1>8. /\ link' \in [Conns -> Link \cup {Nothing}] /\ held' \in [Requests -> Conns \cup {Nothing}]
      /\ PoolOK' /\ Owners' /\ GoneIsFaulty' /\ NothingIsLeft'
  <2>1. CASE ~kept
    <3>1. link' = [link EXCEPT ![held[r]] = Nothing] /\ idle' = idle
      BY <1>2, <2>1 DEF k
    <3> QED BY <1>1, <1>3, <1>6, <3>1, Closed
  <2>2. CASE kept
    <3>1. link' = [link EXCEPT ![k] = m] /\ idle' = [idle EXCEPT ![b] = Append(@, k)]
      BY <1>2, <2>2
    <3>2. PoolOK' /\ \A c : Pooled(c)' <=> Pooled(c) \/ c = k
      BY <1>1, <1>3, <1>4, <2>2, <3>1, PutPool DEF kept
    <3>3. /\ link' \in [Conns -> Link \cup {Nothing}] /\ link'[k] = m
          /\ \A c \in Conns \ {k} : link'[c] = link[c]
      BY <1>4, <1>5, <3>1 DEF TypeOK
    <3>4. held' \in [Requests -> Conns \cup {Nothing}]
      BY <1>1 DEF TypeOK
    <3>5. Nothing \notin Conns /\ ~Pooled(Nothing) /\ Nothing \notin expired /\ k # Nothing
      BY <1>4, HttpAssumptions, PooledAt DEF PoolOK, TypeOK
    <3>6. Owners'
      <4>1. \A c \in Conns : link'[c] # Nothing
                <=> Pooled(c)' \/ c \in expired' \/ \E q \in Requests : held'[q] = c
        BY <1>1, <1>5, <1>6, <3>2, <3>3, <3>5 DEF Owners, k
      <4>2. \A q \in Requests : ~Pooled(held[q])' /\ held'[q] \notin expired'
        BY <1>1, <1>4, <1>6, <3>2, <3>5 DEF Owners
      <4>3. \A p, q \in Requests : held'[p] = held'[q] /\ held'[p] # Nothing => p = q
        BY <1>6 DEF Owners
      <4> QED BY <1>1, <1>4, <3>2, <4>1, <4>2, <4>3 DEF Owners
    <3>7. GoneIsFaulty'
      <4> SUFFICES ASSUME NEW q \in Requests, held'[q] # Nothing, ~reused'[q],
                          link'[held'[q]].gone
                   PROVE  q \in faulty'
        BY DEF GoneIsFaulty
      <4>1. q # r /\ held'[q] = held[q] /\ held[q] \in Conns \ {k}
        BY <1>4, <1>6 DEF TypeOK
      <4> QED BY <1>6, <3>3, <4>1 DEF GoneIsFaulty
    <3>8. NothingIsLeft'
      <4> SUFFICES ASSUME NEW c \in Conns, link'[c] # Nothing, ~link'[c].interim
                   PROVE  Carries(c, link[c])'
        BY DEF NothingIsLeft
      <4>1. CASE c = k
        <5>1. Silent(link[k])
          BY <1>1, <1>4, <1>5, <3>3, <4>1 DEF NothingIsLeft, Carries, k
        <5>2. \A q \in Requests : held'[q] # k
          BY <1>4, <1>6, <3>5
        <5> QED BY <1>5, <3>3, <4>1, <5>1, <5>2 DEF Carries
      <4>2. CASE c # k
        <5>1. held[r] # c /\ held'[r] # c /\ link'[c] = link[c] /\ Carries(c, link[c])
          BY <1>6, <3>3, <3>5, <4>2 DEF NothingIsLeft, k
        <5> QED BY <1>6, <5>1, Elsewhere
      <4> QED BY <4>1, <4>2
    <3> QED BY <3>2, <3>3, <3>4, <3>6, <3>7, <3>8
  <2> QED BY <2>1, <2>2
<1>9. TypeOK'
  <2>1. NoResponse \in Response
    BY DEF NoResponse, Response
  <2> QED BY <1>1, <1>8, <2>1 DEF TypeOK, PoolOK
<1> QED BY <1>7, <1>8, <1>9
-----------------------------------------------------------------------------
(* The cleaner and the backends.                                             *)

(* The parts of the invariant that are about the requests alone.             *)
LEMMA SameRequests ==
    ASSUME HttpInv, UNCHANGED <<pc, held, reused, upload, sent>>, faulty \subseteq faulty'
    PROVE  RequestState' /\ UnreadIsUnsent' /\ UploadedOnce' /\ StaleIsNotBlamed'
BY DEF HttpInv, RequestState, Holding, UnreadIsUnsent, UploadedOnce, StaleIsNotBlamed

LEMMA ExpireHttp ==
    ASSUME HttpInv, NEW b \in Address, NEW i, Expire(b, i)
    PROVE  HttpInv'
<1> USE DEF HttpInv
<1>1. /\ i \in DOMAIN idle[b] /\ old' = old \cup {idle[b][i]}
      /\ UNCHANGED <<maxIdle, next, idle, expired, link, pc, dest, held, reused, upload, got, sent, faulty>>
  BY DEF Expire, requestVars
<1>2. idle[b][i] \in Conns
  BY <1>1 DEF TypeOK
<1>3. TypeOK'
  BY <1>1, <1>2 DEF TypeOK
<1>4. PoolOK' /\ Owners'
  BY <1>1, SameOwners
<1>5. GoneIsFaulty' /\ NothingIsLeft'
  BY <1>1 DEF GoneIsFaulty, NothingIsLeft, Carries
<1> QED BY <1>1, <1>3, <1>4, <1>5, SameRequests

(* cleanup moves connections from the pool to the cleaner.                   *)
LEMMA CleanupHttp ==
    ASSUME HttpInv, Cleanup
    PROVE  HttpInv'
<1> USE DEF HttpInv
<1>1. /\ expired = {} /\ old' = old \ expired'
      /\ UNCHANGED <<maxIdle, next, link, pc, dest, held, reused, upload, got, sent, faulty>>
  BY DEF Cleanup, requestVars
<1>2. /\ PoolOK' /\ expired' \subseteq Conns
      /\ \A c : Pooled(c)' <=> Pooled(c) /\ c \notin old
      /\ \A c : c \in expired' <=> Pooled(c) /\ c \in old
  BY CleanupPool
<1>3. TypeOK'
  BY <1>1, <1>2 DEF TypeOK, PoolOK
<1>4. Owners'
  <2>1. \A c \in Conns : link'[c] # Nothing
            <=> Pooled(c)' \/ c \in expired' \/ \E q \in Requests : held'[q] = c
    BY <1>1, <1>2 DEF Owners
  <2>2. \A q \in Requests : ~Pooled(held[q])' /\ held'[q] \notin expired'
    BY <1>1, <1>2 DEF Owners
  <2>3. \A c \in expired' : ~Pooled(c)'
    BY <1>2
  <2>4. \A p, q \in Requests : held'[p] = held'[q] /\ held'[p] # Nothing => p = q
    BY <1>1 DEF Owners
  <2> QED BY <2>1, <2>2, <2>3, <2>4 DEF Owners
<1>5. GoneIsFaulty' /\ NothingIsLeft'
  BY <1>1 DEF GoneIsFaulty, NothingIsLeft, Carries
<1> QED BY <1>1, <1>2, <1>3, <1>4, <1>5, SameRequests

(* The cleaner closes what only it has.                                      *)
LEMMA CloseExpiredHttp ==
    ASSUME HttpInv, NEW k \in Conns, CloseExpired(k)
    PROVE  HttpInv'
<1> USE DEF HttpInv
<1>1. /\ k \in expired /\ expired' = expired \ {k} /\ link' = [link EXCEPT ![k] = Nothing]
      /\ UNCHANGED <<maxIdle, next, idle, old, pc, dest, held, reused, upload, got, sent, faulty>>
  BY DEF CloseExpired, requestVars
<1>2. /\ link' \in [Conns -> Link \cup {Nothing}] /\ link'[k] = Nothing
      /\ \A c \in Conns \ {k} : link'[c] = link[c]
  BY <1>1 DEF TypeOK
<1>3. ~Pooled(k) /\ \A q \in Requests : held[q] # k
  BY <1>1 DEF Owners
<1>4. PoolOK' /\ \A c : Pooled(c)' <=> Pooled(c)
  BY <1>1 DEF PoolOK, Distinct, Pooled
<1>5. TypeOK'
  BY <1>1, <1>2 DEF TypeOK
<1>6. Owners'
  <2>1. \A c \in Conns : link'[c] # Nothing
            <=> Pooled(c)' \/ c \in expired' \/ \E q \in Requests : held'[q] = c
    BY <1>1, <1>2, <1>3, <1>4 DEF Owners
  <2> QED BY <1>1, <1>4, <2>1 DEF Owners
<1>7. GoneIsFaulty'
  BY <1>1, <1>2, <1>3 DEF GoneIsFaulty, TypeOK
<1>8. NothingIsLeft'
  BY <1>1, <1>2 DEF NothingIsLeft, Carries
<1> QED BY <1>1, <1>4, <1>5, <1>6, <1>7, <1>8, SameRequests

(* A backend acts on one open connection.                                    *)
LEMMA BackendHttp ==
    ASSUME HttpInv, NEW k \in Conns, link[k] # Nothing, NEW m \in Link,
           link' = [link EXCEPT ![k] = m],
           UNCHANGED <<maxIdle, next, idle, old, expired, pc, dest, held, reused, upload, got, sent>>,
           faulty \subseteq faulty', faulty' \subseteq Requests,
           m.gone => link[k].gone
                       \/ \A r \in Requests : held[r] = k /\ ~reused[r] => r \in faulty',
           ~m.interim => ~link[k].interim /\ (Carries(k, link[k]) => Carries(k, m))
    PROVE  HttpInv'
<1> USE DEF HttpInv
<1>1. m # Nothing
  BY HttpAssumptions
<1>2. /\ link' \in [Conns -> Link \cup {Nothing}] /\ link'[k] = m
      /\ \A c \in Conns \ {k} : link'[c] = link[c]
  BY DEF TypeOK
<1>3. TypeOK'
  BY <1>2 DEF TypeOK
<1>4. PoolOK' /\ Owners'
  BY <1>1, <1>2, SameOwners
<1>5. GoneIsFaulty'
  <2> SUFFICES ASSUME NEW r \in Requests, held[r] # Nothing, ~reused[r], link'[held[r]].gone
               PROVE  r \in faulty'
    BY DEF GoneIsFaulty
  <2>1. held[r] \in Conns
    BY DEF TypeOK
  <2>2. CASE held[r] = k
    BY <1>2, <2>2 DEF GoneIsFaulty
  <2>3. CASE held[r] # k
    BY <1>2, <2>1, <2>3 DEF GoneIsFaulty
  <2> QED BY <2>2, <2>3
<1>6. NothingIsLeft'
  <2> SUFFICES ASSUME NEW c \in Conns, link'[c] # Nothing, ~link'[c].interim
               PROVE  Carries(c, link'[c])
    BY DEF NothingIsLeft, Carries
  <2>1. CASE c = k
    BY <1>2, <2>1 DEF NothingIsLeft
  <2>2. CASE c # k
    BY <1>2, <2>2 DEF NothingIsLeft
  <2> QED BY <2>1, <2>2
<1> QED BY <1>3, <1>4, <1>5, <1>6, SameRequests

(* On a connection without interim responses, a request that the backend has *)
(* not answered is that of the holder, who is waiting.                       *)
LEMMA AwaitedIs ==
    ASSUME HttpInv, NEW k \in Conns, NEW l, Carries(k, l), l.inbox # <<>>
    PROVE  \E r \in Requests :
              /\ held[r] = k /\ pc[r] = "read" /\ l.rest = Nothing
              /\ l.inbox = <<r>> /\ l.wire = <<>>
              /\ \A q \in Requests : held[q] = k => q = r
<1> USE DEF HttpInv
<1>1. PICK r \in Requests : held[r] = k /\ pc[r] # "write"
  BY DEF Carries, Silent
<1>2. Holding(r)
  BY <1>1, HttpAssumptions DEF RequestState
<1>3. pc[r] = "read"
  BY <1>1, <1>2 DEF Holding, Carries, Silent
<1>4. l.rest = Nothing /\ l.inbox = <<r>> /\ l.wire = <<>>
  BY <1>1, <1>3 DEF Carries, Silent
<1>5. \A q \in Requests : held[q] = k => q = r
  BY <1>1, HttpAssumptions DEF Owners
<1> QED BY <1>1, <1>3, <1>4, <1>5

LEMMA AnswerHttp ==
    ASSUME HttpInv, NEW k \in Conns, NEW shape \in Shapes, Answer(k, shape)
    PROVE  HttpInv'
<1> DEFINE l == link[k]
           resp == [of |-> Head(l.inbox), body |-> shape.body, close |-> shape.close]
           w == Append(l.wire, resp)
           i == Tail(l.inbox)
           m == [l EXCEPT !.wire = w, !.inbox = i]
<1>1. /\ link[k] # Nothing /\ ~link[k].gone /\ l.inbox # <<>>
      /\ link' = [link EXCEPT ![k] = m]
      /\ UNCHANGED <<maxIdle, next, idle, old, expired, pc, dest, held, reused, upload, got, sent, faulty>>
  BY DEF Answer, Reachable, poolVars, requestVars
<1>2. l \in Link /\ l.inbox \in Seq(Requests \cup {Stale}) /\ l.wire \in Seq(Response)
  BY <1>1 DEF HttpInv, TypeOK, Link
<1> HIDE DEF l
<1>3. Head(l.inbox) \in Requests \cup {Stale} /\ i \in Seq(Requests \cup {Stale})
  BY <1>1, <1>2
<1>4. shape.body \in BOOLEAN /\ shape.close \in BOOLEAN
  BY HttpAssumptions
<1>5. resp \in Response
  BY <1>3, <1>4 DEF Response
<1> HIDE DEF resp
<1>6. w \in Seq(Response)
  BY <1>2, <1>5
<1> HIDE DEF w, i
<1>7. /\ m \in Link /\ m.inbox = i /\ m.wire = w /\ m.rest = l.rest
      /\ m.gone = l.gone /\ m.interim = l.interim
  BY <1>2, <1>3, <1>6 DEF Link
<1> HIDE DEF m
<1>8. Carries(k, l) => Carries(k, m)
  <2> SUFFICES ASSUME Carries(k, l) PROVE Carries(k, m)
    OBVIOUS
  <2>1. PICK r \in Requests :
          /\ held[r] = k /\ pc[r] = "read" /\ l.rest = Nothing
          /\ l.inbox = <<r>> /\ l.wire = <<>>
          /\ \A q \in Requests : held[q] = k => q = r
    BY <1>1, AwaitedIs
  <2>2. i = <<>>
    <3>1. Len(l.inbox) = 1
      BY <2>1
    <3> QED BY <1>2, <3>1, OneElement DEF i
  <2>3. resp.of = r
    BY <2>1 DEF resp
  <2>4. Len(w) = 1 /\ w[1] = resp
    BY <2>1 DEF w
  <2> QED BY <1>7, <2>1, <2>2, <2>3, <2>4 DEF Carries
<1>9. faulty' \subseteq Requests
  BY <1>1 DEF HttpInv, TypeOK
<1> QED BY <1>1, <1>7, <1>8, <1>9, BackendHttp DEF l

LEMMA InterimHttp ==
    ASSUME HttpInv, NEW k \in Conns, Interim(k)
    PROVE  HttpInv'
<1> DEFINE l == link[k]
           resp == [NoResponse EXCEPT !.of = Head(l.inbox)]
           w == Append(l.wire, resp)
           m == [l EXCEPT !.wire = w, !.interim = TRUE]
<1>1. /\ link[k] # Nothing /\ ~link[k].gone /\ l.inbox # <<>>
      /\ link' = [link EXCEPT ![k] = m]
      /\ UNCHANGED <<maxIdle, next, idle, old, expired, pc, dest, held, reused, upload, got, sent, faulty>>
  BY DEF Interim, Reachable, poolVars, requestVars
<1>2. l \in Link /\ l.inbox \in Seq(Requests \cup {Stale}) /\ l.wire \in Seq(Response)
  BY <1>1 DEF HttpInv, TypeOK, Link
<1> HIDE DEF l
<1>3. Head(l.inbox) \in Requests \cup {Stale}
  BY <1>1, <1>2
<1>4. resp \in Response
  BY <1>3 DEF Response, NoResponse
<1> HIDE DEF resp
<1>5. w \in Seq(Response)
  BY <1>2, <1>4
<1> HIDE DEF w
<1>6. m \in Link /\ m.gone = l.gone /\ m.interim
  BY <1>2, <1>5 DEF Link
<1> HIDE DEF m
<1>7. faulty' \subseteq Requests
  BY <1>1 DEF HttpInv, TypeOK
<1> QED BY <1>1, <1>6, <1>7, BackendHttp DEF l

(* A backend that closes a connection forgets what it has not answered. The  *)
(* fault is its own where the connection is a new one.                       *)
LEMMA HangupHttp ==
    ASSUME HttpInv, NEW k \in Conns, Hangup(k)
    PROVE  HttpInv'
<1> DEFINE l == link[k]
           none == <<>>
           m == [l EXCEPT !.gone = TRUE, !.inbox = none]
<1>1. /\ link[k] # Nothing /\ link' = [link EXCEPT ![k] = m]
      /\ faulty' = faulty \cup {r \in Requests : held[r] = k /\ ~reused[r]}
      /\ UNCHANGED <<maxIdle, next, idle, old, expired, pc, dest, held, reused, upload, got, sent>>
  BY DEF Hangup, Reachable, poolVars
<1>2. l \in Link
  BY <1>1 DEF HttpInv, TypeOK
<1> HIDE DEF l
<1>3. /\ m \in Link /\ m.inbox = <<>> /\ m.wire = l.wire /\ m.rest = l.rest
      /\ m.interim = l.interim
  <2>1. none \in Seq(Requests \cup {Stale})
    OBVIOUS
  <2> HIDE DEF none
  <2>2. /\ m \in Link /\ m.inbox = none /\ m.wire = l.wire /\ m.rest = l.rest
        /\ m.interim = l.interim
    BY <1>2, <2>1 DEF Link
  <2> QED BY <2>2 DEF none
<1> HIDE DEF m
<1>4. Carries(k, l) => Carries(k, m)
  BY <1>3 DEF Carries, Silent
<1>5. faulty' \subseteq Requests /\ \A r \in Requests : held[r] = k /\ ~reused[r] => r \in faulty'
  BY <1>1 DEF HttpInv, TypeOK
<1> QED BY <1>1, <1>3, <1>4, <1>5, BackendHttp DEF l
-----------------------------------------------------------------------------
(* The theorems.                                                             *)

LEMMA NextHttp == HttpInv /\ [Next]_vars => HttpInv'
<1> SUFFICES ASSUME HttpInv, [Next]_vars PROVE HttpInv'
  OBVIOUS
<1>1. CASE \E r \in Requests :
              Serve(r) \/ DialFails(r) \/ \E u \in {"none", "unread"} : Arrive(r, u)
  <2>1. PICK r \in Requests :
          Serve(r) \/ DialFails(r) \/ \E u \in {"none", "unread"} : Arrive(r, u)
    BY <1>1
  <2>2. CASE Serve(r)
    BY <2>2, GetHttp, DialHttp, WriteHttp, FailureHttp, ReadHttp, CloseBodyHttp, BadGatewayHttp
       DEF Serve
  <2>3. CASE DialFails(r)
    BY <2>3, DialFailsHttp
  <2>4. CASE \E u \in {"none", "unread"} : Arrive(r, u)
    BY <2>4, ArriveHttp
  <2> QED BY <2>1, <2>2, <2>3, <2>4
<1>2. CASE Cleaner
  BY <1>2, CleanupHttp, CloseExpiredHttp DEF Cleaner
<1>3. CASE IdleTime
  BY <1>3, ExpireHttp DEF IdleTime
<1>4. CASE \E c \in Conns : Respond(c) \/ Interim(c) \/ Hangup(c)
  BY <1>4, AnswerHttp, InterimHttp, HangupHttp DEF Respond
<1>5. CASE UNCHANGED vars
  <2>1. UNCHANGED <<maxIdle, next, idle, old, expired, link, pc, dest, held, reused, upload, got, sent,
                    faulty>>
    BY <1>5 DEF vars, poolVars, requestVars
  <2>2. TypeOK'
    BY <2>1 DEF HttpInv, TypeOK
  <2>3. PoolOK' /\ Owners'
    BY <2>1, SameOwners DEF HttpInv
  <2>4. GoneIsFaulty' /\ NothingIsLeft'
    BY <2>1 DEF HttpInv, GoneIsFaulty, NothingIsLeft, Carries
  <2> QED BY <2>1, <2>2, <2>3, <2>4, SameRequests DEF HttpInv
<1> QED BY <1>1, <1>2, <1>3, <1>4, <1>5 DEF Next

(* The inductive invariant: whatever the requests, the cleaner and the       *)
(* backends do, in whatever order.                                           *)
THEOREM HttpInvariant == Spec => []HttpInv
BY InitHttp, NextHttp, PTL DEF Spec

(* The state keeps its shape, and no backend has more than max_idle idle     *)
(* connections (put), for any max_idle.                                      *)
THEOREM HttpTypeCorrect == Spec => []TypeOK
<1>1. HttpInv => TypeOK
  BY DEF HttpInv
<1> QED BY <1>1, HttpInvariant, PTL

(* Every open connection has exactly one owner: a request, one place in the  *)
(* pool, or the cleaner (get, put, discard, cleanup, RoundTrip,              *)
(* connBody.Close).                                                          *)
THEOREM ConnectionsHaveOneOwner == Spec => []OneOwner
<1>1. HttpInv => OneOwner
  BY OneOwnerIs DEF HttpInv, PoolOK
<1> QED BY <1>1, HttpInvariant, PTL

(* RoundTrip returns the response to its own request, on however often       *)
(* reused a connection, unless a backend sent an interim response on it      *)
(* (roundTripConn, connBody.Close).                                          *)
THEOREM ResponsesAreOwn == Spec => []ResponseIsOwn
<1>1. HttpInv => ResponseIsOwn
  <2> SUFFICES ASSUME HttpInv, NEW r \in Requests, pc[r] = "body", ~link[held[r]].interim
               PROVE  got[r].of = r
    BY DEF ResponseIsOwn
  <2>1. held[r] \in Conns /\ link[held[r]] # Nothing
    BY HeldIsOpen DEF Holding
  <2> QED BY <2>1 DEF HttpInv, NothingIsLeft, Carries
<1> QED BY <1>1, HttpInvariant, PTL

(* The retry hides every stale connection: a request without a body is only  *)
(* answered 502 when the backend refused or dropped a new connection         *)
(* (RoundTrip).                                                              *)
THEOREM StaleConnectionsAreNotBlamed == Spec => []StaleIsNotBlamed
<1>1. HttpInv => StaleIsNotBlamed
  BY DEF HttpInv
<1> QED BY <1>1, HttpInvariant, PTL

(* The retry sends no body a second time (RoundTrip, roundTripConn).         *)
THEOREM BodiesAreSentOnce == Spec => []UploadedOnce
<1>1. HttpInv => UploadedOnce
  BY DEF HttpInv
<1> QED BY <1>1, HttpInvariant, PTL
=============================================================================
