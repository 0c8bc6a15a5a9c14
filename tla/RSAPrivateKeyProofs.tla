------------------------ MODULE RSAPrivateKeyProofs -------------------------
(***************************************************************************)
(* Proofs about RSAPrivateKey, for any number of threads and forks.        *)
(*                                                                         *)
(* KeyInv has three parts.  Structure: the array names distinct blindings, *)
(* a thread that holds one has reserved its place or holds one outside the *)
(* array, what is reserved is held, and nothing else is allocated.         *)
(* Factors: blindings come from distinct draws, and since the cache was    *)
(* last wiped every factor that hid an input is behind the blinding it     *)
(* came from.  After a fork that is not so until the cache is wiped, but   *)
(* then no thread holds a blinding.  Derivation: who is past               *)
(* freeze_private_key finds all that it derives.                           *)
(***************************************************************************)
EXTENDS RSAPrivateKey, TLAPS

Pcs      == {"idle", "freeze", "get", "convert", "invert", "release"}
Blinding == [counter : 0 .. (BN_BLINDING_COUNTER - 1), draw : Nat, squared : Nat,
             inverse : BOOLEAN]
Calls    == [pc : Pcs, blinding : BlindingIds \cup {NoBlinding}, index : Nat]

Typed ==
    /\ frozen \in BOOLEAN /\ derived \in 0 .. Steps
    /\ blindings \in Seq(BlindingIds) /\ inuse \in Seq(BOOLEAN)
    /\ Len(inuse) = Len(blindings) /\ Len(blindings) <= MAX_BLINDINGS_PER_RSA
    /\ blinding_fork_generation \in Nat /\ generation \in Nat
    /\ blinding_fork_generation <= generation
    /\ draws \in Nat /\ used \in SUBSET [draw : Nat, squared : Nat]
    /\ DOMAIN objects \subseteq BlindingIds
    /\ objects \in [DOMAIN objects -> Blinding]
    /\ call \in [Users -> Calls]

Holding(c) == c.pc \in {"convert", "invert", "release"}
In(a, b)   == \E i \in 1 .. Len(a) : a[i] = b

Array(a, D) ==
    /\ \A i \in 1 .. Len(a) : a[i] \in D
    /\ \A i, j \in 1 .. Len(a) : a[i] = a[j] => i = j

\* Call c and the blinding it holds, with the array a and its reservations r.
Held(c, a, r, D) ==
    /\ c.pc = "idle" => c = Idle
    /\ ~Holding(c) => c.blinding = NoBlinding
    /\ Holding(c) =>
         /\ c.blinding \in D
         /\ \/ /\ c.index \in 1 .. Len(a) /\ a[c.index] = c.blinding
               /\ r[c.index] = TRUE
            \/ /\ c.index = MAX_BLINDINGS_PER_RSA + 1 /\ ~In(a, c.blinding)

Apart(cs) ==
    \A t, u \in Users :
        Holding(cs[t]) /\ Holding(cs[u]) /\ cs[t].blinding = cs[u].blinding => t = u

Owned(cs, r) ==
    \A i \in 1 .. Len(r) :
        r[i] = TRUE => \E t \in Users : Holding(cs[t]) /\ cs[t].index = i

Reachable(cs, a, D) ==
    \A b \in D : \/ In(a, b)
                 \/ \E t \in Users : Holding(cs[t]) /\ cs[t].blinding = b

Structure(cs, a, r, D) ==
    /\ Array(a, D) /\ \A t \in Users : Held(cs[t], a, r, D)
    /\ Apart(cs) /\ Owned(cs, r) /\ Reachable(cs, a, D)

\* The blindings h after d draws.
Drawn(h, d) ==
    /\ \A b \in DOMAIN h :
         /\ h[b].draw <= d
         /\ h[b].counter # BN_BLINDING_COUNTER - 1 =>
              h[b].inverse = TRUE /\ h[b].draw # 0
    /\ \A b, c \in DOMAIN h : h[b].draw = h[c].draw => b = c \/ h[b].draw = 0

\* The factors us that hid an input are behind the blindings they came from.
Behind(h, us) ==
    \A b \in DOMAIN h, f \in us : f.draw = h[b].draw => f.squared <= h[b].squared

Inverses(cs, h) ==
    \A t \in Users : cs[t].pc = "invert" => h[cs[t].blinding].inverse = TRUE

Derivation ==
    /\ frozen = TRUE => derived = Steps
    /\ \A t \in Users : call[t].pc \notin {"idle", "freeze"} => derived = Steps

KeyInv ==
    /\ Typed /\ Structure(call, blindings, inuse, DOMAIN objects)
    /\ Drawn(objects, draws) /\ \A f \in used : f.draw \in 1 .. draws
    /\ blinding_fork_generation = generation => Behind(objects, used)
    /\ blinding_fork_generation # generation => \A t \in Users : ~Holding(call[t])
    /\ relinked = FALSE /\ Inverses(call, objects) /\ Derivation

-----------------------------------------------------------------------------
(* Structure.                                                              *)

\* Steps between which a thread keeps what it holds.
SameHold(cs, ds) ==
    \A t \in Users :
        /\ Holding(ds[t]) = Holding(cs[t]) /\ ds[t].blinding = cs[t].blinding
        /\ ds[t].index = cs[t].index \/ ~Holding(cs[t])
        /\ ds[t].pc = "idle" => ds[t] = Idle

LEMMA KeepStructure ==
    ASSUME NEW cs, NEW ds, NEW a, NEW r, NEW D,
           Structure(cs, a, r, D), SameHold(cs, ds)
    PROVE  Structure(ds, a, r, D)
<1>1. ASSUME NEW t \in Users PROVE Held(ds[t], a, r, D)
  <2>1. Held(cs[t], a, r, D)
    BY DEF Structure
  <2>2. /\ Holding(ds[t]) = Holding(cs[t]) /\ ds[t].blinding = cs[t].blinding
        /\ ds[t].index = cs[t].index \/ ~Holding(cs[t])
        /\ ds[t].pc = "idle" => ds[t] = Idle
    BY DEF SameHold
  <2>3. CASE Holding(cs[t])
    BY <2>1, <2>2, <2>3 DEF Held
  <2>4. CASE ~Holding(cs[t])
    BY <2>1, <2>2, <2>4 DEF Held
  <2> QED
    BY <2>3, <2>4
<1>2. Apart(ds)
  BY DEF Structure, SameHold, Apart
<1>3. Owned(ds, r)
  <2> SUFFICES ASSUME NEW i \in 1 .. Len(r), r[i] = TRUE
               PROVE  \E t \in Users : Holding(ds[t]) /\ ds[t].index = i
    BY DEF Owned
  <2>1. PICK t \in Users : Holding(cs[t]) /\ cs[t].index = i
    BY DEF Structure, Owned
  <2> QED
    BY <2>1 DEF SameHold
<1>4. Reachable(ds, a, D)
  BY DEF Structure, SameHold, Reachable
<1> QED
  BY <1>1, <1>2, <1>3, <1>4 DEF Structure

\* A thread reserves a place of the array that is free.
LEMMA ReserveStructure ==
    ASSUME NEW cs, NEW ds, NEW a \in Seq(BlindingIds), NEW r \in Seq(BOOLEAN),
           NEW D, Structure(cs, a, r, D), Len(r) = Len(a),
           NEW t \in Users, ~Holding(cs[t]), NEW i \in 1 .. Len(a), r[i] = FALSE,
           ds[t] = [pc |-> "convert", blinding |-> a[i], index |-> i],
           \A u \in Users : u # t => ds[u] = cs[u]
    PROVE  Structure(ds, a, [r EXCEPT ![i] = TRUE], D)
<1> DEFINE q == [r EXCEPT ![i] = TRUE]
<1>1. /\ q[i] = TRUE /\ Len(q) = Len(r) /\ i \in 1 .. Len(r)
      /\ \A j \in 1 .. Len(r) : j # i => q[j] = r[j]
      /\ \A j \in 1 .. Len(r) : r[j] = TRUE => q[j] = TRUE
  OBVIOUS
<1>2. /\ Holding(ds[t]) /\ ds[t].blinding = a[i] /\ ds[t].index = i
      /\ ds[t].pc = "convert"
  BY DEF Holding
<1> HIDE DEF q
<1>3. ASSUME NEW u \in Users PROVE Held(ds[u], a, q, D)
  <2>1. CASE u = t
    BY <1>1, <1>2, <2>1 DEF Structure, Array, Held
  <2>2. CASE u # t
    <3>1. Held(cs[u], a, r, D) /\ ds[u] = cs[u]
      BY <2>2 DEF Structure
    <3> QED
      BY <1>1, <3>1 DEF Held
  <2> QED
    BY <2>1, <2>2
<1>4. ASSUME NEW u \in Users, u # t, Holding(cs[u]) PROVE cs[u].blinding # a[i]
  <2>1. Held(cs[u], a, r, D)
    BY DEF Structure
  <2>2. CASE /\ cs[u].index \in 1 .. Len(a) /\ a[cs[u].index] = cs[u].blinding
             /\ r[cs[u].index] = TRUE
    BY <2>2 DEF Structure, Array
  <2>3. CASE ~In(a, cs[u].blinding)
    BY <2>3 DEF In
  <2> QED
    BY <1>4, <2>1, <2>2, <2>3 DEF Held
<1>5. Apart(ds)
  BY <1>2, <1>4 DEF Structure, Apart
<1>6. Owned(ds, q)
  <2> SUFFICES ASSUME NEW j \in 1 .. Len(r), q[j] = TRUE
               PROVE  \E u \in Users : Holding(ds[u]) /\ ds[u].index = j
    BY <1>1 DEF Owned
  <2>1. CASE j = i
    BY <1>2, <2>1
  <2>2. CASE j # i
    <3>1. r[j] = TRUE
      BY <1>1, <2>2
    <3>2. PICK u \in Users : Holding(cs[u]) /\ cs[u].index = j
      BY <3>1 DEF Structure, Owned
    <3> QED
      BY <3>2
  <2> QED
    BY <2>1, <2>2
<1>7. Reachable(ds, a, D)
  BY DEF Structure, Reachable
<1> QED
  BY <1>3, <1>5, <1>6, <1>7 DEF Structure, q

\* The array is full: a thread takes a blinding that is not in it.
LEMMA UncachedStructure ==
    ASSUME NEW cs, NEW ds, NEW a \in Seq(BlindingIds), NEW r, NEW D,
           Structure(cs, a, r, D), NEW t \in Users, ~Holding(cs[t]),
           NEW b, b \notin D,
           ds[t] = [pc |-> "convert", blinding |-> b,
                    index |-> MAX_BLINDINGS_PER_RSA + 1],
           \A u \in Users : u # t => ds[u] = cs[u]
    PROVE  Structure(ds, a, r, D \cup {b})
<1>1. /\ Holding(ds[t]) /\ ds[t].blinding = b /\ ds[t].pc = "convert"
      /\ ds[t].index = MAX_BLINDINGS_PER_RSA + 1
  BY DEF Holding
<1>2. ~In(a, b)
  BY DEF In, Structure, Array
<1>3. ASSUME NEW u \in Users PROVE Held(ds[u], a, r, D \cup {b})
  <2>1. CASE u = t
    BY <1>1, <1>2, <2>1 DEF Held
  <2>2. CASE u # t
    <3>1. Held(cs[u], a, r, D) /\ ds[u] = cs[u]
      BY <2>2 DEF Structure
    <3> QED
      BY <3>1 DEF Held
  <2> QED
    BY <2>1, <2>2
<1>4. ASSUME NEW u \in Users, u # t, Holding(cs[u]) PROVE cs[u].blinding # b
  BY <1>4 DEF Structure, Held
<1>5. Apart(ds)
  BY <1>1, <1>4 DEF Structure, Apart
<1>6. Owned(ds, r)
  <2> SUFFICES ASSUME NEW j \in 1 .. Len(r), r[j] = TRUE
               PROVE  \E u \in Users : Holding(ds[u]) /\ ds[u].index = j
    BY DEF Owned
  <2>1. PICK u \in Users : Holding(cs[u]) /\ cs[u].index = j
    BY DEF Structure, Owned
  <2> QED
    BY <2>1
<1>7. Reachable(ds, a, D \cup {b})
  BY <1>1 DEF Structure, Reachable
<1>8. Array(a, D \cup {b})
  BY DEF Structure, Array
<1> QED
  BY <1>3, <1>5, <1>6, <1>7, <1>8 DEF Structure

LEMMA JoinedIds ==
    ASSUME NEW a \in Seq(BlindingIds), NEW b \in Seq(BlindingIds)
    PROVE  /\ a \o b \in Seq(BlindingIds) /\ Len(a \o b) = Len(a) + Len(b)
           /\ \A j \in 1 .. Len(a) : (a \o b)[j] = a[j]
           /\ \A j \in 1 .. Len(b) : (a \o b)[Len(a) + j] = b[j]
  OBVIOUS

LEMMA JoinedFlags ==
    ASSUME NEW a \in Seq(BOOLEAN), NEW b \in Seq(BOOLEAN)
    PROVE  /\ a \o b \in Seq(BOOLEAN) /\ Len(a \o b) = Len(a) + Len(b)
           /\ \A j \in 1 .. Len(a) : (a \o b)[j] = a[j]
           /\ \A j \in 1 .. Len(b) : (a \o b)[Len(a) + j] = b[j]
  OBVIOUS

\* The array grows by bs, whose first blinding the thread takes.
NewPlaces(bs, q, m, D) ==
    /\ bs \in Seq(BlindingIds) /\ q \in Seq(BOOLEAN) /\ Len(bs) = m /\ Len(q) = m
    /\ \A j \in 1 .. m : bs[j] \notin D /\ q[j] = (j = 1)
    /\ \A j, k \in 1 .. m : bs[j] = bs[k] => j = k

Named(bs, m) == {bs[j] : j \in 1 .. m}

LEMMA ExtendStructure ==
    ASSUME NEW cs, NEW ds, NEW a \in Seq(BlindingIds), NEW r \in Seq(BOOLEAN),
           NEW D, Structure(cs, a, r, D), Len(r) = Len(a),
           NEW t \in Users, ~Holding(cs[t]), NEW m \in Nat \ {0},
           NEW bs, NEW q, NewPlaces(bs, q, m, D),
           ds[t] = [pc |-> "convert", blinding |-> bs[1], index |-> Len(a) + 1],
           \A u \in Users : u # t => ds[u] = cs[u],
           Len(a) + m <= MAX_BLINDINGS_PER_RSA
    PROVE  Structure(ds, a \o bs, r \o q, D \cup Named(bs, m))
<1> DEFINE n == Len(a)
           E == D \cup Named(bs, m)
           c == a \o bs
           s == r \o q
<1>0. /\ bs \in Seq(BlindingIds) /\ q \in Seq(BOOLEAN) /\ Len(bs) = m /\ Len(q) = m
      /\ \A j \in 1 .. m : bs[j] \notin D /\ q[j] = (j = 1)
      /\ \A j, k \in 1 .. m : bs[j] = bs[k] => j = k
  BY DEF NewPlaces
<1>1. /\ n \in Nat /\ c \in Seq(BlindingIds) /\ Len(c) = n + m
      /\ Len(s) = n + m
      /\ \A j \in 1 .. n : c[j] = a[j] /\ s[j] = r[j]
      /\ \A j \in 1 .. m : c[n + j] = bs[j] /\ s[n + j] = q[j]
  <2>1. /\ a \o bs \in Seq(BlindingIds) /\ Len(a \o bs) = Len(a) + Len(bs)
        /\ \A j \in 1 .. Len(a) : (a \o bs)[j] = a[j]
        /\ \A j \in 1 .. Len(bs) : (a \o bs)[Len(a) + j] = bs[j]
    BY <1>0, JoinedIds
  <2>2. /\ Len(r \o q) = Len(r) + Len(q)
        /\ \A j \in 1 .. Len(r) : (r \o q)[j] = r[j]
        /\ \A j \in 1 .. Len(q) : (r \o q)[Len(r) + j] = q[j]
    BY <1>0, JoinedFlags
  <2>3. Len(a) \in Nat
    OBVIOUS
  <2> QED
    BY <1>0, <2>1, <2>2, <2>3
<1>2. \A j \in 1 .. n + m : j \in 1 .. n \/ (j - n \in 1 .. m /\ n + (j - n) = j)
  BY <1>1
<1>3. \A j \in 1 .. n + m : j \in 1 .. n \/ \E k \in 1 .. m : j = n + k
  BY <1>2
<1>4. \A j \in 1 .. m : n + j \in 1 .. n + m /\ n + j \notin 1 .. n
  BY <1>1
<1>5. /\ Holding(ds[t]) /\ ds[t].blinding = bs[1] /\ ds[t].index = n + 1
      /\ ds[t].pc = "convert"
  BY DEF Holding
<1>6. \A j \in 1 .. n : j \in 1 .. n + m
  BY <1>1
<1>7. 1 \in 1 .. m /\ q[1] = TRUE
  BY <1>0
<1>8. \A j \in 1 .. m : bs[j] \in E /\ bs[j] \notin D
  BY <1>0 DEF Named
<1>9. D \subseteq E
  OBVIOUS
<1>9a. \A x \in E : x \in D \/ \E j \in 1 .. m : x = bs[j]
  BY DEF Named
<1> HIDE DEF n, E, c, s
<1>10. Array(c, E)
  <2>1. \A j \in 1 .. n : a[j] \in D
    BY DEF Structure, Array, n
  <2>2. ASSUME NEW j \in 1 .. n + m PROVE c[j] \in E
    <3>1. CASE j \in 1 .. n
      BY <1>1, <1>9, <2>1, <3>1
    <3>2. ASSUME NEW k \in 1 .. m, j = n + k PROVE c[j] \in E
      BY <1>1, <1>8, <3>2
    <3> QED
      BY <1>3, <3>1, <3>2
  <2>2a. ASSUME NEW j \in 1 .. n, NEW k \in 1 .. n + m, k \notin 1 .. n
         PROVE  c[j] # c[k]
    <3>1. c[j] \in D
      BY <1>1, <2>1
    <3>2. PICK y \in 1 .. m : k = n + y
      BY <1>3, <2>2a
    <3>3. c[k] = bs[y] /\ bs[y] \notin D
      BY <1>1, <1>8, <3>2
    <3> QED
      BY <3>1, <3>3
  <2>3. ASSUME NEW j \in 1 .. n + m, NEW k \in 1 .. n + m, c[j] = c[k]
        PROVE  j = k
    <3>1. CASE j \in 1 .. n /\ k \in 1 .. n
      BY <1>1, <2>3, <3>1 DEF Structure, Array, n
    <3>2. CASE j \in 1 .. n /\ k \notin 1 .. n
      BY <2>2a, <2>3, <3>2
    <3>3. CASE j \notin 1 .. n /\ k \in 1 .. n
      BY <2>2a, <2>3, <3>3
    <3>4. CASE j \notin 1 .. n /\ k \notin 1 .. n
      <4>1. PICK x \in 1 .. m, y \in 1 .. m : j = n + x /\ k = n + y
        BY <1>3, <3>4
      <4>2. bs[x] = bs[y]
        BY <1>1, <2>3, <4>1
      <4> QED
        BY <1>0, <4>1, <4>2
    <3> QED
      BY <3>1, <3>2, <3>3, <3>4
  <2> QED
    BY <1>1, <2>2, <2>3 DEF Array
<1>11. \A x \in D : In(c, x) <=> In(a, x)
  <2> SUFFICES ASSUME NEW x \in D PROVE In(c, x) <=> In(a, x)
    OBVIOUS
  <2>1. ASSUME In(a, x) PROVE In(c, x)
    BY <1>1, <1>6, <2>1 DEF In, n
  <2>2. ASSUME In(c, x) PROVE In(a, x)
    <3>1. PICK j \in 1 .. n + m : c[j] = x
      BY <1>1, <2>2 DEF In
    <3>2. j \in 1 .. n
      <4> SUFFICES ASSUME NEW k \in 1 .. m, j = n + k PROVE FALSE
        BY <1>3
      <4>1. c[j] = bs[k]
        BY <1>1
      <4> QED
        BY <1>8, <3>1, <4>1
    <3> QED
      BY <1>1, <3>1, <3>2 DEF In, n
  <2> QED
    BY <2>1, <2>2
<1>12. ASSUME NEW u \in Users PROVE Held(ds[u], c, s, E)
  <2>1. CASE u = t
    <3>1. n + 1 \in 1 .. Len(c) /\ c[n + 1] = bs[1] /\ s[n + 1] = TRUE
      BY <1>1, <1>4, <1>7
    <3> QED
      BY <1>5, <1>7, <1>8, <2>1, <3>1 DEF Held
  <2>2. CASE u # t
    <3>1. Held(cs[u], a, r, D) /\ ds[u] = cs[u]
      BY <2>2 DEF Structure
    <3>2. ASSUME Holding(cs[u])
          PROVE  /\ cs[u].blinding \in E
                 /\ \/ /\ cs[u].index \in 1 .. Len(c) /\ c[cs[u].index] = cs[u].blinding
                       /\ s[cs[u].index] = TRUE
                    \/ cs[u].index = MAX_BLINDINGS_PER_RSA + 1 /\ ~In(c, cs[u].blinding)
      <4>1. cs[u].blinding \in D
        BY <3>1, <3>2 DEF Held
      <4>2. CASE /\ cs[u].index \in 1 .. n /\ a[cs[u].index] = cs[u].blinding
                 /\ r[cs[u].index] = TRUE
        BY <1>1, <1>6, <1>9, <4>1, <4>2
      <4>3. CASE cs[u].index = MAX_BLINDINGS_PER_RSA + 1 /\ ~In(a, cs[u].blinding)
        BY <1>9, <1>11, <4>1, <4>3
      <4> QED
        BY <3>1, <3>2, <4>2, <4>3 DEF Held, n
    <3> QED
      BY <3>1, <3>2 DEF Held
  <2> QED
    BY <2>1, <2>2
<1>13. ASSUME NEW u \in Users, u # t, Holding(cs[u]) PROVE cs[u].blinding # bs[1]
  <2>1. cs[u].blinding \in D
    BY <1>13 DEF Structure, Held
  <2> QED
    BY <1>7, <1>8, <2>1
<1>14. Apart(ds)
  BY <1>5, <1>13 DEF Structure, Apart
<1>15. Owned(ds, s)
  <2> SUFFICES ASSUME NEW j \in 1 .. n + m, s[j] = TRUE
               PROVE  \E u \in Users : Holding(ds[u]) /\ ds[u].index = j
    BY <1>1 DEF Owned
  <2>1. CASE j \in 1 .. n
    <3>1. r[j] = TRUE /\ j \in 1 .. Len(r)
      BY <1>1, <2>1 DEF n
    <3>2. PICK u \in Users : Holding(cs[u]) /\ cs[u].index = j
      BY <3>1 DEF Structure, Owned
    <3> QED
      BY <3>2
  <2>2. CASE j \notin 1 .. n
    <3>1. PICK k \in 1 .. m : j = n + k
      BY <1>3, <2>2
    <3>2. k = 1
      BY <1>0, <1>1, <3>1
    <3> QED
      BY <1>5, <3>1, <3>2
  <2> QED
    BY <2>1, <2>2
<1>16. Reachable(ds, c, E)
  <2> SUFFICES ASSUME NEW x \in E
               PROVE  \/ In(c, x)
                      \/ \E u \in Users : Holding(ds[u]) /\ ds[u].blinding = x
    BY DEF Reachable
  <2>1. CASE x \in D
    <3>1. In(a, x) \/ \E u \in Users : Holding(cs[u]) /\ cs[u].blinding = x
      BY <2>1 DEF Structure, Reachable
    <3> QED
      BY <1>11, <2>1, <3>1
  <2>2. ASSUME NEW j \in 1 .. m, x = bs[j] PROVE In(c, x)
    BY <1>1, <1>4, <2>2 DEF In
  <2> QED
    BY <1>9a, <2>1, <2>2
<1> QED
  BY <1>10, <1>12, <1>14, <1>15, <1>16 DEF Structure, c, s, E

\* rsa_blinding_release of a place of the array.
LEMMA ReleaseStructure ==
    ASSUME NEW cs, NEW ds, NEW a, NEW r \in Seq(BOOLEAN), NEW D,
           Structure(cs, a, r, D), Len(r) = Len(a),
           NEW t \in Users, Holding(cs[t]), NEW i \in 1 .. Len(a), cs[t].index = i,
           a[i] = cs[t].blinding, i # MAX_BLINDINGS_PER_RSA + 1,
           ds[t] = Idle, \A u \in Users : u # t => ds[u] = cs[u]
    PROVE  Structure(ds, a, [r EXCEPT ![i] = FALSE], D)
<1> DEFINE q == [r EXCEPT ![i] = FALSE]
<1>1. /\ Len(q) = Len(r) /\ q[i] = FALSE
      /\ \A j \in 1 .. Len(r) : j # i => q[j] = r[j]
  OBVIOUS
<1>2. ~Holding(ds[t]) /\ ds[t].blinding = NoBlinding /\ ds[t] = Idle
  BY DEF Holding, Idle
<1> HIDE DEF q
<1>3. ASSUME NEW u \in Users PROVE Held(ds[u], a, q, D)
  <2>1. CASE u = t
    BY <1>2, <2>1 DEF Held
  <2>2. CASE u # t
    <3>1. Held(cs[u], a, r, D) /\ ds[u] = cs[u]
      BY <2>2 DEF Structure
    <3>2. ASSUME Holding(cs[u]) PROVE cs[u].index # i
      <4>1. cs[u].blinding # cs[t].blinding
        BY <2>2, <3>2 DEF Structure, Apart
      <4> QED
        BY <3>1, <3>2, <4>1 DEF Held
    <3> QED
      BY <1>1, <3>1, <3>2 DEF Held
  <2> QED
    BY <2>1, <2>2
<1>4. Apart(ds)
  BY <1>2 DEF Structure, Apart
<1>5. Owned(ds, q)
  <2> SUFFICES ASSUME NEW j \in 1 .. Len(r), q[j] = TRUE
               PROVE  \E u \in Users : Holding(ds[u]) /\ ds[u].index = j
    BY <1>1 DEF Owned
  <2>1. j # i /\ r[j] = TRUE
    BY <1>1
  <2>2. PICK u \in Users : Holding(cs[u]) /\ cs[u].index = j
    BY <2>1 DEF Structure, Owned
  <2> QED
    BY <2>1, <2>2
<1>6. Reachable(ds, a, D)
  <2> SUFFICES ASSUME NEW b \in D
               PROVE  \/ In(a, b)
                      \/ \E u \in Users : Holding(ds[u]) /\ ds[u].blinding = b
    BY DEF Reachable
  <2>1. CASE b = cs[t].blinding
    BY <2>1 DEF In
  <2>2. CASE b # cs[t].blinding
    BY <2>2 DEF Structure, Reachable
  <2> QED
    BY <2>1, <2>2
<1> QED
  BY <1>3, <1>4, <1>5, <1>6 DEF Structure, q

\* rsa_blinding_release of a blinding that is not in the array.
LEMMA FreeStructure ==
    ASSUME NEW cs, NEW ds, NEW a \in Seq(BlindingIds), NEW r, NEW D,
           Structure(cs, a, r, D), Len(r) = Len(a), Len(a) <= MAX_BLINDINGS_PER_RSA,
           NEW t \in Users, Holding(cs[t]),
           cs[t].index = MAX_BLINDINGS_PER_RSA + 1, ~In(a, cs[t].blinding),
           ds[t] = Idle, \A u \in Users : u # t => ds[u] = cs[u]
    PROVE  Structure(ds, a, r, D \ {cs[t].blinding})
<1> DEFINE b == cs[t].blinding
<1>1. ~Holding(ds[t]) /\ ds[t].blinding = NoBlinding /\ ds[t] = Idle
  BY DEF Holding, Idle
<1>2. ASSUME NEW u \in Users, u # t, Holding(cs[u]) PROVE cs[u].blinding # b
  BY <1>2 DEF Structure, Apart
<1>3. ASSUME NEW u \in Users PROVE Held(ds[u], a, r, D \ {b})
  <2>1. CASE u = t
    BY <1>1, <2>1 DEF Held
  <2>2. CASE u # t
    <3>1. Held(cs[u], a, r, D) /\ ds[u] = cs[u]
      BY <2>2 DEF Structure
    <3> QED
      BY <1>2, <2>2, <3>1 DEF Held
  <2> QED
    BY <2>1, <2>2
<1>4. Apart(ds)
  BY <1>1 DEF Structure, Apart
<1>5. Owned(ds, r)
  <2> SUFFICES ASSUME NEW j \in 1 .. Len(r), r[j] = TRUE
               PROVE  \E u \in Users : Holding(ds[u]) /\ ds[u].index = j
    BY DEF Owned
  <2>1. PICK u \in Users : Holding(cs[u]) /\ cs[u].index = j
    BY DEF Structure, Owned
  <2>2. j # MAX_BLINDINGS_PER_RSA + 1
    BY KeyAssumption
  <2> QED
    BY <2>1, <2>2
<1>6. Reachable(ds, a, D \ {b})
  BY DEF Structure, Reachable
<1>7. Array(a, D \ {b})
  BY DEF Structure, Array, In
<1> QED
  BY <1>3, <1>4, <1>5, <1>6, <1>7 DEF Structure

-----------------------------------------------------------------------------
(* Factors.                                                                *)

LEMMA UnusableFacts ==
    /\ Unusable \in Blinding /\ Unusable.draw = 0
    /\ Unusable.counter = BN_BLINDING_COUNTER - 1
<1>1. BN_BLINDING_COUNTER - 1 \in 0 .. (BN_BLINDING_COUNTER - 1)
  BY KeyAssumption
<1> QED
  BY <1>1 DEF Unusable, Blinding

\* The cache of blindings, as rsa_blinding_get finds it: after a fork every
\* blinding is invalid.
LEMMA WipedFacts ==
    ASSUME KeyInv
    PROVE  LET h == Wiped(objects, generation)
           IN  /\ h \in [DOMAIN objects -> Blinding] /\ DOMAIN h = DOMAIN objects
               /\ Drawn(h, draws) /\ Behind(h, used) /\ Inverses(call, h)
<1> DEFINE h == Wiped(objects, generation)
<1>1. CASE blinding_fork_generation = generation
  <2>1. h = objects
    BY <1>1 DEF Wiped
  <2> QED
    BY <1>1, <2>1 DEF KeyInv, Typed
<1>2. CASE blinding_fork_generation # generation
  <2>1. \A b \in DOMAIN objects : In(blindings, b)
    BY <1>2 DEF KeyInv, Structure, Reachable
  <2>2. DOMAIN blindings = 1 .. Len(blindings)
    BY DEF KeyInv, Typed
  <2>3. h = [b \in DOMAIN objects |-> Unusable]
    BY <1>2, <2>1, <2>2 DEF Wiped, In
  <2> HIDE DEF h
  <2>4. DOMAIN h = DOMAIN objects /\ \A b \in DOMAIN h : h[b] = Unusable
    BY <2>3
  <2>5. h \in [DOMAIN objects -> Blinding]
    BY <2>3, UnusableFacts
  <2>6. Drawn(h, draws)
    BY <2>4, UnusableFacts DEF Drawn, KeyInv, Typed
  <2>7. Behind(h, used)
    <3>1. \A f \in used : f.draw # 0
      BY DEF KeyInv
    <3> QED
      BY <2>4, <3>1, UnusableFacts DEF Behind
  <2>8. Inverses(call, h)
    <3>1. \A t \in Users : call[t].pc # "invert"
      BY <1>2 DEF KeyInv, Holding
    <3> QED
      BY <3>1 DEF Inverses
  <2> QED
    BY <2>4, <2>5, <2>6, <2>7, <2>8 DEF h
<1> QED
  BY <1>1, <1>2

\* New blindings are invalid until they are used.
NonZero(us) == \A f \in us : f.draw # 0

Grown(g, h, D, E, d, us) ==
    /\ g \in [E -> Blinding] /\ Drawn(g, d) /\ Behind(g, us)
    /\ \A b \in D : g[b] = h[b]

LEMMA AllocatedFacts ==
    ASSUME NEW D, NEW h \in [D -> Blinding], NEW bs, NEW d \in Nat, NEW us,
           Drawn(h, d), Behind(h, us), NonZero(us)
    PROVE  Grown(Allocated(h, bs), h, D, D \cup bs, d, us)
<1> DEFINE g == Allocated(h, bs)
<1>1. DOMAIN h = D
  OBVIOUS
<1>2. g = [b \in D \cup bs |-> IF b \in D THEN h[b] ELSE Unusable]
  BY <1>1 DEF Allocated
<1> HIDE DEF g
<1>3. /\ DOMAIN g = D \cup bs /\ \A b \in D : g[b] = h[b]
      /\ \A b \in D \cup bs : b \notin D => g[b] = Unusable
  BY <1>2
<1>4. g \in [D \cup bs -> Blinding]
  BY <1>2, UnusableFacts
<1>5. Drawn(g, d)
  <2>1. ASSUME NEW b \in D \cup bs
        PROVE  /\ g[b].draw <= d
               /\ g[b].counter # BN_BLINDING_COUNTER - 1 =>
                    g[b].inverse = TRUE /\ g[b].draw # 0
    <3>1. CASE b \in D
      BY <1>1, <1>3, <3>1 DEF Drawn
    <3>2. CASE b \notin D
      BY <1>3, <3>2, UnusableFacts
    <3> QED
      BY <3>1, <3>2
  <2>2. ASSUME NEW b \in D \cup bs, NEW c \in D \cup bs, g[b].draw = g[c].draw
        PROVE  b = c \/ g[b].draw = 0
    <3>1. CASE b \in D /\ c \in D
      BY <1>1, <1>3, <2>2, <3>1 DEF Drawn
    <3>2. CASE b \notin D
      BY <1>3, <3>2, UnusableFacts
    <3>3. CASE c \notin D
      BY <1>3, <2>2, <3>3, UnusableFacts
    <3> QED
      BY <3>1, <3>2, <3>3
  <2> QED
    BY <1>3, <2>1, <2>2 DEF Drawn
<1>6. Behind(g, us)
  <2> SUFFICES ASSUME NEW b \in D \cup bs, NEW f \in us, f.draw = g[b].draw
               PROVE  f.squared <= g[b].squared
    BY <1>3 DEF Behind
  <2>1. b \in D
    BY <1>3, UnusableFacts DEF NonZero
  <2> QED
    BY <1>1, <1>3, <2>1 DEF Behind
<1> QED
  BY <1>3, <1>4, <1>5, <1>6 DEF g, Grown

-----------------------------------------------------------------------------
(* The steps.                                                              *)

\* Thread t goes from one place to another and holds what it held.
LEMMA ProceedFacts ==
    ASSUME KeyInv, NEW t \in Users, NEW pc \in Pcs \ {"idle"},
           Holding([pc |-> pc]) = Holding(call[t]), Proceed(t, pc)
    PROVE  /\ call' \in [Users -> Calls] /\ SameHold(call, call')
           /\ call'[t].pc = pc /\ call'[t].blinding = call[t].blinding
           /\ \A u \in Users : u # t => call'[u] = call[u]
<1>1. call \in [Users -> Calls] /\ call' = [call EXCEPT ![t].pc = pc]
  BY DEF KeyInv, Typed, Proceed
<1>2. /\ call' \in [Users -> Calls] /\ call'[t].pc = pc
      /\ call'[t].blinding = call[t].blinding /\ call'[t].index = call[t].index
      /\ \A u \in Users : u # t => call'[u] = call[u]
  BY <1>1 DEF Calls
<1>3. Holding(call'[t]) = Holding(call[t])
  BY <1>2 DEF Holding
<1>4. ASSUME NEW u \in Users
      PROVE  /\ Holding(call'[u]) = Holding(call[u])
             /\ call'[u].blinding = call[u].blinding
             /\ call'[u].index = call[u].index \/ ~Holding(call[u])
             /\ call'[u].pc = "idle" => call'[u] = Idle
  <2>1. CASE u = t
    BY <1>2, <1>3, <2>1
  <2>2. CASE u # t
    BY <1>2, <2>2 DEF KeyInv, Structure, Held
  <2> QED
    BY <2>1, <2>2
<1> QED
  BY <1>2, <1>4 DEF SameHold

\* Thread t returns: it held nothing.
LEMMA ReturnFacts ==
    ASSUME KeyInv, NEW t \in Users, ~Holding(call[t]),
           call' = [call EXCEPT ![t] = Idle]
    PROVE  /\ call' \in [Users -> Calls] /\ SameHold(call, call')
           /\ call'[t] = Idle /\ \A u \in Users : u # t => call'[u] = call[u]
<1>1. Idle \in Calls /\ Idle.pc = "idle" /\ Idle.blinding = NoBlinding /\ ~Holding(Idle)
  BY DEF Idle, Calls, Pcs, Holding
<1>2. /\ call' \in [Users -> Calls] /\ call'[t] = Idle
      /\ \A u \in Users : u # t => call'[u] = call[u]
  BY <1>1 DEF KeyInv, Typed
<1>3. ASSUME NEW u \in Users
      PROVE  /\ Holding(call'[u]) = Holding(call[u])
             /\ call'[u].blinding = call[u].blinding
             /\ call'[u].index = call[u].index \/ ~Holding(call[u])
             /\ call'[u].pc = "idle" => call'[u] = Idle
  <2>0. Held(call[u], blindings, inuse, DOMAIN objects)
    BY DEF KeyInv, Structure
  <2>1. CASE u = t
    <3>1. Holding(call'[u]) = FALSE /\ Holding(call[u]) = FALSE
      BY <1>1, <1>2, <2>1 DEF Holding
    <3> QED
      BY <1>1, <1>2, <2>0, <2>1, <3>1 DEF Held
  <2>2. CASE u # t
    BY <1>2, <2>0, <2>2 DEF Held
  <2> QED
    BY <2>1, <2>2
<1> QED
  BY <1>2, <1>3 DEF SameHold

\* A step that leaves the cache and the factors alone.
LEMMA KeepInv ==
    ASSUME KeyInv, call' \in [Users -> Calls], SameHold(call, call'),
           UNCHANGED <<generation, CacheVars, FactorVars>>,
           frozen' \in BOOLEAN, derived' \in 0 .. Steps, Derivation',
           \A u \in Users : call'[u].pc = "invert" => call[u].pc = "invert"
    PROVE  KeyInv'
<1>1. /\ blindings' = blindings /\ inuse' = inuse /\ objects' = objects
      /\ blinding_fork_generation' = blinding_fork_generation
      /\ generation' = generation /\ draws' = draws /\ used' = used
      /\ relinked' = relinked
  BY DEF CacheVars, FactorVars
<1>2. Structure(call', blindings, inuse, DOMAIN objects)
  BY KeepStructure DEF KeyInv
<1>3. Inverses(call', objects)
  <2> SUFFICES ASSUME NEW u \in Users, call'[u].pc = "invert"
               PROVE  objects[call'[u].blinding].inverse = TRUE
    BY DEF Inverses
  <2>1. call'[u].blinding = call[u].blinding
    BY DEF SameHold
  <2> QED
    BY <2>1 DEF KeyInv, Inverses
<1>4. \A u \in Users : Holding(call'[u]) = Holding(call[u])
  BY DEF SameHold
<1>5. Typed'
  BY <1>1 DEF KeyInv, Typed
<1> QED
  BY <1>1, <1>2, <1>3, <1>4, <1>5 DEF KeyInv

LEMMA ReadFrozenInv ==
    ASSUME KeyInv, NEW t \in Users, ReadFrozen(t)
    PROVE  KeyInv'
<1> DEFINE pc == IF frozen THEN "get" ELSE "freeze"
<1>1. /\ call[t] = Idle /\ Proceed(t, pc) /\ frozen' = frozen /\ derived' = derived
      /\ UNCHANGED <<generation, CacheVars, FactorVars>>
  BY DEF ReadFrozen
<1>2. /\ pc \in Pcs \ {"idle"} /\ Holding([pc |-> pc]) = Holding(call[t])
      /\ pc # "invert"
  BY <1>1 DEF Pcs, Holding, Idle
<1>3. pc # "freeze" => derived = Steps
  BY DEF KeyInv, Typed, Derivation
<1> HIDE DEF pc
<1>4. /\ call' \in [Users -> Calls] /\ SameHold(call, call')
      /\ call'[t].pc = pc /\ \A u \in Users : u # t => call'[u] = call[u]
  BY <1>1, <1>2, ProceedFacts
<1>5. Derivation'
  BY <1>1, <1>3, <1>4 DEF KeyInv, Derivation
<1>6. \A u \in Users : call'[u].pc = "invert" => call[u].pc = "invert"
  BY <1>2, <1>4
<1>7. frozen' \in BOOLEAN /\ derived' \in 0 .. Steps
  BY <1>1 DEF KeyInv, Typed
<1> QED
  BY <1>1, <1>4, <1>5, <1>6, <1>7, KeepInv

LEMMA FreezeInv ==
    ASSUME KeyInv, NEW t \in Users, Freeze(t)
    PROVE  KeyInv'
<1>0. /\ call[t].pc = "freeze" /\ ~Holding(call[t])
      /\ UNCHANGED <<generation, CacheVars, FactorVars>>
  BY DEF Freeze, Holding
<1>1. /\ "get" \in Pcs \ {"idle"} /\ Holding([pc |-> "get"]) = Holding(call[t])
  BY <1>0 DEF Pcs, Holding
<1>2. ASSUME Proceed(t, "get"), frozen' \in BOOLEAN, derived' = Steps
      PROVE  KeyInv'
  <2>1. /\ call' \in [Users -> Calls] /\ SameHold(call, call')
        /\ call'[t].pc = "get" /\ \A u \in Users : u # t => call'[u] = call[u]
    BY <1>1, <1>2, ProceedFacts
  <2>2. Derivation' /\ derived' \in 0 .. Steps
    BY <1>2 DEF Derivation, Steps
  <2>3. \A u \in Users : call'[u].pc = "invert" => call[u].pc = "invert"
    BY <2>1
  <2> QED
    BY <1>0, <1>2, <2>1, <2>2, <2>3, KeepInv
<1>3. CASE ~frozen /\ derived' \in derived .. Steps /\ frozen' = FrozenAfter(derived')
           /\ call' = IF derived' = Steps THEN [call EXCEPT ![t].pc = "get"]
                      ELSE [call EXCEPT ![t] = Idle]
  <2>1. frozen' \in BOOLEAN /\ (frozen' = TRUE => derived' = Steps)
    BY <1>3 DEF FrozenAfter
  <2>2. CASE derived' = Steps
    BY <1>2, <1>3, <2>1, <2>2 DEF Proceed
  <2>3. CASE derived' # Steps
    <3>1. /\ call' \in [Users -> Calls] /\ SameHold(call, call')
          /\ call'[t] = Idle /\ \A u \in Users : u # t => call'[u] = call[u]
      BY <1>0, <1>3, <2>3, ReturnFacts
    <3>2. derived \in 0 .. Steps /\ derived # Steps /\ derived' \in 0 .. Steps
      <4>1. derived \in 0 .. Steps
        BY DEF KeyInv, Typed
      <4> QED
        BY <1>3, <2>3, <4>1 DEF Steps
    <3>3. \A u \in Users : call[u].pc \in {"idle", "freeze"}
      BY <3>2 DEF KeyInv, Derivation
    <3>4. \A u \in Users : call'[u].pc \in {"idle", "freeze"}
      BY <3>1, <3>3 DEF Idle
    <3>5. Derivation'
      BY <2>1, <2>3, <3>4 DEF Derivation
    <3> QED
      BY <1>0, <2>1, <3>1, <3>2, <3>4, <3>5, KeepInv
  <2> QED
    BY <2>2, <2>3
<1>4. CASE frozen /\ Proceed(t, "get") /\ UNCHANGED <<frozen, derived>>
  <2>1. frozen' \in BOOLEAN /\ derived' = Steps
    BY <1>4 DEF KeyInv, Typed, Derivation
  <2> QED
    BY <1>2, <1>4, <2>1
<1> QED
  BY <1>3, <1>4 DEF Freeze

LEMMA TransformInv ==
    ASSUME KeyInv, NEW t \in Users, Transform(t)
    PROVE  KeyInv'
<1>1. /\ call[t].pc = "invert" /\ Proceed(t, "release")
      /\ frozen' = frozen /\ derived' = derived
      /\ UNCHANGED <<generation, CacheVars, FactorVars>>
  BY DEF Transform
<1>2. "release" \in Pcs \ {"idle"} /\ Holding([pc |-> "release"]) = Holding(call[t])
  BY <1>1 DEF Pcs, Holding
<1>3. /\ call' \in [Users -> Calls] /\ SameHold(call, call')
      /\ call'[t].pc = "release" /\ \A u \in Users : u # t => call'[u] = call[u]
  BY <1>1, <1>2, ProceedFacts
<1>4. Derivation'
  BY <1>1, <1>3 DEF KeyInv, Derivation
<1>5. \A u \in Users : call'[u].pc = "invert" => call[u].pc = "invert"
  BY <1>3
<1>6. frozen' \in BOOLEAN /\ derived' \in 0 .. Steps
  BY <1>1 DEF KeyInv, Typed
<1> QED
  BY <1>1, <1>3, <1>4, <1>5, <1>6, KeepInv

\* What all the cases of rsa_blinding_get have in common; h is the cache after
\* it may have been wiped.
LEMMA GetStep ==
    ASSUME KeyInv, NEW t \in Users, call[t].pc = "get",
           NEW h, h = Wiped(objects, generation),
           blinding_fork_generation' = generation,
           UNCHANGED <<frozen, derived, generation, FactorVars>>,
           NEW D, D \subseteq BlindingIds, DOMAIN objects \subseteq D,
           objects' \in [D -> Blinding], \A b \in DOMAIN objects : objects'[b] = h[b],
           Drawn(objects', draws), Behind(objects', used),
           blindings' \in Seq(BlindingIds), inuse' \in Seq(BOOLEAN),
           Len(inuse') = Len(blindings'), Len(blindings') <= MAX_BLINDINGS_PER_RSA,
           Structure(call', blindings', inuse', D),
           call' \in [Users -> Calls], call'[t].pc \in {"convert", "idle"},
           \A u \in Users : u # t => call'[u] = call[u]
    PROVE  KeyInv'
<1>1. /\ generation' = generation /\ draws' = draws /\ used' = used
      /\ relinked' = relinked /\ frozen' = frozen /\ derived' = derived
  BY DEF FactorVars
<1>2. DOMAIN objects' = D
  OBVIOUS
<1>3. Typed'
  BY <1>1, <1>2 DEF KeyInv, Typed
<1>4. Derivation'
  <2>1. derived = Steps
    BY DEF KeyInv, Derivation
  <2> QED
    BY <1>1, <2>1 DEF Derivation
<1>5. Inverses(call', objects')
  <2> SUFFICES ASSUME NEW u \in Users, call'[u].pc = "invert"
               PROVE  objects'[call'[u].blinding].inverse = TRUE
    BY DEF Inverses
  <2>1. u # t /\ call'[u] = call[u]
    OBVIOUS
  <2>2. call[u].blinding \in DOMAIN objects
    BY <2>1 DEF KeyInv, Structure, Held, Holding
  <2>3. Inverses(call, h)
    BY WipedFacts
  <2> QED
    BY <2>1, <2>2, <2>3 DEF Inverses
<1> QED
  BY <1>1, <1>2, <1>3, <1>4, <1>5 DEF KeyInv

LEMMA TakeFacts ==
    ASSUME KeyInv, NEW t \in Users, NEW b \in BlindingIds, NEW i \in Nat, Take(t, b, i)
    PROVE  /\ call' \in [Users -> Calls]
           /\ call'[t] = [pc |-> "convert", blinding |-> b, index |-> i]
           /\ call'[t].pc \in {"convert", "idle"}
           /\ \A u \in Users : u # t => call'[u] = call[u]
<1> DEFINE c == [pc |-> "convert", blinding |-> b, index |-> i]
<1>1. c \in Calls
  BY DEF Calls, Pcs
<1>2. call \in [Users -> Calls] /\ call' = [call EXCEPT ![t] = c]
  BY DEF KeyInv, Typed, Take
<1> QED
  BY <1>1, <1>2

\* malloc returns n addresses that are distinct and free.
LEMMA FreshFacts ==
    ASSUME NEW n \in Nat, CanAllocate(n)
    PROVE  /\ Fresh(n) \in Seq(BlindingIds) /\ Len(Fresh(n)) = n
           /\ DOMAIN Fresh(n) = 1 .. n
           /\ \A j \in 1 .. n : Fresh(n)[j] \in BlindingIds /\ Fresh(n)[j] \notin DOMAIN objects
           /\ \A j, k \in 1 .. n : Fresh(n)[j] = Fresh(n)[k] => j = k
<1> DEFINE f == Fresh(n)
<1>1. f \in Unallocated(n)
  BY DEF CanAllocate, Fresh
<1> HIDE DEF f
<1>2. /\ f \in [1 .. n -> BlindingIds \ DOMAIN objects]
      /\ \A j, k \in 1 .. n : f[j] = f[k] => j = k
  BY <1>1 DEF Unallocated, Injection, IsInjective
<1>3. f \in [1 .. n -> BlindingIds]
  BY <1>2
<1>4. f \in Seq(BlindingIds) /\ Len(f) = n
  BY <1>3
<1> QED
  BY <1>2, <1>4 DEF f

LEMMA GetInv ==
    ASSUME KeyInv, NEW t \in Users, rsa_blinding_get(t)
    PROVE  KeyInv'
<1> DEFINE h == Wiped(objects, generation)
           D == DOMAIN objects
           n == Len(blindings)
<1>1. /\ call[t].pc = "get" /\ blinding_fork_generation' = generation
      /\ UNCHANGED <<frozen, derived, generation, FactorVars>>
  BY DEF rsa_blinding_get
<1>2. /\ h \in [D -> Blinding] /\ Drawn(h, draws) /\ Behind(h, used)
  BY WipedFacts
<1>3. /\ blindings \in Seq(BlindingIds) /\ inuse \in Seq(BOOLEAN)
      /\ Len(inuse) = n /\ n <= MAX_BLINDINGS_PER_RSA /\ n \in Nat
      /\ D \subseteq BlindingIds /\ draws \in Nat
      /\ Structure(call, blindings, inuse, D) /\ NonZero(used)
  BY DEF KeyInv, Typed, NonZero
<1>4. ~Holding(call[t])
  BY <1>1 DEF Holding
<1> HIDE DEF h
<1>5. CASE TakeFree(t, h)
  <2>1. PICK i \in Free : inuse' = Reserved(i) /\ Take(t, blindings[i], i)
    BY <1>5 DEF TakeFree
  <2>2. objects' = h /\ blindings' = blindings
    BY <1>5 DEF TakeFree
  <2>3. i \in 1 .. n /\ inuse[i] = FALSE /\ i \in Nat
    BY <1>3 DEF Free
  <2>4. blindings[i] \in BlindingIds
    BY <1>3, <2>3
  <2>5. /\ call' \in [Users -> Calls]
        /\ call'[t] = [pc |-> "convert", blinding |-> blindings[i], index |-> i]
        /\ call'[t].pc \in {"convert", "idle"}
        /\ \A u \in Users : u # t => call'[u] = call[u]
    BY <2>1, <2>3, <2>4, TakeFacts
  <2>6. inuse' = [inuse EXCEPT ![i] = TRUE] /\ inuse' \in Seq(BOOLEAN)
        /\ Len(inuse') = n
    BY <1>3, <2>1, <2>3 DEF Reserved
  <2>7. Structure(call', blindings, inuse', D)
    BY <1>3, <1>4, <2>3, <2>5, <2>6, ReserveStructure
  <2> QED
    BY <1>1, <1>2, <1>3, <2>2, <2>5, <2>6, <2>7, GetStep DEF h
<1>6. CASE TakeUncached(t, h)
  <2> DEFINE b == Fresh(1)[1]
             i == MAX_BLINDINGS_PER_RSA + 1
  <2>1. /\ CanAllocate(1) /\ objects' = Allocated(h, {b}) /\ Take(t, b, i)
        /\ blindings' = blindings /\ inuse' = inuse
    BY <1>6 DEF TakeUncached
  <2>2. b \in BlindingIds /\ b \notin D /\ i \in Nat
    BY <2>1, FreshFacts, KeyAssumption
  <2> HIDE DEF b, i
  <2>3. /\ call' \in [Users -> Calls]
        /\ call'[t] = [pc |-> "convert", blinding |-> b, index |-> i]
        /\ call'[t].pc \in {"convert", "idle"}
        /\ \A u \in Users : u # t => call'[u] = call[u]
    BY <2>1, <2>2, TakeFacts
  <2>4. Structure(call', blindings, inuse, D \cup {b})
    BY <1>3, <1>4, <2>2, <2>3, UncachedStructure DEF i
  <2>5. Grown(Allocated(h, {b}), h, D, D \cup {b}, draws, used)
    <3> HIDE DEF D
    <3> QED
      BY <1>2, <1>3, AllocatedFacts
  <2>6. D \cup {b} \subseteq BlindingIds /\ D \subseteq D \cup {b}
    BY <1>3, <2>2
  <2>7. /\ objects' \in [D \cup {b} -> Blinding]
        /\ Drawn(objects', draws) /\ Behind(objects', used)
        /\ \A x \in D : objects'[x] = h[x]
    BY <2>1, <2>5 DEF Grown
  <2> QED
    BY <1>1, <1>3, <2>1, <2>3, <2>4, <2>6, <2>7, GetStep DEF h
<1>7. CASE TakeExtended(t, h)
  <2> DEFINE m == NewSize - n
             bs == Fresh(m)
             q == [i \in 1 .. m |-> i = 1]
             B == Named(bs, m)
  <2>1. /\ n < MAX_BLINDINGS_PER_RSA /\ CanAllocate(m)
        /\ blindings' = blindings \o bs /\ inuse' = inuse \o q
        /\ objects' = Allocated(h, {bs[i] : i \in DOMAIN bs}) /\ Take(t, bs[1], n + 1)
    BY <1>7 DEF TakeExtended
  <2>2. m \in Nat \ {0} /\ n + m <= MAX_BLINDINGS_PER_RSA
    BY <1>3, <2>1, KeyAssumption DEF NewSize
  <2> HIDE DEF m, n
  <2>3. /\ bs \in Seq(BlindingIds) /\ Len(bs) = m /\ DOMAIN bs = 1 .. m
        /\ \A j \in 1 .. m : bs[j] \in BlindingIds /\ bs[j] \notin D
        /\ \A j, k \in 1 .. m : bs[j] = bs[k] => j = k
    BY <2>1, <2>2, FreshFacts
  <2> HIDE DEF bs
  <2>4. q \in Seq(BOOLEAN) /\ Len(q) = m /\ \A j \in 1 .. m : q[j] = (j = 1)
    <3>1. q \in [1 .. m -> BOOLEAN] /\ \A j \in 1 .. m : q[j] = (j = 1)
      OBVIOUS
    <3> HIDE DEF q
    <3>2. q \in Seq(BOOLEAN) /\ Len(q) = m
      BY <2>2, <3>1
    <3> QED
      BY <3>1, <3>2
  <2> HIDE DEF q
  <2>5. objects' = Allocated(h, B)
    BY <2>1, <2>3 DEF Named
  <2>6. bs[1] \in BlindingIds /\ n + 1 \in Nat
    BY <1>3, <2>2, <2>3
  <2>7. /\ call' \in [Users -> Calls]
        /\ call'[t] = [pc |-> "convert", blinding |-> bs[1], index |-> n + 1]
        /\ call'[t].pc \in {"convert", "idle"}
        /\ \A u \in Users : u # t => call'[u] = call[u]
    BY <2>1, <2>6, TakeFacts
  <2>8. NewPlaces(bs, q, m, D)
    BY <2>3, <2>4 DEF NewPlaces
  <2>9. Structure(call', blindings \o bs, inuse \o q, D \cup B)
    <3> HIDE DEF D
    <3> QED
      BY <1>3, <1>4, <2>2, <2>7, <2>8, ExtendStructure DEF n
  <2>10. /\ blindings \o bs \in Seq(BlindingIds) /\ inuse \o q \in Seq(BOOLEAN)
         /\ Len(blindings \o bs) = n + m /\ Len(inuse \o q) = n + m
    <3>1. /\ blindings \o bs \in Seq(BlindingIds)
          /\ Len(blindings \o bs) = Len(blindings) + Len(bs)
      BY <1>3, <2>3, JoinedIds
    <3>2. inuse \o q \in Seq(BOOLEAN) /\ Len(inuse \o q) = Len(inuse) + Len(q)
      BY <1>3, <2>4, JoinedFlags
    <3> QED
      BY <1>3, <2>3, <2>4, <3>1, <3>2 DEF n
  <2>11. D \cup B \subseteq BlindingIds /\ D \subseteq D \cup B
    BY <1>3, <2>3 DEF Named
  <2> HIDE DEF B
  <2>12. Grown(Allocated(h, B), h, D, D \cup B, draws, used)
    <3> HIDE DEF D
    <3> QED
      BY <1>2, <1>3, AllocatedFacts
  <2>13. /\ objects' \in [D \cup B -> Blinding]
         /\ Drawn(objects', draws) /\ Behind(objects', used)
         /\ \A x \in D : objects'[x] = h[x]
    BY <2>5, <2>12 DEF Grown
  <2>14. /\ blindings' \in Seq(BlindingIds) /\ inuse' \in Seq(BOOLEAN)
         /\ Len(inuse') = Len(blindings') /\ Len(blindings') <= MAX_BLINDINGS_PER_RSA
         /\ Structure(call', blindings', inuse', D \cup B)
    BY <2>1, <2>2, <2>9, <2>10
  <2> QED
    BY <1>1, <2>7, <2>11, <2>13, <2>14, GetStep DEF h
<1>8. CASE TakeNothing(t, h)
  <2>1. /\ objects' = h /\ call' = [call EXCEPT ![t] = Idle]
        /\ blindings' = blindings /\ inuse' = inuse
    BY <1>8 DEF TakeNothing
  <2>2. /\ call' \in [Users -> Calls] /\ SameHold(call, call')
        /\ call'[t] = Idle /\ \A u \in Users : u # t => call'[u] = call[u]
    BY <1>4, <2>1, ReturnFacts
  <2>3. Structure(call', blindings, inuse, D)
    BY <1>3, <2>2, KeepStructure
  <2>4. call'[t].pc \in {"convert", "idle"}
    BY <2>2 DEF Idle
  <2> QED
    BY <1>1, <1>2, <1>3, <2>1, <2>2, <2>3, <2>4, GetStep DEF h
<1> QED
  BY <1>5, <1>6, <1>7, <1>8 DEF rsa_blinding_get, h

\* A blinding is given a factor of a new draw, or is squared: the factor is not
\* one that was used.
Renewed(h, id, b, d, e) ==
    \/ /\ e = d + 1
       /\ b = [counter |-> 0, draw |-> d + 1, squared |-> 0, inverse |-> TRUE]
    \/ /\ e = d /\ h[id].counter # BN_BLINDING_COUNTER - 1 /\ b = Squared(h[id])

DrawnBy(us, d) == \A f \in us : f.draw \in 1 .. d

Advanced(g, D, b, d, us) ==
    /\ d \in Nat /\ g \in [D -> Blinding] /\ Drawn(g, d) /\ Behind(g, us)
    /\ b.inverse = TRUE /\ Factor(b) \notin us /\ Behind(g, us \cup {Factor(b)})
    /\ DrawnBy(us \cup {Factor(b)}, d) /\ DrawnBy(us, d)
    /\ Factor(b) \in [draw : Nat, squared : Nat]

LEMMA SquaredFacts ==
    ASSUME NEW o \in Blinding, o.counter # BN_BLINDING_COUNTER - 1
    PROVE  /\ Squared(o) \in Blinding /\ Squared(o).draw = o.draw
           /\ Squared(o).squared = o.squared + 1 /\ Squared(o).inverse = o.inverse
           /\ Squared(o).counter = o.counter + 1
<1> DEFINE c == o.counter + 1
           q == o.squared + 1
<1>1. /\ o.counter \in 0 .. (BN_BLINDING_COUNTER - 1) /\ o.squared \in Nat
      /\ o.draw \in Nat /\ o.inverse \in BOOLEAN
  BY DEF Blinding
<1>2. c \in 0 .. (BN_BLINDING_COUNTER - 1) /\ q \in Nat
  BY <1>1, KeyAssumption
<1>3. Squared(o) = [o EXCEPT !.counter = c, !.squared = q]
  BY DEF Squared
<1> HIDE DEF c, q
<1>4. /\ Squared(o) \in Blinding /\ Squared(o).draw = o.draw
      /\ Squared(o).squared = q /\ Squared(o).inverse = o.inverse
      /\ Squared(o).counter = c
  BY <1>2, <1>3 DEF Blinding
<1> QED
  BY <1>4 DEF c, q

LEMMA RenewedFacts ==
    ASSUME NEW D, NEW h \in [D -> Blinding], NEW id \in D, NEW b, NEW d \in Nat,
           NEW e, NEW us \in SUBSET [draw : Nat, squared : Nat],
           Drawn(h, d), Behind(h, us), DrawnBy(us, d),
           Renewed(h, id, b, d, e)
    PROVE  Advanced([h EXCEPT ![id] = b], D, b, e, us)
<1> DEFINE g == [h EXCEPT ![id] = b]
           o == h[id]
           N == BN_BLINDING_COUNTER
<1>1. N \in Nat /\ N > 0 /\ DOMAIN h = D
  BY KeyAssumption
<1>2. /\ o.counter \in 0 .. (N - 1) /\ o.draw \in Nat /\ o.squared \in Nat
      /\ o.inverse \in BOOLEAN /\ o \in Blinding /\ o.draw <= d
      /\ o.counter # N - 1 => o.inverse = TRUE /\ o.draw # 0
  BY <1>1 DEF Blinding, Drawn
<1>3. /\ e \in Nat /\ d <= e /\ b \in Blinding /\ b.inverse = TRUE
      /\ b.draw \in Nat /\ b.draw # 0 /\ b.draw <= e /\ b.squared \in Nat
      /\ \/ b.draw = d + 1
         \/ b.draw = o.draw /\ b.squared = o.squared + 1
  <2>1. CASE /\ e = d + 1
             /\ b = [counter |-> 0, draw |-> d + 1, squared |-> 0, inverse |-> TRUE]
    <3> DEFINE m == d + 1
    <3>1. 0 \in 0 .. (N - 1) /\ m \in Nat
      BY <1>1
    <3>1a. b = [counter |-> 0, draw |-> m, squared |-> 0, inverse |-> TRUE]
      BY <2>1
    <3> HIDE DEF m
    <3>1b. b.draw = m /\ b.squared = 0 /\ b.inverse = TRUE /\ b \in Blinding
      BY <3>1, <3>1a DEF Blinding
    <3>2. b.draw = d + 1 /\ b.squared = 0 /\ b.inverse = TRUE /\ b \in Blinding
      BY <3>1b DEF m
    <3> QED
      BY <2>1, <3>2
  <2>2. CASE e = d /\ o.counter # N - 1 /\ b = Squared(o)
    <3>1. o \in Blinding /\ o.counter # BN_BLINDING_COUNTER - 1 /\ b = Squared(o)
      BY <1>2, <2>2
    <3> HIDE DEF o
    <3>2. /\ b.draw = o.draw /\ b.squared = o.squared + 1 /\ b.inverse = o.inverse
          /\ b \in Blinding
      BY <3>1, SquaredFacts
    <3> QED
      BY <1>2, <2>2, <3>2
  <2> QED
    BY <2>1, <2>2 DEF Renewed
<1>4. /\ DOMAIN g = D /\ g[id] = b /\ \A c \in D : c # id => g[c] = h[c]
      /\ g \in [D -> Blinding]
  BY <1>3
<1> HIDE DEF g
<1>5. \A c \in D : c # id => h[c].draw # b.draw /\ h[c].draw \in Nat /\ h[c].draw <= d
  <2> SUFFICES ASSUME NEW c \in D, c # id
               PROVE  h[c].draw # b.draw /\ h[c].draw \in Nat /\ h[c].draw <= d
    OBVIOUS
  <2>1. h[c].draw \in Nat /\ h[c].draw <= d
    BY <1>1 DEF Blinding, Drawn
  <2>2. CASE b.draw = d + 1
    BY <2>1, <2>2
  <2>3. CASE b.draw = o.draw
    BY <1>1, <1>3, <2>1, <2>3 DEF Drawn
  <2> QED
    BY <1>3, <2>1, <2>2, <2>3
<1>6. Drawn(g, e)
  <2>1. ASSUME NEW c \in D
        PROVE  /\ g[c].draw <= e
               /\ g[c].counter # BN_BLINDING_COUNTER - 1 =>
                    g[c].inverse = TRUE /\ g[c].draw # 0
    <3>1. CASE c = id
      BY <1>3, <1>4, <3>1
    <3>2. CASE c # id
      <4>1. /\ h[c].draw <= d /\ h[c].draw \in Nat
            /\ h[c].counter # BN_BLINDING_COUNTER - 1 =>
                 h[c].inverse = TRUE /\ h[c].draw # 0
        BY <1>1, <1>5, <3>2 DEF Drawn
      <4>2. h[c].draw <= e
        BY <1>3, <4>1
      <4> QED
        BY <1>4, <3>2, <4>1, <4>2
    <3> QED
      BY <3>1, <3>2
  <2>2. ASSUME NEW c \in D, NEW x \in D, g[c].draw = g[x].draw
        PROVE  c = x \/ g[c].draw = 0
    <3>1. CASE c # id /\ x # id
      BY <1>1, <1>4, <2>2, <3>1 DEF Drawn
    <3>2. CASE c = id \/ x = id
      BY <1>4, <1>5, <2>2, <3>2
    <3> QED
      BY <3>1, <3>2
  <2> QED
    BY <1>4, <2>1, <2>2 DEF Drawn
<1>7. \A f \in us : f.draw = b.draw => f.squared < b.squared /\ f.squared <= b.squared
  <2> SUFFICES ASSUME NEW f \in us, f.draw = b.draw
               PROVE  f.squared < b.squared /\ f.squared <= b.squared
    OBVIOUS
  <2>1. f.draw \in 1 .. d
    BY DEF DrawnBy
  <2>1a. f.draw # d + 1
    BY <2>1
  <2>2. b.draw = o.draw /\ b.squared = o.squared + 1
    BY <1>3, <2>1a
  <2>3. f.squared <= o.squared
    BY <1>1, <2>2 DEF Behind
  <2>4. f.squared \in Nat
    OBVIOUS
  <2> QED
    BY <1>2, <2>2, <2>3, <2>4
<1>8. ASSUME NEW c \in D, NEW f \in us, f.draw = g[c].draw
      PROVE  f.squared <= g[c].squared
  <2>1. CASE c = id
    BY <1>4, <1>7, <1>8, <2>1
  <2>2. CASE c # id
    BY <1>1, <1>4, <1>8, <2>2 DEF Behind
  <2> QED
    BY <2>1, <2>2
<1>9. Behind(g, us)
  BY <1>4, <1>8 DEF Behind
<1> DEFINE F == Factor(b)
<1>10. F.draw = b.draw /\ F.squared = b.squared /\ F \in [draw : Nat, squared : Nat]
  BY <1>3 DEF Factor
<1> HIDE DEF F
<1>11. F \notin us
  <2>1. ~(b.squared < b.squared)
    BY <1>3
  <2> QED
    BY <1>7, <1>10, <2>1
<1>12. Behind(g, us \cup {F})
  <2> SUFFICES ASSUME NEW c \in D, F.draw = g[c].draw
               PROVE  F.squared <= g[c].squared
    BY <1>4, <1>8 DEF Behind
  <2>1. c = id
    BY <1>4, <1>5, <1>10
  <2> QED
    BY <1>3, <1>4, <1>10, <2>1
<1>13. DrawnBy(us, e) /\ DrawnBy(us \cup {F}, e)
  <2>1. \A f \in us : f.draw \in 1 .. e
    BY <1>3 DEF DrawnBy
  <2>2. F.draw \in 1 .. e
    BY <1>3, <1>10
  <2> QED
    BY <2>1, <2>2 DEF DrawnBy
<1> QED
  BY <1>3, <1>4, <1>6, <1>9, <1>10, <1>11, <1>12, <1>13 DEF Advanced, F, g

\* The new blinding of bn_blinding_update.
LEMMA UpdatedFacts ==
    ASSUME KeyInv, NEW id \in DOMAIN objects, Update(id, Updated(objects[id])),
           blinding_fork_generation = generation
    PROVE  /\ objects' = [objects EXCEPT ![id] = Updated(objects[id])]
           /\ Advanced(objects', DOMAIN objects, Updated(objects[id]), draws', used)
<1> DEFINE b == Updated(objects[id])
           o == objects[id]
<1>1. /\ objects' = [objects EXCEPT ![id] = b]
      /\ draws' = IF b.counter = 0 THEN draws + 1 ELSE draws
  BY DEF Update
<1>2. /\ o \in Blinding /\ draws \in Nat /\ used \in SUBSET [draw : Nat, squared : Nat]
      /\ objects \in [DOMAIN objects -> Blinding]
      /\ Drawn(objects, draws) /\ Behind(objects, used) /\ DrawnBy(used, draws)
  BY DEF KeyInv, Typed, DrawnBy
<1>3. o.counter \in Nat /\ BN_BLINDING_COUNTER \in Nat
  BY <1>2, KeyAssumption DEF Blinding
<1>4. Renewed(objects, id, b, draws, draws')
  <2>1. CASE o.counter + 1 = BN_BLINDING_COUNTER
    <3>1. b = [counter |-> 0, draw |-> draws + 1, squared |-> 0, inverse |-> TRUE]
      BY <2>1 DEF Updated
    <3>2. b.counter = 0
      BY <3>1
    <3> QED
      BY <1>1, <3>1, <3>2 DEF Renewed
  <2>2. CASE o.counter + 1 # BN_BLINDING_COUNTER
    <3>1. b = Squared(o) /\ o.counter # BN_BLINDING_COUNTER - 1
      BY <1>3, <2>2 DEF Updated
    <3>2. b.counter = o.counter + 1
      <4> HIDE DEF b, o
      <4> QED
        BY <1>2, <3>1, SquaredFacts
    <3>3. b.counter # 0
      BY <1>3, <3>2
    <3> QED
      BY <1>1, <3>1, <3>3 DEF Renewed
  <2> QED
    BY <2>1, <2>2
<1> HIDE DEF b
<1>5. Advanced([objects EXCEPT ![id] = b], DOMAIN objects, b, draws', used)
  BY <1>2, <1>4, RenewedFacts
<1> QED
  BY <1>1, <1>5 DEF b

\* The blinding of thread t changes, and t goes on to pc.
LEMMA ConvertStep ==
    ASSUME KeyInv, NEW t \in Users, call[t].pc = "convert",
           NEW pc \in {"invert", "release"}, Proceed(t, pc),
           UNCHANGED <<frozen, derived, blindings, inuse, blinding_fork_generation,
                       generation>>,
           objects' \in [DOMAIN objects -> Blinding],
           \A b \in DOMAIN objects : b # call[t].blinding => objects'[b] = objects[b],
           pc = "invert" => objects'[call[t].blinding].inverse = TRUE,
           draws' \in Nat, used' \in SUBSET [draw : Nat, squared : Nat],
           Drawn(objects', draws'), Behind(objects', used'), DrawnBy(used', draws'),
           relinked' = FALSE
    PROVE  KeyInv'
<1>1. pc \in Pcs \ {"idle"} /\ Holding([pc |-> pc]) = Holding(call[t])
  BY DEF Pcs, Holding
<1>2. /\ call' \in [Users -> Calls] /\ SameHold(call, call')
      /\ call'[t].pc = pc /\ call'[t].blinding = call[t].blinding
      /\ \A u \in Users : u # t => call'[u] = call[u]
  BY <1>1, ProceedFacts
<1>3. DOMAIN objects' = DOMAIN objects
  OBVIOUS
<1>4. Structure(call', blindings, inuse, DOMAIN objects)
  BY <1>2, KeepStructure DEF KeyInv
<1>5. blinding_fork_generation = generation
  BY DEF KeyInv, Holding
<1>6. Typed'
  BY <1>2, <1>3 DEF KeyInv, Typed
<1>7. Inverses(call', objects')
  <2> SUFFICES ASSUME NEW u \in Users, call'[u].pc = "invert"
               PROVE  objects'[call'[u].blinding].inverse = TRUE
    BY DEF Inverses
  <2>1. CASE u = t
    BY <1>2, <2>1
  <2>2. CASE u # t
    <3>1. call'[u] = call[u] /\ Holding(call[u]) /\ Holding(call[t])
      BY <1>2, <2>2 DEF Holding
    <3>2. call[u].blinding # call[t].blinding /\ call[u].blinding \in DOMAIN objects
      BY <2>2, <3>1 DEF KeyInv, Structure, Apart, Held
    <3> QED
      BY <3>1, <3>2 DEF KeyInv, Inverses
  <2> QED
    BY <2>1, <2>2
<1>8. Derivation'
  <2>1. derived = Steps
    BY DEF KeyInv, Derivation
  <2> QED
    BY <2>1 DEF Derivation
<1> QED
  BY <1>3, <1>4, <1>5, <1>6, <1>7, <1>8 DEF KeyInv, DrawnBy

LEMMA FailedFacts ==
    ASSUME NEW D, NEW h \in [D -> Blinding], NEW id \in D, NEW d \in Nat, NEW us,
           Drawn(h, d), Behind(h, us)
    PROVE  LET g == [h EXCEPT ![id] = Failed(h[id])]
           IN  g \in [D -> Blinding] /\ Drawn(g, d) /\ Behind(g, us)
<1> DEFINE o == h[id]
           b == Failed(o)
           g == [h EXCEPT ![id] = b]
<1>1. BN_BLINDING_COUNTER - 1 \in 0 .. (BN_BLINDING_COUNTER - 1)
  BY KeyAssumption
<1>2. /\ b \in Blinding /\ b.draw = o.draw /\ b.squared = o.squared
      /\ b.counter = BN_BLINDING_COUNTER - 1
  BY <1>1 DEF Blinding, Failed
<1>3. DOMAIN h = D
  OBVIOUS
<1> HIDE DEF b
<1>4. /\ g \in [D -> Blinding] /\ DOMAIN g = D /\ g[id] = b
      /\ \A c \in D : c # id => g[c] = h[c]
  BY <1>2
<1> HIDE DEF g
<1>5. \A c \in D : /\ g[c].draw = h[c].draw /\ g[c].squared = h[c].squared
                   /\ g[c].counter # BN_BLINDING_COUNTER - 1 => g[c] = h[c]
  BY <1>2, <1>4
<1>6. Drawn(g, d)
  <2>1. ASSUME NEW c \in D
        PROVE  /\ g[c].draw <= d
               /\ g[c].counter # BN_BLINDING_COUNTER - 1 =>
                    g[c].inverse = TRUE /\ g[c].draw # 0
    BY <1>3, <1>5 DEF Drawn
  <2>2. ASSUME NEW c \in D, NEW x \in D, g[c].draw = g[x].draw
        PROVE  c = x \/ g[c].draw = 0
    BY <1>3, <1>5, <2>2 DEF Drawn
  <2> QED
    BY <1>4, <2>1, <2>2 DEF Drawn
<1>7. Behind(g, us)
  BY <1>3, <1>4, <1>5 DEF Behind
<1> QED
  BY <1>4, <1>6, <1>7 DEF g, b

LEMMA ConvertInv ==
    ASSUME KeyInv, NEW t \in Users, BN_BLINDING_convert(t)
    PROVE  KeyInv'
<1> DEFINE id == call[t].blinding
           D == DOMAIN objects
           b == Updated(objects[id])
<1>1. /\ call[t].pc = "convert"
      /\ UNCHANGED <<frozen, derived, blindings, inuse, blinding_fork_generation,
                     generation>>
  BY DEF BN_BLINDING_convert
<1>2. id \in D /\ blinding_fork_generation = generation
  BY <1>1 DEF KeyInv, Structure, Held, Holding
<1>3. /\ objects \in [D -> Blinding] /\ draws \in Nat
      /\ used \in SUBSET [draw : Nat, squared : Nat]
      /\ Drawn(objects, draws) /\ Behind(objects, used) /\ DrawnBy(used, draws)
      /\ relinked = FALSE
  BY <1>2 DEF KeyInv, Typed, DrawnBy
<1>4. "invert" \in {"invert", "release"} /\ "release" \in {"invert", "release"}
      /\ "release" # "invert"
  OBVIOUS
<1>5. ASSUME Update(id, b)
      PROVE  /\ Advanced(objects', D, b, draws', used) /\ objects'[id] = b
             /\ \A c \in D : c # id => objects'[c] = objects[c]
  <2>1. objects' = [objects EXCEPT ![id] = b] /\ Advanced(objects', D, b, draws', used)
    BY <1>2, <1>5, UpdatedFacts
  <2> QED
    BY <1>2, <1>3, <2>1
<1>6. CASE Hide(t, id, b)
  <2> HIDE DEF b
  <2>1. /\ Update(id, b) /\ used' = used \cup {Factor(b)}
        /\ relinked' = (relinked \/ Factor(b) \in used) /\ Proceed(t, "invert")
    BY <1>6 DEF Hide
  <2>2. /\ Advanced(objects', D, b, draws', used) /\ objects'[id] = b
        /\ \A c \in D : c # id => objects'[c] = objects[c]
    BY <1>5, <2>1
  <2>3. /\ draws' \in Nat /\ objects' \in [D -> Blinding] /\ Drawn(objects', draws')
        /\ objects'[id].inverse = TRUE /\ relinked' = FALSE
        /\ Behind(objects', used') /\ DrawnBy(used', draws')
        /\ used' \in SUBSET [draw : Nat, squared : Nat]
    BY <1>3, <2>1, <2>2 DEF Advanced
  <2> QED
    BY <1>1, <1>4, <2>1, <2>2, <2>3, ConvertStep
<1>7. CASE /\ objects' = [objects EXCEPT ![id] = Failed(objects[id])]
           /\ Proceed(t, "release") /\ UNCHANGED FactorVars
  <2>1. draws' = draws /\ used' = used /\ relinked' = relinked
    BY <1>7 DEF FactorVars
  <2>2. /\ objects' \in [D -> Blinding] /\ Drawn(objects', draws)
        /\ Behind(objects', used)
    <3> HIDE DEF id, D
    <3>1. LET g == [objects EXCEPT ![id] = Failed(objects[id])]
          IN  g \in [D -> Blinding] /\ Drawn(g, draws) /\ Behind(g, used)
      BY <1>2, <1>3, FailedFacts
    <3> QED
      BY <1>7, <3>1
  <2>3. \A c \in D : c # id => objects'[c] = objects[c]
    BY <1>3, <1>7
  <2> QED
    BY <1>1, <1>3, <1>4, <1>7, <2>1, <2>2, <2>3, ConvertStep
<1>8. CASE Update(id, b) /\ Proceed(t, "release") /\ UNCHANGED <<used, relinked>>
  <2> HIDE DEF b
  <2>1. /\ Advanced(objects', D, b, draws', used)
        /\ \A c \in D : c # id => objects'[c] = objects[c]
    BY <1>5, <1>8
  <2>2. /\ draws' \in Nat /\ objects' \in [D -> Blinding] /\ Drawn(objects', draws')
        /\ relinked' = FALSE /\ Behind(objects', used') /\ DrawnBy(used', draws')
        /\ used' \in SUBSET [draw : Nat, squared : Nat]
    BY <1>3, <1>8, <2>1 DEF Advanced
  <2> QED
    BY <1>1, <1>4, <1>8, <2>1, <2>2, ConvertStep
<1> QED
  BY <1>6, <1>7, <1>8 DEF BN_BLINDING_convert

-----------------------------------------------------------------------------
(* Releasing a blinding, forks, and the end of the key.                    *)

Within(g, h, E) == \A b \in E : g[b] = h[b]

LEMMA RestrictFacts ==
    ASSUME NEW D, NEW E \in SUBSET D, NEW h \in [D -> Blinding], NEW d, NEW us,
           NEW g \in [E -> Blinding], Within(g, h, E), Drawn(h, d), Behind(h, us)
    PROVE  Drawn(g, d) /\ Behind(g, us)
<1>1. DOMAIN h = D /\ DOMAIN g = E /\ \A b \in E : g[b] = h[b] /\ b \in D
  BY DEF Within
<1>2. Drawn(g, d)
  BY <1>1 DEF Drawn
<1>3. Behind(g, us)
  BY <1>1 DEF Behind
<1> QED
  BY <1>2, <1>3

LEMMA ReleaseInv ==
    ASSUME KeyInv, NEW t \in Users, rsa_blinding_release(t)
    PROVE  KeyInv'
<1> DEFINE b == call[t].blinding
           D == DOMAIN objects
<1>1. /\ call[t].pc = "release" /\ call' = [call EXCEPT ![t] = Idle]
      /\ frozen' = frozen /\ derived' = derived /\ blindings' = blindings
      /\ blinding_fork_generation' = blinding_fork_generation
      /\ generation' = generation /\ draws' = draws /\ used' = used
      /\ relinked' = relinked
  BY DEF rsa_blinding_release, FactorVars
<1>2. Idle \in Calls /\ Idle.pc = "idle"
  BY DEF Idle, Calls, Pcs
<1>3. /\ call' \in [Users -> Calls] /\ call'[t] = Idle
      /\ \A u \in Users : u # t => call'[u] = call[u]
  BY <1>1, <1>2 DEF KeyInv, Typed
<1>4. Holding(call[t]) /\ blinding_fork_generation = generation
  BY <1>1 DEF KeyInv, Holding
<1>5. /\ Structure(call, blindings, inuse, D) /\ Len(inuse) = Len(blindings)
      /\ inuse \in Seq(BOOLEAN) /\ blindings \in Seq(BlindingIds)
      /\ Len(blindings) <= MAX_BLINDINGS_PER_RSA /\ objects \in [D -> Blinding]
      /\ Drawn(objects, draws) /\ Behind(objects, used)
      /\ Len(blindings) \in Nat /\ MAX_BLINDINGS_PER_RSA \in Nat
  BY <1>4, KeyAssumption DEF KeyInv, Typed
<1>6. Derivation'
  <2>1. derived = Steps
    BY <1>1 DEF KeyInv, Derivation
  <2> QED
    BY <1>1, <2>1 DEF Derivation
<1>7. Held(call[t], blindings, inuse, D)
  BY <1>5 DEF Structure
<1>8. CASE /\ call[t].index \in 1 .. Len(blindings)
           /\ blindings[call[t].index] = b
  <2> DEFINE i == call[t].index
  <2>1. ~(i > MAX_BLINDINGS_PER_RSA) /\ i # MAX_BLINDINGS_PER_RSA + 1
    BY <1>5, <1>8
  <2>2. inuse' = [inuse EXCEPT ![i] = FALSE] /\ objects' = objects
    BY <2>1 DEF rsa_blinding_release
  <2>3. Structure(call', blindings, inuse', D)
    <3> HIDE DEF D
    <3> QED
      BY <1>3, <1>4, <1>5, <1>8, <2>1, <2>2, ReleaseStructure
  <2>4. inuse' \in Seq(BOOLEAN) /\ Len(inuse') = Len(blindings)
    BY <1>5, <1>8, <2>2
  <2>5. Inverses(call', objects)
    BY <1>2, <1>3 DEF KeyInv, Inverses
  <2>6. Typed'
    BY <1>1, <1>3, <2>2, <2>4 DEF KeyInv, Typed
  <2> QED
    BY <1>1, <1>4, <1>6, <2>2, <2>3, <2>5, <2>6 DEF KeyInv
<1>9. CASE call[t].index = MAX_BLINDINGS_PER_RSA + 1 /\ ~In(blindings, b)
  <2>1. call[t].index > MAX_BLINDINGS_PER_RSA
    BY <1>5, <1>9
  <2>2. objects' = [x \in D \ {b} |-> objects[x]] /\ inuse' = inuse
    BY <2>1 DEF rsa_blinding_release, Without
  <2>3. Structure(call', blindings, inuse, D \ {b})
    <3>1. Structure(call', blindings, inuse, D \ {call[t].blinding})
      <4> HIDE DEF D
      <4> QED
        BY <1>3, <1>4, <1>5, <1>9, FreeStructure
    <3> QED
      BY <3>1
  <2>4. /\ objects' \in [D \ {b} -> Blinding] /\ Drawn(objects', draws)
        /\ Behind(objects', used) /\ DOMAIN objects' = D \ {b}
    <3> DEFINE E == D \ {b}
    <3>1. E \in SUBSET D
      OBVIOUS
    <3>2. objects' \in [E -> Blinding] /\ Within(objects', objects, E)
      BY <1>5, <2>2 DEF Within
    <3> HIDE DEF D, E
    <3>3. Drawn(objects', draws) /\ Behind(objects', used)
      BY <1>5, <3>1, <3>2, RestrictFacts
    <3> QED
      BY <3>2, <3>3 DEF E
  <2>5. Inverses(call', objects')
    <3> SUFFICES ASSUME NEW u \in Users, call'[u].pc = "invert"
                 PROVE  objects'[call'[u].blinding].inverse = TRUE
      BY DEF Inverses
    <3>1. u # t /\ call'[u] = call[u] /\ Holding(call[u])
      BY <1>2, <1>3 DEF Holding
    <3>2. call[u].blinding # b /\ call[u].blinding \in D
      BY <1>4, <1>5, <3>1 DEF Structure, Apart, Held
    <3> QED
      BY <2>2, <3>1, <3>2 DEF KeyInv, Inverses
  <2>6. Typed'
    BY <1>1, <1>3, <2>2, <2>4 DEF KeyInv, Typed
  <2> QED
    BY <1>1, <1>4, <1>6, <2>2, <2>3, <2>4, <2>5, <2>6 DEF KeyInv
<1> QED
  BY <1>4, <1>7, <1>8, <1>9 DEF Held

LEMMA ExclusiveFacts ==
    ASSUME Exclusive
    PROVE  \A t \in Users : /\ ~Holding(call[t]) /\ call[t].pc = "idle"
                            /\ call[t].blinding = NoBlinding
BY DEF Exclusive, Holding, Idle

LEMMA ForkInv ==
    ASSUME KeyInv, Fork
    PROVE  KeyInv'
<1>1. /\ frozen' = frozen /\ derived' = derived /\ blindings' = blindings
      /\ inuse' = inuse /\ objects' = objects
      /\ blinding_fork_generation' = blinding_fork_generation
      /\ generation' = generation + 1 /\ draws' = draws /\ relinked' = relinked
      /\ call' = call /\ Exclusive
  BY DEF Fork, CacheVars
<1>2. \A t \in Users : ~Holding(call[t])
  BY <1>1, ExclusiveFacts
<1>3. generation \in Nat /\ blinding_fork_generation <= generation
      /\ blinding_fork_generation \in Nat /\ draws \in Nat
  BY DEF KeyInv, Typed
<1>4. /\ generation' \in Nat /\ blinding_fork_generation <= generation'
      /\ blinding_fork_generation # generation'
  BY <1>1, <1>3
<1>5. ASSUME NEW f \in used'
      PROVE  f.draw \in 1 .. draws /\ f \in [draw : Nat, squared : Nat]
  <2>1. CASE f \in used
    BY <2>1 DEF KeyInv, Typed
  <2>2. CASE f \notin used
    <3>1. PICK b \in {x \in DOMAIN objects : objects[x].draw # 0},
               n \in 0 .. (BN_BLINDING_COUNTER - 1) :
                 f = [draw |-> objects[b].draw, squared |-> n]
      BY <1>5, <2>2 DEF Fork
    <3>2. b \in DOMAIN objects /\ objects[b] \in Blinding /\ objects[b].draw # 0
          /\ objects[b].draw <= draws
      BY <3>1 DEF KeyInv, Typed, Drawn
    <3>3. objects[b].draw \in Nat /\ n \in Nat
      BY <3>2, KeyAssumption DEF Blinding
    <3>4. f.draw = objects[b].draw /\ f \in [draw : Nat, squared : Nat]
      BY <3>1, <3>3
    <3> QED
      BY <1>3, <3>2, <3>3, <3>4
  <2> QED
    BY <2>1, <2>2
<1>6. Typed'
  BY <1>1, <1>4, <1>5 DEF KeyInv, Typed
<1>7. Derivation'
  BY <1>1 DEF KeyInv, Derivation
<1> QED
  BY <1>1, <1>2, <1>4, <1>5, <1>6, <1>7 DEF KeyInv

LEMMA InvalidateInv ==
    ASSUME KeyInv, rsa_invalidate_key
    PROVE  KeyInv'
<1>1. /\ frozen' = FALSE /\ derived' = 0 /\ blindings' = <<>> /\ inuse' = <<>>
      /\ blinding_fork_generation' = 0 /\ generation' = generation
      /\ draws' = draws /\ used' = used /\ relinked' = relinked
      /\ call' = call /\ Exclusive
  BY DEF rsa_invalidate_key, FactorVars
<1>2. \A t \in Users : /\ ~Holding(call[t]) /\ call[t].pc = "idle"
                       /\ call[t].blinding = NoBlinding
  BY <1>1, ExclusiveFacts
<1>3. \A b \in DOMAIN objects : \E i \in DOMAIN blindings : blindings[i] = b
  <2>1. DOMAIN blindings = 1 .. Len(blindings)
    BY DEF KeyInv, Typed
  <2> QED
    BY <1>2, <2>1 DEF KeyInv, Structure, Reachable, In
<1>4. DOMAIN objects' = {} /\ objects' \in [{} -> Blinding]
  BY <1>3 DEF rsa_invalidate_key
<1>5. <<>> \in Seq(BlindingIds) /\ <<>> \in Seq(BOOLEAN) /\ Len(<<>>) = 0
  OBVIOUS
<1>6. Structure(call', <<>>, <<>>, {})
  <2>1. \A t \in Users : Held(call[t], <<>>, <<>>, {})
    BY <1>1, <1>2 DEF Held, Exclusive
  <2>2. Array(<<>>, {}) /\ Owned(call, <<>>)
    BY <1>5 DEF Array, Owned
  <2>3. Apart(call) /\ Reachable(call, <<>>, {})
    BY <1>2 DEF Apart, Reachable
  <2> QED
    BY <1>1, <2>1, <2>2, <2>3 DEF Structure
<1>7. Typed'
  <2>1. 0 \in 0 .. Steps /\ 0 <= MAX_BLINDINGS_PER_RSA /\ 0 <= generation
    BY KeyAssumption DEF Steps, KeyInv, Typed
  <2> QED
    BY <1>1, <1>4, <1>5, <2>1 DEF KeyInv, Typed
<1>8. /\ Drawn(objects', draws) /\ Behind(objects', used)
      /\ Inverses(call', objects')
  BY <1>1, <1>2, <1>4 DEF Drawn, Behind, Inverses
<1>9. Derivation'
  BY <1>1, <1>2 DEF Derivation
<1> QED
  BY <1>1, <1>2, <1>4, <1>6, <1>7, <1>8, <1>9 DEF KeyInv

LEMMA KeyInitInv == KeyInit => KeyInv
<1> SUFFICES ASSUME KeyInit PROVE KeyInv
  OBVIOUS
<1>1. /\ frozen = FALSE /\ derived = 0 /\ blindings = <<>> /\ inuse = <<>>
      /\ blinding_fork_generation = 0 /\ generation = 1 /\ draws = 0 /\ used = {}
      /\ relinked = FALSE /\ objects = [b \in {} |-> NoBlinding]
      /\ call = [t \in Users |-> Idle]
  BY DEF KeyInit
<1>2. /\ DOMAIN objects = {} /\ objects \in [{} -> Blinding]
      /\ \A t \in Users : call[t] = Idle
  BY <1>1
<1>3. Idle \in Calls /\ Idle.pc = "idle" /\ Idle.blinding = NoBlinding /\ ~Holding(Idle)
  BY DEF Idle, Calls, Pcs, Holding
<1>4. <<>> \in Seq(BlindingIds) /\ <<>> \in Seq(BOOLEAN) /\ Len(<<>>) = 0
  OBVIOUS
<1>5. Typed
  <2>1. 0 \in 0 .. Steps /\ 0 <= MAX_BLINDINGS_PER_RSA /\ 1 \in Nat /\ 0 \in Nat
    BY KeyAssumption DEF Steps
  <2>2. call \in [Users -> Calls]
    BY <1>1, <1>3
  <2> QED
    <3>1. /\ DOMAIN objects \subseteq BlindingIds
          /\ objects \in [DOMAIN objects -> Blinding]
      BY <1>2
    <3>2. /\ frozen \in BOOLEAN /\ derived \in 0 .. Steps
          /\ blindings \in Seq(BlindingIds) /\ inuse \in Seq(BOOLEAN)
          /\ Len(inuse) = Len(blindings) /\ Len(blindings) <= MAX_BLINDINGS_PER_RSA
      BY <1>1, <1>4, <2>1
    <3>3. /\ blinding_fork_generation \in Nat /\ generation \in Nat
          /\ blinding_fork_generation <= generation
          /\ draws \in Nat /\ used \in SUBSET [draw : Nat, squared : Nat]
      BY <1>1
    <3> QED
      BY <2>2, <3>1, <3>2, <3>3 DEF Typed
<1>6. Structure(call, <<>>, <<>>, {})
  <2>1. \A t \in Users : Held(call[t], <<>>, <<>>, {})
    BY <1>2, <1>3 DEF Held
  <2>2. Array(<<>>, {}) /\ Owned(call, <<>>)
    BY <1>4 DEF Array, Owned
  <2>3. Apart(call) /\ Reachable(call, <<>>, {})
    BY <1>2, <1>3 DEF Apart, Reachable
  <2> QED
    BY <2>1, <2>2, <2>3 DEF Structure
<1>7. Drawn(objects, draws) /\ Behind(objects, used) /\ Inverses(call, objects)
  BY <1>2, <1>3 DEF Drawn, Behind, Inverses
<1>8. Derivation
  BY <1>1, <1>2, <1>3 DEF Derivation
<1>9. \A t \in Users : ~Holding(call[t])
  BY <1>2, <1>3
<1> QED
  BY <1>1, <1>2, <1>5, <1>6, <1>7, <1>8, <1>9 DEF KeyInv

LEMMA KeyNextInv == KeyInv /\ [KeyNext]_KeyVars => KeyInv'
<1> SUFFICES ASSUME KeyInv, [KeyNext]_KeyVars PROVE KeyInv'
  OBVIOUS
<1>1. CASE Fork
  BY <1>1, ForkInv
<1>2. CASE rsa_invalidate_key
  BY <1>2, InvalidateInv
<1>3. ASSUME NEW t \in Users, ReadFrozen(t) PROVE KeyInv'
  BY <1>3, ReadFrozenInv
<1>4. ASSUME NEW t \in Users, Freeze(t) PROVE KeyInv'
  BY <1>4, FreezeInv
<1>5. ASSUME NEW t \in Users, rsa_blinding_get(t) PROVE KeyInv'
  BY <1>5, GetInv
<1>6. ASSUME NEW t \in Users, BN_BLINDING_convert(t) PROVE KeyInv'
  BY <1>6, ConvertInv
<1>7. ASSUME NEW t \in Users, Transform(t) PROVE KeyInv'
  BY <1>7, TransformInv
<1>8. ASSUME NEW t \in Users, rsa_blinding_release(t) PROVE KeyInv'
  BY <1>8, ReleaseInv
<1>9. CASE UNCHANGED KeyVars
  <2>1. /\ frozen' = frozen /\ derived' = derived /\ blindings' = blindings
        /\ inuse' = inuse /\ blinding_fork_generation' = blinding_fork_generation
        /\ objects' = objects /\ generation' = generation /\ draws' = draws
        /\ used' = used /\ relinked' = relinked /\ call' = call
    BY <1>9 DEF KeyVars
  <2>2. Typed' /\ Derivation'
    BY <2>1 DEF KeyInv, Typed, Derivation
  <2> QED
    BY <2>1, <2>2 DEF KeyInv
<1> QED
  BY <1>1, <1>2, <1>3, <1>4, <1>5, <1>6, <1>7, <1>8, <1>9 DEF KeyNext

-----------------------------------------------------------------------------
\* The inductive invariant of the key, for any number of threads, any array
\* size and any counter limit.
THEOREM KeyInvariant == KeySpec => []KeyInv
BY KeyInitInv, KeyNextInv, PTL DEF KeySpec

\* The key, its cache and the calls keep their types, and the two arrays of
\* the cache their common length below MAX_BLINDINGS_PER_RSA.
THEOREM KeyTypes == KeySpec => []KeyTypeOK
<1>1. KeyInv => KeyTypeOK
  <2> SUFFICES ASSUME KeyInv PROVE KeyTypeOK
    OBVIOUS
  <2>1. \A t \in Users : call[t].blinding \in DOMAIN objects \cup {NoBlinding}
    BY DEF KeyInv, Structure, Held
  <2>2. \A b \in DOMAIN objects : objects[b].counter \in 0 .. (BN_BLINDING_COUNTER - 1)
    BY DEF KeyInv, Typed, Blinding
  <2> QED
    BY <2>1, <2>2 DEF KeyInv, Typed, KeyTypeOK
<1> QED
  BY <1>1, KeyInvariant, PTL

\* Two threads in rsa_default_private_transform never use one BN_BLINDING,
\* whatever rsa_blinding_get found: a free place, a longer array, or none.
THEOREM NotShared == KeySpec => []BlindingNotShared
<1>1. KeyInv => BlindingNotShared
  <2> SUFFICES ASSUME KeyInv, NEW t \in Users, NEW u \in Users,
                      call[t].blinding = call[u].blinding,
                      call[t].blinding # NoBlinding
               PROVE  t = u
    BY DEF BlindingNotShared
  <2>1. Holding(call[t]) /\ Holding(call[u])
    BY DEF KeyInv, Structure, Held
  <2> QED
    BY <2>1 DEF KeyInv, Structure, Apart
<1> QED
  BY <1>1, KeyInvariant, PTL

\* No blinding factor of BN_BLINDING_convert hides two inputs, in this process
\* or in the one it was forked from.
THEOREM UsedOnce == KeySpec => []FactorUsedOnce
<1>1. KeyInv => FactorUsedOnce
  BY DEF KeyInv, FactorUsedOnce
<1> QED
  BY <1>1, KeyInvariant, PTL

\* BN_BLINDING_invert multiplies with the inverse of the factor that hid the
\* input, also after an update that failed.
THEOREM Inverted == KeySpec => []InverseMatches
<1>1. KeyInv => InverseMatches
  BY Zenon DEF KeyInv, Inverses, InverseMatches
<1> QED
  BY <1>1, KeyInvariant, PTL

\* A thread past freeze_private_key finds every value it derives, also when it
\* read private_key_frozen without the write lock or an earlier call failed.
THEOREM Derived == KeySpec => []DerivedWhenUsed
<1>1. KeyInv => DerivedWhenUsed
  BY DEF KeyInv, Derivation, DerivedWhenUsed
<1> QED
  BY <1>1, KeyInvariant, PTL

\* When no thread uses the key, rsa_blinding_release has given back every
\* place of the array and freed every blinding outside it.
THEOREM AtRest == KeySpec => []CacheAtRest
<1>1. KeyInv => CacheAtRest
  <2> SUFFICES ASSUME KeyInv, Exclusive
               PROVE  /\ DOMAIN objects = {blindings[i] : i \in DOMAIN blindings}
                      /\ \A i \in DOMAIN inuse : ~inuse[i]
    BY DEF CacheAtRest
  <2>1. \A t \in Users : ~Holding(call[t])
    BY ExclusiveFacts
  <2>2. DOMAIN blindings = 1 .. Len(blindings) /\ DOMAIN inuse = 1 .. Len(inuse)
    BY DEF KeyInv, Typed
  <2>3. \A b \in DOMAIN objects : \E i \in DOMAIN blindings : blindings[i] = b
    BY <2>1, <2>2 DEF KeyInv, Structure, Reachable, In
  <2>4. \A i \in DOMAIN blindings : blindings[i] \in DOMAIN objects
    BY <2>2 DEF KeyInv, Structure, Array
  <2>5. \A i \in DOMAIN inuse : inuse[i] \in BOOLEAN /\ inuse[i] # TRUE
    <3>1. inuse \in Seq(BOOLEAN) /\ Owned(call, inuse)
      BY DEF KeyInv, Structure, Typed
    <3>2. \A i \in 1 .. Len(inuse) : inuse[i] \in BOOLEAN
      BY <3>1
    <3>3. \A i \in 1 .. Len(inuse) : inuse[i] # TRUE
      BY <2>1, <3>1, Zenon DEF Owned
    <3> QED
      BY <2>2, <3>2, <3>3
  <2>6. \A i \in DOMAIN inuse : inuse[i] = FALSE
    BY <2>5
  <2>7. \A i \in DOMAIN inuse : ~inuse[i]
    BY <2>6, Zenon
  <2>8. DOMAIN objects = {blindings[i] : i \in DOMAIN blindings}
    BY <2>3, <2>4
  <2> QED
    BY <2>7, <2>8, Zenon
<1> QED
  BY <1>1, KeyInvariant, PTL
=============================================================================
