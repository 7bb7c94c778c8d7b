---------------------------- MODULE OverlayProofs ----------------------------
(***************************************************************************)
(* Proofs about the overlay, for any names, any base tree of depth two and *)
(* any bounds: what is stored and what the maps hold stays well typed      *)
(* whatever statement of a handler fails, and over every remount; then the *)
(* invariant WhiteoutHidesBaseOnly rests on, and lemmas about its parts.   *)
(***************************************************************************)
EXTENDS OverlayFS, FiniteSetTheorems, WellFoundedInduction, TLAPS

\* What an induction over the numbers below rests on.
LEMMA LeastElement ==
    ASSUME NEW T \in SUBSET Nat, T # {}
    PROVE  \E x \in T : \A y \in T : x <= y
PROOF
  <1> DEFINE R == OpToRel(<, Nat)
  <1>1. IsWellFoundedOn(R, Nat)
    BY NatLessThanWellFounded
  <1>2. PICK x \in T : \A y \in T : ~(<<y, x>> \in R)
    <2> HIDE DEF R
    <2> QED BY <1>1, WFMin
  <1>3. R = {z \in Nat \X Nat : z[1] < z[2]}
    BY DEF OpToRel
  <1>4. ASSUME NEW y \in T PROVE x <= y
    <2> HIDE DEF R
    <2>1. <<y, x>> \notin R
      BY <1>2
    <2> QED BY <1>3, <2>1
  <1> QED BY <1>4

\* Paths of any length, and those that name something below the root.
AnyPath == Seq(Names)
Named == Seq(Names) \ {<<>>}

LEMMA IsPath ==
    ASSUME NEW n \in Nat, NEW p \in [1..n -> Names]
    PROVE  p \in AnyPath /\ Len(p) = n
BY DEF AnyPath

LEMMA PathsAre == \A p \in Paths : p \in Named /\ Len(p) \in {1, 2}
PROOF
  <1>1. \A p \in AnyPath : Len(p) \in {1, 2} => p \in Named
    BY DEF AnyPath, Named
  <1>2. \A p \in [1..1 -> Names] : p \in AnyPath /\ Len(p) = 1
    BY IsPath
  <1>3. \A p \in [1..2 -> Names] : p \in AnyPath /\ Len(p) = 2
    BY IsPath
  <1> QED BY <1>1, <1>2, <1>3 DEF Paths

\* A path with one more name, and without its last one.
LEMMA PathLonger ==
    ASSUME NEW p \in AnyPath, NEW n \in Names
    PROVE  /\ Append(p, n) \in Named /\ Append(p, n) \in AnyPath /\ Front(Append(p, n)) = p /\ Last(Append(p, n)) = n
           /\ Len(Append(p, n)) = Len(p) + 1
PROOF
  <1>1. p \in Seq(Names) /\ Len(p) \in Nat
    BY DEF AnyPath
  <1> DEFINE q == Append(p, n)
  <1>2. /\ q \in Seq(Names) /\ Len(q) = Len(p) + 1 /\ q[Len(p) + 1] = n
        /\ \A i \in 1..Len(p) : q[i] = p[i]
    BY <1>1
  <1> HIDE DEF q
  <1>3. q # <<>>
    BY <1>1, <1>2
  <1>4. Last(q) = n
    BY <1>2 DEF Last
  <1>5. Front(q) = [i \in 1..Len(p) |-> q[i]]
    <2>1. Len(q) - 1 = Len(p)
      BY <1>1, <1>2
    <2>2. Front(q) = SubSeq(q, 1, Len(p))
      BY <2>1 DEF Front
    <2>3. SubSeq(q, 1, Len(p)) \in Seq(Names) /\ Len(SubSeq(q, 1, Len(p))) = Len(p)
      BY <1>1, <1>2
    <2>4. \A i \in 1..Len(p) : SubSeq(q, 1, Len(p))[i] = q[i]
      BY <1>1, <1>2
    <2> DEFINE s == SubSeq(q, 1, Len(p))
    <2>5. s = [i \in 1..Len(s) |-> s[i]]
      <3> HIDE DEF s
      <3> QED BY <2>3 DEF s
    <2> HIDE DEF s
    <2> QED BY <2>2, <2>3, <2>4, <2>5 DEF s
  <1>6. p = [i \in 1..Len(p) |-> p[i]]
    BY <1>1
  <1>7. Front(q) = p
    BY <1>2, <1>5, <1>6
  <1> QED BY <1>2, <1>3, <1>4, <1>7 DEF Named, AnyPath, q

LEMMA PathParts ==
    ASSUME NEW p \in Named
    PROVE  Front(p) \in AnyPath /\ Last(p) \in Names /\ p = Append(Front(p), Last(p)) /\ Len(Front(p)) = Len(p) - 1
PROOF
  <1>1. p \in Seq(Names) /\ p # <<>>
    BY DEF Named
  <1>2. PICK q \in Seq(Names), n \in Names : p = Append(q, n)
    <2>1. Len(p) \in Nat /\ Len(p) # 0 /\ p[Len(p)] \in Names
      BY <1>1
    <2>2. SubSeq(p, 1, Len(p) - 1) \in Seq(Names) /\ p = Append(SubSeq(p, 1, Len(p) - 1), p[Len(p)])
      BY <1>1, <2>1
    <2> QED BY <2>1, <2>2
  <1>3. Front(p) = q /\ Last(p) = n /\ Len(p) = Len(q) + 1 /\ Len(q) \in Nat
    BY <1>2, PathLonger DEF AnyPath
  <1> QED BY <1>2, <1>3 DEF AnyPath

-----------------------------------------------------------------------------
(* A walk through the delta, for any entries E.                            *)

IsWalk(d, E, p) ==
    d = [i \in 0..Len(p) |->
           IF i = 0 THEN 1 ELSE IF <<d[i - 1], p[i]>> \in DOMAIN E THEN E[<<d[i - 1], p[i]>>] ELSE None]

WalkIn(E, p) ==
    LET d[i \in 0..Len(p)] ==
          IF i = 0 THEN 1
          ELSE IF <<d[i - 1], p[i]>> \in DOMAIN E THEN E[<<d[i - 1], p[i]>>] ELSE None
    IN d[Len(p)]

LEMMA WalkIsIn == \A p : DeltaWalk(p) = WalkIn(ent, p)
BY DEF DeltaWalk, WalkIn

LEMMA SetInduction ==
    ASSUME NEW S, 0 \in S, \A n \in Nat : n \in S => n + 1 \in S
    PROVE  \A n \in Nat : n \in S
PROOF
  <1> SUFFICES ASSUME NEW T, T = Nat \ S, T # {} PROVE FALSE
    OBVIOUS
  <1>1. PICK x \in T : \A y \in T : x <= y
    BY LeastElement
  <1>2. x - 1 \in Nat /\ x - 1 \in S
    BY <1>1
  <1> QED BY <1>2

\* Extending the walk of p to one of Append(p, n).
LEMMA WalkGrows ==
    ASSUME NEW E, NEW p \in AnyPath, NEW n \in Names, NEW d, IsWalk(d, E, p),
           NEW e, e = [i \in 0..Len(p) + 1 |->
                         IF i = Len(p) + 1
                         THEN IF <<d[Len(p)], n>> \in DOMAIN E THEN E[<<d[Len(p)], n>>] ELSE None
                         ELSE d[i]]
    PROVE  IsWalk(e, E, Append(p, n))
PROOF
  <1> DEFINE q == Append(p, n)
             Nxt(v, k) == IF <<v, k>> \in DOMAIN E THEN E[<<v, k>>] ELSE None
  <1>1. Len(p) \in Nat /\ Len(q) = Len(p) + 1 /\ q[Len(p) + 1] = n /\ \A i \in 1..Len(p) : q[i] = p[i]
    BY DEF AnyPath
  <1>2. e = [i \in 0..Len(p) + 1 |-> IF i = Len(p) + 1 THEN Nxt(d[Len(p)], n) ELSE d[i]]
    OBVIOUS
  <1>3. d = [i \in 0..Len(p) |-> IF i = 0 THEN 1 ELSE Nxt(d[i - 1], p[i])]
    BY DEF IsWalk
  <1> HIDE DEF q, Nxt
  <1>4. ASSUME NEW i \in 0..Len(p) + 1
        PROVE  e[i] = IF i = 0 THEN 1 ELSE Nxt(e[i - 1], q[i])
    <2>1. CASE i = Len(p) + 1
      <3>1. i # 0 /\ i - 1 = Len(p) /\ i - 1 \in 0..Len(p) + 1 /\ i - 1 # Len(p) + 1
        BY <1>1, <2>1
      <3>2. e[i - 1] = d[Len(p)]
        BY <1>2, <3>1
      <3> QED BY <1>1, <1>2, <2>1, <3>1, <3>2
    <2>2. CASE i # Len(p) + 1
      <3>1. i \in 0..Len(p) /\ e[i] = d[i]
        BY <1>1, <1>2, <2>2
      <3>2. i # 0 => e[i - 1] = d[i - 1] /\ q[i] = p[i]
        BY <1>1, <1>2, <3>1
      <3> QED BY <1>3, <3>1, <3>2
    <2> QED BY <2>1, <2>2
  <1>5. e = [i \in 0..Len(p) + 1 |-> e[i]]
    OBVIOUS
  <1>6. e = [i \in 0..Len(q) |-> IF i = 0 THEN 1 ELSE Nxt(e[i - 1], q[i])]
    BY <1>1, <1>4, <1>5
  <1> QED BY <1>6 DEF IsWalk, q, Nxt

LEMMA WalkExists == \A E : \A p \in AnyPath : \E d : IsWalk(d, E, p)
PROOF
  <1> SUFFICES ASSUME NEW E PROVE \A p \in AnyPath : \E d : IsWalk(d, E, p)
    OBVIOUS
  <1> DEFINE S == {k \in Nat : \A p \in AnyPath : Len(p) = k => \E d : IsWalk(d, E, p)}
  <1>1. 0 \in S
    <2> SUFFICES ASSUME NEW p \in AnyPath, Len(p) = 0 PROVE \E d : IsWalk(d, E, p)
      OBVIOUS
    <2> DEFINE d == [i \in 0..0 |-> 1]
    <2>1. d = [i \in 0..Len(p) |->
           IF i = 0 THEN 1 ELSE IF <<d[i - 1], p[i]>> \in DOMAIN E THEN E[<<d[i - 1], p[i]>>] ELSE None]
      OBVIOUS
    <2> HIDE DEF d
    <2> QED BY <2>1 DEF IsWalk
  <1>2. ASSUME NEW k \in Nat, k \in S PROVE k + 1 \in S
    <2> SUFFICES ASSUME NEW p \in AnyPath, Len(p) = k + 1 PROVE \E d : IsWalk(d, E, p)
      OBVIOUS
    <2>1. p \in Named
      BY DEF AnyPath, Named
    <2>2. Front(p) \in AnyPath /\ Last(p) \in Names /\ p = Append(Front(p), Last(p)) /\ Len(Front(p)) = k
      BY <2>1, PathParts
    <2>3. PICK d : IsWalk(d, E, Front(p))
      BY <1>2, <2>2
    <2>4. PICK e : e = [i \in 0..Len(Front(p)) + 1 |->
                         IF i = Len(Front(p)) + 1
                         THEN IF <<d[Len(Front(p))], Last(p)>> \in DOMAIN E THEN E[<<d[Len(Front(p))], Last(p)>>] ELSE None
                         ELSE d[i]]
      OBVIOUS
    <2>5. IsWalk(e, E, Append(Front(p), Last(p)))
      BY <2>2, <2>3, <2>4, WalkGrows
    <2> QED BY <2>2, <2>5
  <1>3. \A k \in Nat : k \in S
    <2> HIDE DEF S
    <2> QED BY <1>1, <1>2, SetInduction
  <1> QED BY <1>3 DEF AnyPath

LEMMA WalkUnique ==
    ASSUME NEW E, NEW p \in AnyPath, NEW d, NEW e, IsWalk(d, E, p), IsWalk(e, E, p)
    PROVE  d = e
PROOF
  <1> DEFINE Nxt(v, k) == IF <<v, k>> \in DOMAIN E THEN E[<<v, k>>] ELSE None
  <1>1. /\ d = [i \in 0..Len(p) |-> IF i = 0 THEN 1 ELSE Nxt(d[i - 1], p[i])]
        /\ e = [i \in 0..Len(p) |-> IF i = 0 THEN 1 ELSE Nxt(e[i - 1], p[i])]
    BY DEF IsWalk
  <1> HIDE DEF Nxt
  <1>2. Len(p) \in Nat
    BY DEF AnyPath
  <1> DEFINE S == {k \in Nat : k \in 0..Len(p) => d[k] = e[k]}
  <1>3. 0 \in S
    BY <1>1, <1>2
  <1>4. ASSUME NEW k \in Nat, k \in S PROVE k + 1 \in S
    <2> SUFFICES ASSUME k + 1 \in 0..Len(p) PROVE d[k + 1] = e[k + 1]
      OBVIOUS
    <2>1. k \in 0..Len(p) /\ d[k] = e[k] /\ k + 1 # 0 /\ (k + 1) - 1 = k
      BY <1>2, <1>4
    <2>2. d[k + 1] = Nxt(d[(k + 1) - 1], p[k + 1]) /\ e[k + 1] = Nxt(e[(k + 1) - 1], p[k + 1])
      BY <1>1, <2>1
    <2> QED BY <2>1, <2>2
  <1>5. \A k \in Nat : k \in S
    <2> HIDE DEF S
    <2> QED BY <1>3, <1>4, SetInduction
  <1>6. \A k \in 0..Len(p) : d[k] = e[k]
    BY <1>2, <1>5
  <1> QED BY <1>1, <1>6

LEMMA WalkIs ==
    ASSUME NEW E, NEW p \in AnyPath, NEW d, IsWalk(d, E, p)
    PROVE  WalkIn(E, p) = d[Len(p)]
PROOF
  <1> DEFINE c == CHOOSE c : IsWalk(c, E, p)
  <1>1. WalkIn(E, p) = c[Len(p)]
    BY DEF WalkIn, IsWalk
  <1>2. IsWalk(c, E, p)
    OBVIOUS
  <1> HIDE DEF c
  <1>3. c = d
    BY <1>2, WalkUnique
  <1> QED BY <1>1, <1>3

LEMMA WalkStart == \A E : WalkIn(E, <<>>) = 1
PROOF
  <1> SUFFICES ASSUME NEW E PROVE WalkIn(E, <<>>) = 1
    OBVIOUS
  <1>1. <<>> \in AnyPath /\ Len(<<>>) = 0
    BY DEF AnyPath
  <1>2. PICK d : IsWalk(d, E, <<>>)
    BY <1>1, WalkExists
  <1>3. d[0] = 1
    BY <1>1, <1>2 DEF IsWalk
  <1> QED BY <1>1, <1>2, <1>3, WalkIs

LEMMA WalkOn ==
    ASSUME NEW E, NEW p \in AnyPath, NEW n \in Names
    PROVE  WalkIn(E, Append(p, n)) = IF <<WalkIn(E, p), n>> \in DOMAIN E THEN E[<<WalkIn(E, p), n>>] ELSE None
PROOF
  <1>1. PICK d : IsWalk(d, E, p)
    BY WalkExists
  <1>2. PICK e : e = [i \in 0..Len(p) + 1 |->
                         IF i = Len(p) + 1
                         THEN IF <<d[Len(p)], n>> \in DOMAIN E THEN E[<<d[Len(p)], n>>] ELSE None
                         ELSE d[i]]
    OBVIOUS
  <1>3. IsWalk(e, E, Append(p, n))
    BY <1>1, <1>2, WalkGrows
  <1>4. Append(p, n) \in AnyPath /\ Len(Append(p, n)) = Len(p) + 1 /\ Len(p) \in Nat
    BY DEF AnyPath
  <1>5. WalkIn(E, Append(p, n)) = e[Len(p) + 1]
    BY <1>3, <1>4, WalkIs
  <1>6. WalkIn(E, p) = d[Len(p)]
    BY <1>1, WalkIs
  <1> QED BY <1>2, <1>4, <1>5, <1>6

\* A walk ends at an inode or nowhere, and at the root only if it stays there.
LEMMA WalkTyped ==
    ASSUME NEW E, NEW N, 1 \in N, \A e \in DOMAIN E : E[e] \in N \ {1}
    PROVE  \A p \in AnyPath : WalkIn(E, p) \in {None} \cup N /\ (p # <<>> => WalkIn(E, p) # 1)
PROOF
  <1>1. WalkIn(E, <<>>) = 1
    BY WalkStart
  <1>2. ASSUME NEW p \in AnyPath, p # <<>>
        PROVE  WalkIn(E, p) \in {None} \cup N /\ WalkIn(E, p) # 1
    <2>1. Front(p) \in AnyPath /\ Last(p) \in Names /\ p = Append(Front(p), Last(p))
      BY <1>2, PathParts DEF AnyPath, Named
    <2>2. WalkIn(E, p) = IF <<WalkIn(E, Front(p)), Last(p)>> \in DOMAIN E
                         THEN E[<<WalkIn(E, Front(p)), Last(p)>>] ELSE None
      BY <2>1, WalkOn
    <2> QED BY <2>2 DEF None
  <1> QED BY <1>1, <1>2

-----------------------------------------------------------------------------
(* The maps in memory are well typed, and what each helper does to them.   *)

Info == [layer : {"delta", "base"}, ino : Nat, path : AnyPath]

IsMem(m) == DOMAIN m = {"inode", "rev", "path", "next", "src", "nextSrc"}

MemTyped(m) ==
    /\ IsMem(m)
    /\ m.next \in Nat /\ m.nextSrc \in Nat /\ m.nextSrc >= 2
    /\ \A x \in DOMAIN m.inode : /\ x \in Nat /\ x < m.next /\ m.inode[x] \in Info
                                 /\ m.inode[x].layer = "base" => m.inode[x].path # <<>>
    /\ \A k \in DOMAIN m.rev : m.rev[k] \in DOMAIN m.inode
    /\ \A p \in DOMAIN m.path : m.path[p] \in DOMAIN m.inode /\ m.inode[m.path[p]].path = p
    /\ DOMAIN m.src \subseteq DOMAIN Base
    /\ \A p \in DOMAIN m.src : m.src[p] \in Nat /\ 2 <= m.src[p] /\ m.src[p] < m.nextSrc

\* Base inodes that have a number keep it.
SrcGrows(m, k) == \A p \in DOMAIN m.src : p \in DOMAIN k.src /\ k.src[p] = m.src[p]

\* What is in the maps stays.
Keeps(m, k) ==
    /\ \A x \in DOMAIN m.inode : x \in DOMAIN k.inode /\ k.inode[x] = m.inode[x]
    /\ \A r \in DOMAIN m.rev : r \in DOMAIN k.rev /\ k.rev[r] = m.rev[r]
    /\ SrcGrows(m, k)

LEMMA BaseTypes ==
    \A p \in DOMAIN Base : p \in Named /\ p \in AnyPath /\ Base[p] \in {"dir", "file", "symlink"} /\ Len(p) \in {1, 2}
BY BaseIsTree, PathsAre DEF Named, AnyPath

LEMMA KeepsAll ==
    /\ \A m : Keeps(m, m)
    /\ \A m, k, l : Keeps(m, k) /\ Keeps(k, l) => Keeps(m, l)
BY DEF Keeps, SrcGrows

LEMMA BaseLookupTyped ==
    ASSUME NEW m, MemTyped(m), NEW p
    PROVE  /\ MemTyped(BaseLookup(m, p)) /\ Keeps(m, BaseLookup(m, p))
           /\ BaseLookup(m, p).inode = m.inode /\ BaseLookup(m, p).rev = m.rev /\ BaseLookup(m, p).path = m.path
           /\ BaseLookup(m, p).next = m.next
           /\ p \in DOMAIN Base => p \in DOMAIN BaseLookup(m, p).src
           /\ DOMAIN BaseLookup(m, p).src \subseteq DOMAIN m.src \cup {p}
PROOF
  <1> DEFINE k == BaseLookup(m, p)
  <1>1. CASE p \notin DOMAIN Base \/ p \in DOMAIN m.src
    <2>1. k = m
      BY <1>1 DEF BaseLookup
    <2>2. Keeps(m, m)
      BY KeepsAll
    <2>3. p \in DOMAIN Base => p \in DOMAIN m.src
      BY <1>1
    <2> HIDE DEF k
    <2>4. MemTyped(k) /\ Keeps(m, k) /\ k.inode = m.inode /\ k.rev = m.rev /\ k.path = m.path /\ k.next = m.next /\ k.src = m.src
      BY <2>1, <2>2
    <2> QED BY <2>3, <2>4 DEF k
  <1>2. CASE p \in DOMAIN Base /\ p \notin DOMAIN m.src
    <2>1. /\ k.inode = m.inode /\ k.rev = m.rev
          /\ k.path = m.path /\ k.next = m.next /\ k.src = Add(m.src, p, m.nextSrc) /\ k.nextSrc = m.nextSrc + 1 /\ IsMem(k)
      <3>1. IsMem(m)
        BY DEF MemTyped
      <3> QED BY <1>2, <3>1 DEF BaseLookup, IsMem
    <2>a. k.src = Add(m.src, p, m.nextSrc)
      BY <2>1
    <2>2. /\ DOMAIN k.src = DOMAIN m.src \cup {p} /\ k.src[p] = m.nextSrc
          /\ \A q \in DOMAIN m.src : k.src[q] = m.src[q]
      <3> HIDE DEF k
      <3> QED BY <1>2, <2>a DEF Add
    <2>3. k.nextSrc = m.nextSrc + 1 /\ k.inode = m.inode /\ k.rev = m.rev /\ k.path = m.path /\ k.next = m.next
          /\ IsMem(k)
      BY <2>1 DEF IsMem
    <2> HIDE DEF k
    <2>4. MemTyped(k)
      BY <1>2, <2>2, <2>3 DEF MemTyped
    <2>5. Keeps(m, k)
      BY <2>2, <2>3 DEF Keeps, SrcGrows
    <2> QED BY <2>2, <2>3, <2>4, <2>5 DEF k
  <1> QED BY <1>1, <1>2

LEMMA BaseWalkTyped ==
    ASSUME NEW m, MemTyped(m), NEW p \in AnyPath
    PROVE  /\ MemTyped(BaseWalk(m, p)) /\ Keeps(m, BaseWalk(m, p))
           /\ BaseWalk(m, p).inode = m.inode /\ BaseWalk(m, p).rev = m.rev /\ BaseWalk(m, p).path = m.path
           /\ BaseWalk(m, p).next = m.next
           /\ p \in DOMAIN Base => p \in DOMAIN BaseWalk(m, p).src
PROOF
  <1>1. CASE p = <<>>
    BY <1>1, BaseTypes, KeepsAll DEF BaseWalk, Root, Named
  <1>2. CASE p # <<>> /\ Len(p) = 1
    BY <1>2, BaseLookupTyped DEF BaseWalk, Root
  <1>3. CASE p # <<>> /\ Len(p) # 1
    <2> DEFINE q == SubSeq(p, 1, 1)
               r == SubSeq(p, 1, 2)
               k == BaseLookup(m, q)
               l == BaseLookup(k, r)
    <2>1. BaseWalk(m, p) = l
      BY <1>3 DEF BaseWalk, Root
    <2>2. p \in DOMAIN Base => p = r
      <3>1. ASSUME p \in DOMAIN Base PROVE Len(p) = 2
        BY <1>3, <3>1, BaseTypes
      <3> QED BY <3>1 DEF AnyPath
    <2> HIDE DEF q, r
    <2>3. /\ MemTyped(k) /\ Keeps(m, k) /\ k.inode = m.inode /\ k.rev = m.rev /\ k.path = m.path /\ k.next = m.next
      BY BaseLookupTyped
    <2>4. /\ MemTyped(l) /\ Keeps(k, l) /\ l.inode = k.inode /\ l.rev = k.rev /\ l.path = k.path /\ l.next = k.next
          /\ r \in DOMAIN Base => r \in DOMAIN l.src
      <3> HIDE DEF k
      <3> QED BY <2>3, BaseLookupTyped
    <2> HIDE DEF k, l
    <2> QED BY <2>1, <2>2, <2>3, <2>4, KeepsAll
  <1> QED BY <1>1, <1>2, <1>3

LEMMA GetOrCreateTyped ==
    ASSUME NEW m, MemTyped(m), NEW layer \in {"delta", "base"}, NEW u \in Nat, NEW p \in AnyPath, layer = "base" => p # <<>>
    PROVE  /\ MemTyped(GetOrCreate(m, layer, u, p)) /\ Keeps(m, GetOrCreate(m, layer, u, p))
           /\ <<layer, u>> \in DOMAIN GetOrCreate(m, layer, u, p).rev
           /\ GetOrCreate(m, layer, u, p).src = m.src /\ GetOrCreate(m, layer, u, p).nextSrc = m.nextSrc
PROOF
  <1> DEFINE k == GetOrCreate(m, layer, u, p)
  <1>1. CASE <<layer, u>> \in DOMAIN m.rev
    BY <1>1, KeepsAll DEF GetOrCreate
  <1>2. CASE <<layer, u>> \notin DOMAIN m.rev
    <2> DEFINE i == [layer |-> layer, ino |-> u, path |-> p]
               x == m.next
    <2>1. /\ k.inode = Add(m.inode, x, i) /\ k.rev = Add(m.rev, <<layer, u>>, x)
          /\ k.path = Add(m.path, p, x) /\ k.next = x + 1 /\ k.src = m.src /\ k.nextSrc = m.nextSrc /\ IsMem(k)
      <3>1. IsMem(m)
        BY DEF MemTyped
      <3> QED BY <1>2, <3>1 DEF GetOrCreate, IsMem
    <2>a. k.inode = Add(m.inode, x, i) /\ k.rev = Add(m.rev, <<layer, u>>, x) /\ k.path = Add(m.path, p, x)
      BY <2>1
    <2>2. /\ x \notin DOMAIN m.inode /\ x \in Nat
      BY DEF MemTyped
    <2>3. /\ DOMAIN k.inode = DOMAIN m.inode \cup {x} /\ k.inode[x] = i
          /\ \A y \in DOMAIN m.inode : k.inode[y] = m.inode[y]
      <3> HIDE DEF k, i, x
      <3> QED BY <2>2, <2>a DEF Add
    <2>4. /\ DOMAIN k.rev = DOMAIN m.rev \cup {<<layer, u>>} /\ k.rev[<<layer, u>>] = x
          /\ \A r \in DOMAIN m.rev : k.rev[r] = m.rev[r]
      <3> HIDE DEF k, i, x
      <3> QED BY <1>2, <2>a DEF Add
    <2>5. /\ DOMAIN k.path = DOMAIN m.path \cup {p} /\ k.path[p] = x
          /\ \A r \in DOMAIN m.path : r # p => k.path[r] = m.path[r]
      <3> HIDE DEF k, i, x
      <3> QED BY <2>a DEF Add
    <2>6. k.next = x + 1 /\ k.src = m.src /\ k.nextSrc = m.nextSrc
          /\ IsMem(k)
      BY <2>1 DEF IsMem
    <2>7. i \in Info /\ i.path = p /\ i.layer = layer
      BY DEF Info
    <2> HIDE DEF k, i
    <2>8. Keeps(m, k)
      BY <2>3, <2>4, <2>6 DEF Keeps, SrcGrows
    <2>9. /\ \A y \in DOMAIN k.inode : /\ y \in Nat /\ y < k.next /\ k.inode[y] \in Info
                                       /\ k.inode[y].layer = "base" => k.inode[y].path # <<>>
      BY <2>2, <2>3, <2>6, <2>7 DEF MemTyped
    <2>10. \A r \in DOMAIN k.rev : k.rev[r] \in DOMAIN k.inode
      BY <2>3, <2>4 DEF MemTyped
    <2>11. \A r \in DOMAIN k.path : k.path[r] \in DOMAIN k.inode /\ k.inode[k.path[r]].path = r
      BY <2>3, <2>5, <2>7 DEF MemTyped
    <2>12. MemTyped(k)
      BY <2>2, <2>6, <2>9, <2>10, <2>11 DEF MemTyped
    <2> QED BY <2>4, <2>6, <2>8, <2>12 DEF k
  <1> QED BY <1>1, <1>2

\* An inode that becomes one of the delta keeps its path.
LEMMA UpdateTyped ==
    ASSUME NEW m, MemTyped(m), NEW x \in DOMAIN m.inode, NEW d \in Nat
    PROVE  /\ MemTyped(UpdateMapping(m, x, d)) /\ SrcGrows(m, UpdateMapping(m, x, d))
           /\ DOMAIN UpdateMapping(m, x, d).inode = DOMAIN m.inode
           /\ \A y \in DOMAIN m.inode : y # x => UpdateMapping(m, x, d).inode[y] = m.inode[y]
           /\ UpdateMapping(m, x, d).inode[x] = [layer |-> "delta", ino |-> d, path |-> m.inode[x].path]
           /\ UpdateMapping(m, x, d).src = m.src /\ UpdateMapping(m, x, d).nextSrc = m.nextSrc
PROOF
  <1> DEFINE k == UpdateMapping(m, x, d)
             i == [layer |-> "delta", ino |-> d, path |-> m.inode[x].path]
  <1>1. /\ k.inode = [m.inode EXCEPT ![x] = i] /\ k.rev = Add(m.rev, <<"delta", d>>, x) /\ k.path = m.path
        /\ k.next = m.next /\ k.src = m.src /\ k.nextSrc = m.nextSrc /\ IsMem(k)
    <2>1. IsMem(m)
      BY DEF MemTyped
    <2> QED BY <2>1 DEF UpdateMapping, IsMem
  <1>a. k.rev = Add(m.rev, <<"delta", d>>, x)
    BY <1>1
  <1>2. /\ DOMAIN k.inode = DOMAIN m.inode /\ k.inode[x] = i
        /\ \A y \in DOMAIN m.inode : y # x => k.inode[y] = m.inode[y]
    BY <1>1
  <1>3. /\ DOMAIN k.rev = DOMAIN m.rev \cup {<<"delta", d>>}
        /\ \A r \in DOMAIN k.rev : k.rev[r] \in {x} \cup {m.rev[q] : q \in DOMAIN m.rev}
    <2> HIDE DEF k
    <2> QED BY <1>a DEF Add
  <1>4. k.path = m.path /\ k.next = m.next /\ k.src = m.src /\ k.nextSrc = m.nextSrc
        /\ IsMem(k)
    BY <1>1 DEF IsMem
  <1>5. i \in Info /\ i.path = m.inode[x].path /\ i.layer = "delta"
    BY DEF Info, MemTyped
  <1> HIDE DEF k
  <1>6. \A y \in DOMAIN k.inode : k.inode[y].path = m.inode[y].path
    BY <1>2, <1>5
  <1>7. SrcGrows(m, k)
    BY <1>4 DEF SrcGrows
  <1>8. MemTyped(k)
    <2> HIDE DEF i
    <2>1. \A y \in DOMAIN k.inode : /\ y \in Nat /\ y < k.next /\ k.inode[y] \in Info
                                    /\ k.inode[y].layer = "base" => k.inode[y].path # <<>>
      BY <1>2, <1>4, <1>5 DEF MemTyped
    <2>2. \A r \in DOMAIN k.rev : k.rev[r] \in DOMAIN k.inode
      BY <1>2, <1>3 DEF MemTyped
    <2>3. \A r \in DOMAIN k.path : k.path[r] \in DOMAIN k.inode /\ k.inode[k.path[r]].path = r
      BY <1>2, <1>4, <1>6 DEF MemTyped
    <2> QED BY <1>4, <2>1, <2>2, <2>3 DEF MemTyped
  <1> QED BY <1>2, <1>4, <1>7, <1>8 DEF k

LEMMA PromoteTyped ==
    ASSUME NEW m, MemTyped(m), NEW p, NEW d \in Nat
    PROVE  /\ MemTyped(PromoteToDelta(m, p, d)) /\ SrcGrows(m, PromoteToDelta(m, p, d))
           /\ DOMAIN PromoteToDelta(m, p, d).inode = DOMAIN m.inode
           /\ \A y \in DOMAIN m.inode :
                 PromoteToDelta(m, p, d).inode[y] \in {m.inode[y], [layer |-> "delta", ino |-> d, path |-> m.inode[y].path]}
           /\ PromoteToDelta(m, p, d).src = m.src
PROOF
  <1> DEFINE k == PromoteToDelta(m, p, d)
             x == m.path[p]
             i == [layer |-> "delta", ino |-> d, path |-> m.inode[x].path]
  <1>1. CASE p \notin DOMAIN m.path \/ m.inode[x].layer # "base"
    <2>1. k = m
      BY <1>1 DEF PromoteToDelta
    <2> HIDE DEF k
    <2> QED BY <2>1 DEF SrcGrows, k
  <1>2. CASE p \in DOMAIN m.path /\ m.inode[x].layer = "base"
    <2>0. x \in DOMAIN m.inode
      BY <1>2 DEF MemTyped
    <2>1. k = [inode |-> [m.inode EXCEPT ![x] = i],
               rev |-> Add(Drop(m.rev, {<<"base", m.inode[x].ino>>}), <<"delta", d>>, x), path |-> m.path,
               next |-> m.next, src |-> m.src, nextSrc |-> m.nextSrc]
      <3>1. IsMem(m)
        BY DEF MemTyped
      <3> QED BY <1>2, <3>1 DEF PromoteToDelta, IsMem
    <2>2. /\ DOMAIN k.inode = DOMAIN m.inode /\ k.inode[x] = i
          /\ \A y \in DOMAIN m.inode : y # x => k.inode[y] = m.inode[y]
      BY <2>0, <2>1
    <2> DEFINE w == Drop(m.rev, {<<"base", m.inode[x].ino>>})
    <2>3. \A r \in DOMAIN k.rev : k.rev[r] \in {x} \cup {m.rev[q] : q \in DOMAIN m.rev}
      <3>1. \A r \in DOMAIN w : r \in DOMAIN m.rev /\ w[r] = m.rev[r]
        BY DEF Drop
      <3>2. k.rev = Add(w, <<"delta", d>>, x)
        BY <2>1
      <3> HIDE DEF w, k
      <3>3. DOMAIN k.rev = DOMAIN w \cup {<<"delta", d>>} /\ \A r \in DOMAIN k.rev : k.rev[r] = IF r = <<"delta", d>> THEN x ELSE w[r]
        BY <3>2 DEF Add
      <3> HIDE DEF x
      <3> QED BY <3>1, <3>3
    <2>4. k.path = m.path /\ k.next = m.next /\ k.src = m.src /\ k.nextSrc = m.nextSrc
          /\ IsMem(k)
      BY <2>1 DEF IsMem
    <2>5. i \in Info /\ i.path = m.inode[x].path /\ i.layer = "delta"
      BY <2>0 DEF Info, MemTyped
    <2> HIDE DEF k
    <2>6. \A y \in DOMAIN k.inode : k.inode[y].path = m.inode[y].path
      BY <2>2, <2>5
    <2>7. SrcGrows(m, k)
      BY <2>4 DEF SrcGrows
    <2>8. MemTyped(k)
      <3> HIDE DEF i, x
      <3>1. \A y \in DOMAIN k.inode : /\ y \in Nat /\ y < k.next /\ k.inode[y] \in Info
                                      /\ k.inode[y].layer = "base" => k.inode[y].path # <<>>
        BY <2>0, <2>2, <2>4, <2>5 DEF MemTyped
      <3>2. \A r \in DOMAIN k.rev : k.rev[r] \in DOMAIN k.inode
        BY <2>0, <2>2, <2>3 DEF MemTyped
      <3>3. \A r \in DOMAIN k.path : k.path[r] \in DOMAIN k.inode /\ k.inode[k.path[r]].path = r
        BY <2>2, <2>4, <2>6 DEF MemTyped
      <3> QED BY <2>4, <3>1, <3>2, <3>3 DEF MemTyped
    <2>9. \A y \in DOMAIN m.inode : k.inode[y] \in {m.inode[y], [layer |-> "delta", ino |-> d, path |-> m.inode[y].path]}
      BY <2>2
    <2> HIDE DEF i, x
    <2> QED BY <2>2, <2>4, <2>7, <2>8, <2>9 DEF k
  <1> HIDE DEF k, x, i
  <1> QED BY <1>1, <1>2 DEF k, x, i

LEMMA RefreshTyped ==
    ASSUME NEW m, MemTyped(m), NEW x \in DOMAIN m.inode, NEW d \in Nat, NEW p \in AnyPath
    PROVE  /\ MemTyped(RefreshMapping(m, x, d, p))
           /\ DOMAIN RefreshMapping(m, x, d, p).inode = DOMAIN m.inode
           /\ \A y \in DOMAIN m.inode : y # x => RefreshMapping(m, x, d, p).inode[y] = m.inode[y]
           /\ RefreshMapping(m, x, d, p).inode[x] = [layer |-> "delta", ino |-> d, path |-> p]
           /\ RefreshMapping(m, x, d, p).src = m.src /\ RefreshMapping(m, x, d, p).nextSrc = m.nextSrc
PROOF
  <1> DEFINE k == RefreshMapping(m, x, d, p)
             i == [layer |-> "delta", ino |-> d, path |-> p]
             old == m.inode[x].path
             pm == IF old \in DOMAIN m.path /\ m.path[old] = x THEN Drop(m.path, {old}) ELSE m.path
  <1>1. /\ k.inode = [m.inode EXCEPT ![x] = i] /\ k.rev = Add(m.rev, <<"delta", d>>, x) /\ k.path = Add(pm, p, x)
        /\ k.next = m.next /\ k.src = m.src /\ k.nextSrc = m.nextSrc /\ IsMem(k)
    <2>1. IsMem(m)
      BY DEF MemTyped
    <2> QED BY <2>1 DEF RefreshMapping, IsMem
  <1>a. k.rev = Add(m.rev, <<"delta", d>>, x)
    BY <1>1
  <1>2. /\ DOMAIN k.inode = DOMAIN m.inode /\ k.inode[x] = i
        /\ \A y \in DOMAIN m.inode : y # x => k.inode[y] = m.inode[y]
    BY <1>1
  <1>3. /\ DOMAIN k.rev = DOMAIN m.rev \cup {<<"delta", d>>}
        /\ \A r \in DOMAIN k.rev : k.rev[r] \in {x} \cup {m.rev[q] : q \in DOMAIN m.rev}
    <2> HIDE DEF k
    <2> QED BY <1>a DEF Add
  <1>4. k.next = m.next /\ k.src = m.src /\ k.nextSrc = m.nextSrc /\ k.path = Add(pm, p, x)
        /\ IsMem(k)
    BY <1>1 DEF IsMem
  <1>5. i \in Info /\ i.path = p /\ i.layer = "delta"
    BY DEF Info
  <1>6. \A r \in DOMAIN pm : r \in DOMAIN m.path /\ pm[r] = m.path[r] /\ m.path[r] # x
    <2>1. \A r \in DOMAIN m.path : m.path[r] = x => r = old
      BY DEF MemTyped
    <2>2. CASE old \in DOMAIN m.path /\ m.path[old] = x
      <3>1. pm = Drop(m.path, {old})
        BY <2>2
      <3>2. DOMAIN pm = DOMAIN m.path \ {old} /\ \A r \in DOMAIN m.path \ {old} : pm[r] = m.path[r]
        <4> HIDE DEF pm, old
        <4> QED BY <3>1 DEF Drop
      <3> HIDE DEF pm, old
      <3> QED BY <2>1, <3>2
    <2>3. CASE ~(old \in DOMAIN m.path /\ m.path[old] = x)
      <3>1. pm = m.path
        BY <2>3
      <3> HIDE DEF pm, old
      <3> QED BY <2>1, <2>3, <3>1
    <2> QED BY <2>2, <2>3
  <1> HIDE DEF k, pm
  <1>7. \A r \in DOMAIN k.path : k.path[r] \in DOMAIN k.inode /\ k.inode[k.path[r]].path = r
    <2> HIDE DEF i
    <2>1. /\ DOMAIN k.path = DOMAIN pm \cup {p} /\ k.path[p] = x
          /\ \A r \in DOMAIN pm : r # p => k.path[r] = pm[r]
      <3>1. k.path = Add(pm, p, x)
        BY <1>4
      <3> QED BY <3>1 DEF Add
    <2>2. ASSUME NEW r \in DOMAIN pm, r # p PROVE k.path[r] \in DOMAIN k.inode /\ k.inode[k.path[r]].path = r
      <3>1. k.path[r] = m.path[r] /\ r \in DOMAIN m.path /\ m.path[r] # x
        BY <1>6, <2>1, <2>2
      <3> QED BY <1>2, <3>1 DEF MemTyped
    <2> QED BY <1>2, <1>5, <2>1, <2>2
  <1>8. MemTyped(k)
    <2> HIDE DEF i
    <2>1. \A y \in DOMAIN k.inode : /\ y \in Nat /\ y < k.next /\ k.inode[y] \in Info
                                    /\ k.inode[y].layer = "base" => k.inode[y].path # <<>>
      BY <1>2, <1>4, <1>5 DEF MemTyped
    <2>2. \A r \in DOMAIN k.rev : k.rev[r] \in DOMAIN k.inode
      BY <1>2, <1>3 DEF MemTyped
    <2> QED BY <1>4, <1>7, <2>1, <2>2 DEF MemTyped
  <1> QED BY <1>2, <1>4, <1>8 DEF k

-----------------------------------------------------------------------------
(* The delta is well typed, and what lookups and listings answer.          *)

NodeType == [kind : {"dir", "file", "symlink"}, from : {<<>>} \cup DOMAIN Base, mod : BOOLEAN]

DeltaTyped ==
    /\ \A d \in DOMAIN node : d \in Nat /\ 1 <= d /\ d < nextDelta /\ node[d] \in NodeType
    /\ 1 \in DOMAIN node /\ node[1].kind = "dir"
    /\ \A e \in DOMAIN ent : e \in (DOMAIN node) \X Names /\ ent[e] \in DOMAIN node \ {1}
    /\ nextDelta \in 2..MaxDelta + 1
    /\ \A d \in DOMAIN origin : d \in Nat /\ d < nextDelta /\ origin[d] \in Nat

LEMMA WalkEnds ==
    ASSUME DeltaTyped, NEW p \in AnyPath
    PROVE  /\ DeltaWalk(p) \in {None} \cup DOMAIN node /\ DeltaWalk(p) \in Nat
           /\ p # <<>> => DeltaWalk(p) # 1
           /\ DeltaWalk(<<>>) = 1
PROOF
  <1>1. 1 \in DOMAIN node /\ \A e \in DOMAIN ent : ent[e] \in DOMAIN node \ {1}
    BY DEF DeltaTyped
  <1>2. \A q \in AnyPath : WalkIn(ent, q) \in {None} \cup DOMAIN node /\ (q # <<>> => WalkIn(ent, q) # 1)
    BY <1>1, WalkTyped
  <1>3. \A d \in DOMAIN node : d \in Nat
    BY DEF DeltaTyped
  <1> QED BY <1>2, <1>3, WalkIsIn, WalkStart DEF None

LEMMA ParentEnds ==
    ASSUME DeltaTyped, NEW m, MemTyped(m), NEW x \in DOMAIN m.inode
    PROVE  /\ ResolveDeltaParent(m, x) \in Nat
           /\ m.inode[x].layer # "delta" => ResolveDeltaParent(m, x) \in {None} \cup DOMAIN node
           /\ m.inode[x].layer = "delta" => ResolveDeltaParent(m, x) = m.inode[x].ino
PROOF
  <1>1. m.inode[x] \in Info
    BY DEF MemTyped
  <1>2. m.inode[x].path \in AnyPath /\ m.inode[x].ino \in Nat
    BY <1>1 DEF Info
  <1>3. DeltaWalk(m.inode[x].path) \in {None} \cup DOMAIN node /\ DeltaWalk(m.inode[x].path) \in Nat
    BY <1>2, WalkEnds
  <1> QED BY <1>2, <1>3 DEF ResolveDeltaParent, None

\* What a lookup or a listing leaves of the maps it was given.
Extends(m, k) ==
    /\ MemTyped(k) /\ SrcGrows(m, k)
    /\ \A x \in DOMAIN m.inode :
          /\ x \in DOMAIN k.inode
          /\ \/ k.inode[x] = m.inode[x]
             \/ k.inode[x].layer = "delta" /\ k.inode[x].ino \in DOMAIN node \ {1}

LEMMA KeepsExtends == \A m, k : MemTyped(k) /\ Keeps(m, k) => Extends(m, k)
BY DEF Keeps, Extends

LEMMA LookTyped ==
    ASSUME DeltaTyped, NEW m, MemTyped(m), NEW x \in DOMAIN m.inode, NEW n \in Names
    PROVE  Extends(m, Look(m, x, n).m) /\ Look(m, x, n).ino \in {None} \cup DOMAIN Look(m, x, n).m.inode
PROOF
  <1> DEFINE info == m.inode[x]
             p == Append(info.path, n)
             dp == ResolveDeltaParent(m, x)
  <1>0. info \in Info /\ info.path \in AnyPath /\ info.ino \in Nat /\ p \in Named /\ p \in AnyPath /\ p # <<>>
    <2>1. info \in Info
      BY DEF MemTyped
    <2>2. info.path \in AnyPath /\ info.ino \in Nat
      BY <2>1 DEF Info
    <2> HIDE DEF info
    <2> QED BY <2>1, <2>2, PathLonger DEF Named
  <1>1. CASE IsWhiteout(p)
    <2>1. Look(m, x, n).ino = None /\ Look(m, x, n).m = m
      BY <1>1 DEF Look
    <2>2. Extends(m, m)
      BY KeepsAll, KeepsExtends
    <2> QED BY <2>1, <2>2
  <1>2. CASE ~IsWhiteout(p) /\ dp # None /\ <<dp, n>> \in DOMAIN ent
    <2> DEFINE d == ent[<<dp, n>>]
               m1 == GetOrCreate(m, "delta", d, p)
    <2>1. d \in Nat /\ d \in DOMAIN node \ {1}
      BY <1>2 DEF DeltaTyped
    <2>2. MemTyped(m1) /\ Keeps(m, m1) /\ <<"delta", d>> \in DOMAIN m1.rev /\ m1.src = m.src
      <3> HIDE DEF d, p
      <3> QED BY <1>0, <2>1, GetOrCreateTyped
    <2>3. CASE d \in DOMAIN origin /\ <<"base", origin[d]>> \in DOMAIN m1.rev
      <3> DEFINE x1 == m1.rev[<<"base", origin[d]>>]
                 m2 == RefreshMapping(m1, x1, d, p)
      <3>1. Look(m, x, n).ino = x1 /\ Look(m, x, n).m = m2
        BY <1>2, <2>3 DEF Look
      <3> HIDE DEF m1, d, p
      <3>2. x1 \in DOMAIN m1.inode
        BY <2>2, <2>3 DEF MemTyped
      <3> HIDE DEF x1
      <3>a. d \in Nat /\ p \in AnyPath /\ MemTyped(m1) /\ x1 \in DOMAIN m1.inode
        BY <1>0, <2>1, <2>2, <3>2
      <3>3. /\ MemTyped(m2) /\ DOMAIN m2.inode = DOMAIN m1.inode /\ m2.src = m1.src
            /\ \A y \in DOMAIN m1.inode : y # x1 => m2.inode[y] = m1.inode[y]
            /\ m2.inode[x1] = [layer |-> "delta", ino |-> d, path |-> p]
        <4> HIDE DEF info, dp
        <4> QED BY <3>a, RefreshTyped
      <3> HIDE DEF m2
      <3>4. Extends(m, m2)
        <4>1. SrcGrows(m, m2)
          BY <2>2, <3>3 DEF Keeps, SrcGrows
        <4>2. ASSUME NEW y \in DOMAIN m.inode
              PROVE  /\ y \in DOMAIN m2.inode
                     /\ \/ m2.inode[y] = m.inode[y]
                        \/ m2.inode[y].layer = "delta" /\ m2.inode[y].ino \in DOMAIN node \ {1}
          <5>1. y \in DOMAIN m1.inode /\ m1.inode[y] = m.inode[y]
            BY <2>2 DEF Keeps
          <5> QED BY <2>1, <3>3, <5>1
        <4> QED BY <3>3, <4>1, <4>2 DEF Extends
      <3> QED BY <3>1, <3>2, <3>3, <3>4
    <2>4. CASE ~(d \in DOMAIN origin /\ <<"base", origin[d]>> \in DOMAIN m1.rev)
      <3>1. Look(m, x, n).ino = m1.rev[<<"delta", d>>] /\ Look(m, x, n).m = m1
        BY <1>2, <2>4 DEF Look
      <3> HIDE DEF m1, d, p
      <3>2. m1.rev[<<"delta", d>>] \in DOMAIN m1.inode
        BY <2>2 DEF MemTyped
      <3> QED BY <2>2, <3>1, <3>2, KeepsExtends
    <2> QED BY <2>3, <2>4
  <1>3. CASE ~IsWhiteout(p) /\ ~(dp # None /\ <<dp, n>> \in DOMAIN ent)
    <2> DEFINE m1 == IF info.layer = "base" THEN m ELSE BaseWalk(m, info.path)
               b == Append(IF info.layer = "base" THEN SrcPath(m, info.ino) ELSE info.path, n)
               m2 == BaseLookup(m1, b)
               m3 == GetOrCreate(m2, "base", m2.src[b], p)
    <2>1. /\ b \in DOMAIN Base => Look(m, x, n).ino = m3.rev[<<"base", m2.src[b]>>] /\ Look(m, x, n).m = m3
          /\ b \notin DOMAIN Base => Look(m, x, n).ino = None /\ Look(m, x, n).m = m1
      BY <1>3 DEF Look
    <2>2. MemTyped(m1) /\ Keeps(m, m1)
      <3> HIDE DEF info
      <3>1. CASE info.layer = "base"
        BY <3>1, KeepsAll
      <3>2. CASE info.layer # "base"
        BY <1>0, <3>2, BaseWalkTyped
      <3> QED BY <3>1, <3>2
    <2> HIDE DEF m1, b, p
    <2>3. MemTyped(m2) /\ Keeps(m1, m2) /\ (b \in DOMAIN Base => b \in DOMAIN m2.src)
      BY <2>2, BaseLookupTyped
    <2> HIDE DEF m2
    <2>4. CASE b \in DOMAIN Base
      <3>1. m2.src[b] \in Nat
        BY <2>3, <2>4 DEF MemTyped
      <3>2. MemTyped(m3) /\ Keeps(m2, m3) /\ <<"base", m2.src[b]>> \in DOMAIN m3.rev
        BY <1>0, <2>3, <3>1, GetOrCreateTyped
      <3> HIDE DEF m3
      <3>3. m3.rev[<<"base", m2.src[b]>>] \in DOMAIN m3.inode
        BY <3>2 DEF MemTyped
      <3>4. Extends(m, m3)
        BY <2>2, <2>3, <3>2, KeepsAll, KeepsExtends
      <3> QED BY <2>1, <2>4, <3>3, <3>4
    <2>5. CASE b \notin DOMAIN Base
      BY <2>1, <2>2, <2>5, KeepsExtends
    <2> QED BY <2>4, <2>5
  <1> HIDE DEF p, dp
  <1> QED BY <1>1, <1>2, <1>3

LEMMA EntryTyped ==
    ASSUME DeltaTyped, NEW m, MemTyped(m), NEW i \in Info, NEW bd, NEW layer, NEW n \in Names,
           \/ layer = "base" /\ Append(bd, n) \in DOMAIN Base
           \/ layer = "delta" /\ <<i.ino, n>> \in DOMAIN ent
    PROVE  MemTyped(NumberEntry(m, i, bd, layer, n)) /\ Keeps(m, NumberEntry(m, i, bd, layer, n))
PROOF
  <1> DEFINE at == Append(i.path, n)
             q == Append(bd, n)
             b == BaseLookup(m, q)
             d == ent[<<i.ino, n>>]
             k == NumberEntry(m, i, bd, layer, n)
  <1>0. at \in AnyPath /\ at # <<>>
    <2>1. i.path \in AnyPath
      BY DEF Info
    <2> QED BY <2>1, PathLonger DEF Named
  <1>1. CASE layer = "base"
    <2>1. k = IF IsWhiteout(at) THEN b ELSE GetOrCreate(b, "base", b.src[q], at)
      BY <1>1 DEF NumberEntry
    <2> HIDE DEF at, k, q
    <2>2. MemTyped(b) /\ Keeps(m, b) /\ (q \in DOMAIN Base => q \in DOMAIN b.src)
      BY BaseLookupTyped
    <2>3. q \in DOMAIN Base
      BY <1>1 DEF q
    <2> HIDE DEF b
    <2>4. b.src[q] \in Nat
      BY <2>2, <2>3 DEF MemTyped
    <2>5. MemTyped(GetOrCreate(b, "base", b.src[q], at)) /\ Keeps(b, GetOrCreate(b, "base", b.src[q], at))
      BY <1>0, <2>2, <2>4, GetOrCreateTyped
    <2>6. Keeps(m, GetOrCreate(b, "base", b.src[q], at))
      BY <2>2, <2>5, KeepsAll
    <2>7. MemTyped(k) /\ Keeps(m, k)
      BY <2>1, <2>2, <2>5, <2>6
    <2> QED BY <2>7 DEF k
  <1>2. CASE layer = "delta"
    <2>1. k = IF d \in DOMAIN origin THEN GetOrCreate(m, "base", origin[d], at) ELSE GetOrCreate(m, "delta", d, at)
      BY <1>2 DEF NumberEntry
    <2>2. <<i.ino, n>> \in DOMAIN ent
      BY <1>2
    <2>3. d \in Nat /\ (d \in DOMAIN origin => origin[d] \in Nat)
      BY <2>2 DEF DeltaTyped
    <2> HIDE DEF at, k, d
    <2>4. d \in DOMAIN origin => MemTyped(GetOrCreate(m, "base", origin[d], at)) /\ Keeps(m, GetOrCreate(m, "base", origin[d], at))
      BY <1>0, <2>3, GetOrCreateTyped
    <2>5. MemTyped(GetOrCreate(m, "delta", d, at)) /\ Keeps(m, GetOrCreate(m, "delta", d, at))
      BY <1>0, <2>3, GetOrCreateTyped
    <2>6. MemTyped(k) /\ Keeps(m, k)
      BY <2>1, <2>4, <2>5
    <2> QED BY <2>6 DEF k
  <1> QED BY <1>1, <1>2

\* A listing numbers its entries one after the other.
IsNumbering(f, m, i, bd, layer, s) ==
    f = [k \in 0..Len(s) |-> IF k = 0 THEN m ELSE NumberEntry(f[k - 1], i, bd, layer, s[k])]

HasNumbering(m, i, bd, layer, s) ==
    \E f : IsNumbering(f, m, i, bd, layer, s) /\ NumberEntries(m, i, bd, layer, s) = f[Len(s)]

LEMMA NumberingExists ==
    ASSUME NEW m, NEW i, NEW bd, NEW layer, NEW s, Len(s) \in Nat
    PROVE  HasNumbering(m, i, bd, layer, s)
PROOF
  <1> DEFINE Nxt(v, k) == NumberEntry(v, i, bd, layer, s[k])
             S == {k \in Nat : \E f : f = [j \in 0..k |-> IF j = 0 THEN m ELSE Nxt(f[j - 1], j)]}
  <1> HIDE DEF Nxt
  <1>1. 0 \in S
    <2> DEFINE f == [j \in 0..0 |-> m]
    <2>1. f = [j \in 0..0 |-> IF j = 0 THEN m ELSE Nxt(f[j - 1], j)]
      OBVIOUS
    <2> HIDE DEF f
    <2> QED BY <2>1
  <1>2. ASSUME NEW k \in Nat, k \in S PROVE k + 1 \in S
    <2>1. PICK g : g = [j \in 0..k |-> IF j = 0 THEN m ELSE Nxt(g[j - 1], j)]
      BY <1>2
    <2> DEFINE h == [j \in 0..k + 1 |-> IF j = k + 1 THEN Nxt(g[j - 1], j) ELSE g[j]]
    <2>2. ASSUME NEW j \in 0..k + 1
          PROVE  h[j] = IF j = 0 THEN m ELSE Nxt(h[j - 1], j)
      <3>1. CASE j = k + 1
        <4>1. h[j - 1] = g[j - 1]
          BY <3>1
        <4> QED BY <3>1, <4>1
      <3>2. CASE j # k + 1
        <4>1. j \in 0..k /\ h[j] = g[j]
          BY <3>2
        <4>2. j # 0 => h[j - 1] = g[j - 1]
          BY <4>1
        <4> QED BY <2>1, <4>1, <4>2
      <3> QED BY <3>1, <3>2
    <2>3. h = [j \in 0..k + 1 |-> h[j]]
      OBVIOUS
    <2> HIDE DEF h
    <2>4. h = [j \in 0..k + 1 |-> IF j = 0 THEN m ELSE Nxt(h[j - 1], j)]
      BY <2>2, <2>3
    <2> QED BY <2>4
  <1>3. \A k \in Nat : k \in S
    <2> HIDE DEF S
    <2> QED BY <1>1, <1>2, SetInduction
  <1>4. \E f : IsNumbering(f, m, i, bd, layer, s)
    BY <1>3 DEF IsNumbering, Nxt
  <1> DEFINE c == CHOOSE c : IsNumbering(c, m, i, bd, layer, s)
  <1>5. NumberEntries(m, i, bd, layer, s) = c[Len(s)]
    BY DEF NumberEntries, IsNumbering
  <1>6. IsNumbering(c, m, i, bd, layer, s)
    BY <1>4
  <1> QED BY <1>5, <1>6 DEF HasNumbering

LEMMA SequenceOf ==
    ASSUME NEW S, IsFiniteSet(S)
    PROVE  SetToSeq(S) \in Seq(S)
PROOF
  <1>1. PICK f : f \in Bijection(1..Cardinality(S), S)
    BY FS_CardinalityType DEF ExistsBijection
  <1>2. f \in [1..Cardinality(S) -> S] /\ IsInjective(f)
    BY <1>1 DEF Bijection, Injection
  <1>3. SetToSeq(S) \in [1..Cardinality(S) -> S]
    BY <1>2 DEF SetToSeq
  <1>4. Cardinality(S) \in Nat
    BY FS_CardinalityType
  <1> QED BY <1>3, <1>4

LEMMA NumberingTyped ==
    ASSUME DeltaTyped, NEW m, MemTyped(m), NEW i \in Info, NEW bd, NEW layer, NEW S \in SUBSET Names,
           \/ layer = "base" /\ \A n \in S : Append(bd, n) \in DOMAIN Base
           \/ layer = "delta" /\ \A n \in S : <<i.ino, n>> \in DOMAIN ent
    PROVE  /\ MemTyped(NumberEntries(m, i, bd, layer, SetToSeq(S)))
           /\ Keeps(m, NumberEntries(m, i, bd, layer, SetToSeq(S)))
PROOF
  <1> DEFINE s == SetToSeq(S)
  <1>1. s \in Seq(S)
    <2>1. IsFiniteSet(S)
      BY BoundsAssumption, FS_Subset
    <2> QED BY <2>1, SequenceOf
  <1> HIDE DEF s
  <1>2. Len(s) \in Nat /\ \A k \in 1..Len(s) : s[k] \in S
    BY <1>1
  <1>3. PICK f : IsNumbering(f, m, i, bd, layer, s) /\ NumberEntries(m, i, bd, layer, s) = f[Len(s)]
    <2>1. HasNumbering(m, i, bd, layer, s)
      BY <1>2, NumberingExists
    <2> QED BY <2>1 DEF HasNumbering
  <1>4. f[0] = m /\ \A k \in 1..Len(s) : f[k] = NumberEntry(f[k - 1], i, bd, layer, s[k])
    BY <1>2, <1>3 DEF IsNumbering
  <1> DEFINE T == {k \in Nat : k \in 0..Len(s) => MemTyped(f[k]) /\ Keeps(m, f[k])}
  <1>5. 0 \in T
    BY <1>4, KeepsAll
  <1>6. ASSUME NEW k \in Nat, k \in T PROVE k + 1 \in T
    <2> SUFFICES ASSUME k + 1 \in 0..Len(s) PROVE MemTyped(f[k + 1]) /\ Keeps(m, f[k + 1])
      OBVIOUS
    <2>1. k \in 0..Len(s) /\ k + 1 \in 1..Len(s) /\ (k + 1) - 1 = k
      BY <1>2
    <2>2. MemTyped(f[k]) /\ Keeps(m, f[k]) /\ s[k + 1] \in S /\ s[k + 1] \in Names
      BY <1>2, <1>6, <2>1
    <2>3. f[k + 1] = NumberEntry(f[k], i, bd, layer, s[k + 1])
      BY <1>4, <2>1
    <2>4. MemTyped(f[k + 1]) /\ Keeps(f[k], f[k + 1])
      BY <2>2, <2>3, EntryTyped
    <2> QED BY <2>2, <2>4, KeepsAll
  <1>7. \A k \in Nat : k \in T
    <2> HIDE DEF T
    <2> QED BY <1>5, <1>6, SetInduction
  <1>8. Len(s) \in 0..Len(s)
    BY <1>2
  <1> QED BY <1>2, <1>3, <1>7, <1>8 DEF s

-----------------------------------------------------------------------------
(* The steps a running handler has left.                                   *)

Preparing == {"clear", "parent", "parent_origin", "copy", "fill", "origin"}
Ending == {"touch", "create", "link", "remove", "whiteout", "move"}
StepType == [do : Preparing \cup Ending, at : AnyPath]
StepOk(t) == t \in StepType /\ (t.do # "touch" => t.at # <<>>)

\* What may come after what.
Joins(a, b) ==
    /\ b.do = "parent_origin" => a = Step("parent", b.at)
    /\ b.do = "fill" => a.do = "copy"
    /\ a.do \notin {"touch", "create", "link"}

Todo(s) ==
    /\ s \in Seq(StepType)
    /\ \A k \in 1..Len(s) : StepOk(s[k])
    /\ \A k \in 1..Len(s) - 1 : Joins(s[k], s[k + 1])
    /\ \A k, j \in 1..Len(s) : s[k].do \in {"remove", "move", "whiteout"} /\ k < j => s[j].do = "whiteout"

Has(s, S) == \E k \in 1..Len(s) : s[k].do \in S

OpFields == {"call", "x", "y", "src", "made", "todo", "before"}

\* An inode of the delta that is there, and one that is not its root.
There(i, N) == i.layer = "delta" => i.ino \in N
NotRoot(i) == i.layer = "delta" => i.ino # 1

Makes == op.call.what \in {"file", "dir"}

OpTyped ==
    /\ DOMAIN op = OpFields
    /\ op.x \in DOMAIN mem.inode /\ op.y \in DOMAIN mem.inode
    /\ op.src \in Nat /\ op.made \in Nat /\ op.made < nextDelta
    /\ Ready => op = NoOp
    /\ Todo(op.todo)

\* The directory a step puts an entry in is there when it does; a link is not
\* to a directory.
ParentsThere ==
    /\ Has(op.todo, {"create", "link"}) => There(mem.inode[op.x], DOMAIN node)
    /\ Has(op.todo, {"move"}) => There(mem.inode[op.y], DOMAIN node)
    /\ Has(op.todo, {"create", "link", "move"}) => op.call.what \notin {"modify", "open"}
    /\ Has(op.todo, {"link"}) => NotRoot(mem.inode[op.y])
    /\ Has(op.todo, {"parent_origin"}) /\ op.made # None => op.made \in DOMAIN node \ {1}

\* What the step before left for the next.
Handed ==
    op.todo # <<>> =>
        /\ Head(op.todo).do = "parent_origin" /\ At \in DOMAIN Base => At \in DOMAIN mem.src
        /\ Head(op.todo).do = "fill" => SrcPath(mem, op.src) \in DOMAIN Base

\* What a creating handler answers with is known.
Creates ==
    /\ \A k \in 1..Len(op.todo) : op.todo[k].do = "create" => Makes /\ Last(op.todo[k].at) = Last(op.call.p)
    /\ Makes /\ op.todo # <<>> => op.todo[Len(op.todo)].do = "create"
    /\ Makes /\ op.todo = <<>> =>
          LET e == <<ResolveDeltaParent(mem, op.x), Last(op.call.p)>>
          IN e \in DOMAIN ent /\ <<"delta", ent[e]>> \in DOMAIN mem.rev

Kernel ==
    /\ \A p \in DOMAIN dcache : dcache[p] \in DOMAIN mem.inode
    /\ answer \in {"ok", "error"} /\ session \in 1..MaxSession /\ stale \in BOOLEAN

\* The inductive invariant: what is stored, the maps, and what the running
\* handler has left to do and relies on.
OverlayInv ==
    DeltaTyped /\ MemTyped(mem) /\ 1 \in DOMAIN mem.inode /\ Kernel /\ OpTyped /\ ParentsThere /\ Handed /\ Creates

LEMMA TodoTail ==
    ASSUME NEW s, Todo(s), s # <<>>
    PROVE  /\ Todo(Tail(s)) /\ StepOk(Head(s)) /\ Len(s) \in Nat /\ Len(s) >= 1 /\ s[1] = Head(s)
           /\ Len(Tail(s)) = Len(s) - 1 /\ \A k \in 1..Len(Tail(s)) : Tail(s)[k] = s[k + 1] /\ k + 1 \in 1..Len(s)
           /\ Tail(s) # <<>> => Joins(Head(s), Head(Tail(s)))
PROOF
  <1> DEFINE t == Tail(s)
  <1>1. s \in Seq(StepType) /\ Len(s) \in Nat /\ Len(s) >= 1 /\ s[1] = Head(s)
    BY DEF Todo
  <1>2. t \in Seq(StepType) /\ Len(t) = Len(s) - 1 /\ \A k \in 1..Len(t) : t[k] = s[k + 1]
    BY <1>1
  <1>3. t # <<>> => Head(t) = s[2] /\ 1 \in 1..Len(s) - 1
    BY <1>1
  <1> HIDE DEF t
  <1>4. \A k \in 1..Len(t) : k + 1 \in 1..Len(s)
    BY <1>1, <1>2
  <1>5. \A k \in 1..Len(t) - 1 : k \in 1..Len(t) /\ k + 1 \in 1..Len(t) /\ k + 1 \in 1..Len(s) - 1
    BY <1>1, <1>2
  <1>6. \A k \in 1..Len(t) : StepOk(t[k])
    BY <1>2, <1>4 DEF Todo
  <1>7. \A k \in 1..Len(t) - 1 : Joins(t[k], t[k + 1])
    BY <1>2, <1>5 DEF Todo
  <1>8. ASSUME NEW k \in 1..Len(t), NEW j \in 1..Len(t), t[k].do \in {"remove", "move", "whiteout"}, k < j
        PROVE  t[j].do = "whiteout"
    <2>1. k + 1 \in 1..Len(s) /\ j + 1 \in 1..Len(s) /\ k + 1 < j + 1 /\ t[k] = s[k + 1] /\ t[j] = s[j + 1]
      BY <1>2, <1>4, <1>8
    <2> QED BY <1>8, <2>1 DEF Todo
  <1>9. Todo(t)
    BY <1>2, <1>6, <1>7, <1>8 DEF Todo
  <1>10. t # <<>> => Joins(Head(s), Head(t))
    <2>1. t # <<>> => Joins(s[1], s[1 + 1])
      BY <1>1, <1>3 DEF Todo
    <2> QED BY <1>1, <1>3, <2>1
  <1>11. StepOk(Head(s))
    <2>1. 1 \in 1..Len(s)
      BY <1>1
    <2> QED BY <1>1, <2>1 DEF Todo
  <1> QED BY <1>1, <1>2, <1>4, <1>9, <1>10, <1>11 DEF t

\* What a tail has the whole has; after a removal only whiteouts are left.
LEMMA TailHas ==
    ASSUME NEW s, Todo(s), s # <<>>
    PROVE  /\ \A S : Has(Tail(s), S) => Has(s, S)
           /\ \A S : Has(s, S) => Head(s).do \in S \/ Has(Tail(s), S)
           /\ \A S : Head(s).do \in S => Has(s, S)
           /\ \A S : Head(s).do \in {"remove", "move", "whiteout"} /\ "whiteout" \notin S => ~Has(Tail(s), S)
           /\ Tail(s) # <<>> => Tail(s)[Len(Tail(s))] = s[Len(s)]
           /\ Tail(s) = <<>> => s[Len(s)] = Head(s)
PROOF
  <1> DEFINE t == Tail(s)
  <1>1. /\ Len(s) \in Nat /\ Len(s) >= 1 /\ s[1] = Head(s) /\ Len(t) = Len(s) - 1
        /\ \A k \in 1..Len(t) : t[k] = s[k + 1] /\ k + 1 \in 1..Len(s)
        /\ Todo(t)
    BY TodoTail
  <1> HIDE DEF t
  <1>a. t \in Seq(StepType)
    BY <1>1 DEF Todo
  <1>2. (t = <<>>) <=> (Len(t) = 0)
    BY <1>a
  <1>3. \A S : Has(t, S) => Has(s, S)
    BY <1>1 DEF Has
  <1>4. ASSUME NEW S, Has(s, S) PROVE Head(s).do \in S \/ Has(t, S)
    <2>1. PICK k \in 1..Len(s) : s[k].do \in S
      BY <1>4 DEF Has
    <2>2. CASE k = 1
      BY <1>1, <2>1, <2>2
    <2>3. CASE k # 1
      <3>1. k - 1 \in 1..Len(t) /\ t[k - 1] = s[(k - 1) + 1] /\ (k - 1) + 1 = k
        BY <1>1, <2>3
      <3> QED BY <2>1, <3>1 DEF Has
    <2> QED BY <2>2, <2>3
  <1>5. \A S : Head(s).do \in S => Has(s, S)
    <2>1. 1 \in 1..Len(s)
      BY <1>1
    <2> QED BY <1>1, <2>1 DEF Has
  <1>6. ASSUME NEW S, Head(s).do \in {"remove", "move", "whiteout"}, "whiteout" \notin S, Has(t, S)
        PROVE  FALSE
    <2>1. PICK k \in 1..Len(t) : t[k].do \in S
      BY <1>6 DEF Has
    <2>2. k + 1 \in 1..Len(s) /\ 1 \in 1..Len(s) /\ 1 < k + 1 /\ t[k] = s[k + 1]
      BY <1>1
    <2>3. s[k + 1].do = "whiteout"
      BY <1>1, <1>6, <2>2 DEF Todo
    <2> QED BY <1>6, <2>1, <2>2, <2>3
  <1>7. /\ t # <<>> => t[Len(t)] = s[Len(s)]
        /\ t = <<>> => s[Len(s)] = Head(s)
    <2>1. ASSUME t # <<>> PROVE t[Len(t)] = s[Len(s)]
      <3>1. Len(t) \in 1..Len(t) /\ Len(t) + 1 = Len(s)
        BY <1>1, <1>2, <2>1
      <3> QED BY <1>1, <3>1
    <2>2. ASSUME t = <<>> PROVE s[Len(s)] = Head(s)
      <3>1. Len(s) = 1
        BY <1>1, <1>2, <2>2
      <3> QED BY <1>1, <3>1
    <2> QED BY <2>1, <2>2
  <1> QED BY <1>3, <1>4, <1>5, <1>6, <1>7 DEF t

\* What a handler does before its last statements.
Prep(s) ==
    /\ Todo(s) /\ \A k \in 1..Len(s) : s[k].do \in Preparing
    /\ s # <<>> => Head(s).do \notin {"parent_origin", "fill"}

Meets(s, t) == IF s = <<>> THEN Head(t).do \notin {"parent_origin", "fill"} ELSE Joins(s[Len(s)], Head(t))

LEMMA MeetsAny ==
    ASSUME NEW s, NEW t, Prep(s), Head(t).do \notin {"parent_origin", "fill"}
    PROVE  Meets(s, t)
PROOF
  <1>1. CASE s = <<>>
    BY <1>1 DEF Meets
  <1>2. CASE s # <<>>
    <2>1. s \in Seq(StepType)
      BY DEF Prep, Todo
    <2>2. Len(s) \in 1..Len(s)
      BY <1>2, <2>1
    <2>3. s[Len(s)].do \notin {"touch", "create", "link"}
      BY <2>2 DEF Prep, Preparing
    <2> QED BY <1>2, <2>3 DEF Meets, Joins
  <1> QED BY <1>1, <1>2

LEMMA Concat ==
    ASSUME NEW s, NEW t, Prep(s), Todo(t), t # <<>>, Meets(s, t)
    PROVE  /\ Todo(s \o t) /\ s \o t # <<>> /\ Head(s \o t).do \notin {"parent_origin", "fill"}
           /\ (\A k \in 1..Len(t) : t[k].do \in Preparing) => Prep(s \o t)
           /\ \A S : S \cap Preparing = {} /\ Has(s \o t, S) => Has(t, S)
           /\ \A k \in 1..Len(s \o t) : (s \o t)[k].do \in Preparing \/ \E j \in 1..Len(t) : (s \o t)[k] = t[j]
           /\ (s \o t)[Len(s \o t)] = t[Len(t)]
PROOF
  <1> DEFINE u == s \o t
  <1>1. /\ s \in Seq(StepType) /\ t \in Seq(StepType) /\ Len(s) \in Nat /\ Len(t) \in Nat /\ Len(t) >= 1
        /\ Head(t) = t[1] /\ (s # <<>> => Head(s) = s[1] /\ Len(s) >= 1)
    BY DEF Prep, Todo
  <1>2. /\ u \in Seq(StepType) /\ Len(u) = Len(s) + Len(t)
        /\ \A k \in 1..Len(s) : u[k] = s[k]
        /\ \A k \in 1..Len(t) : u[k + Len(s)] = t[k]
        /\ Head(u) = u[1]
    BY <1>1
  <1> HIDE DEF u
  <1>3. \A k \in 1..Len(u) : \/ k \in 1..Len(s) /\ u[k] = s[k]
                             \/ k - Len(s) \in 1..Len(t) /\ u[k] = t[k - Len(s)]
    BY <1>1, <1>2
  <1>4. /\ \A k \in 1..Len(s) : StepOk(s[k]) /\ s[k].do \in Preparing
        /\ \A k \in 1..Len(t) : StepOk(t[k])
    BY DEF Prep, Todo
  <1>5. \A k \in 1..Len(u) : StepOk(u[k])
    BY <1>3, <1>4
  <1>6. ASSUME NEW k \in 1..Len(u) - 1 PROVE Joins(u[k], u[k + 1])
    <2>1. CASE k \in 1..Len(s) - 1
      <3>1. u[k] = s[k] /\ u[k + 1] = s[k + 1]
        BY <1>1, <1>2, <2>1
      <3> QED BY <2>1, <3>1 DEF Prep, Todo
    <2>2. CASE k = Len(s)
      <3>1. k \in 1..Len(s) /\ 1 \in 1..Len(t) /\ k + 1 = 1 + Len(s)
        BY <1>1, <2>2
      <3>2. u[k] = s[k] /\ u[k + 1] = t[1] /\ s # <<>>
        BY <1>1, <1>2, <3>1
      <3>3. Joins(s[k], Head(t))
        BY <2>2, <3>2 DEF Meets
      <3> QED BY <1>1, <3>2, <3>3
    <2>3. CASE k > Len(s)
      <3> DEFINE j == k - Len(s)
      <3>1. j \in 1..Len(t) - 1 /\ j \in 1..Len(t) /\ j + 1 \in 1..Len(t) /\ k = j + Len(s) /\ k + 1 = (j + 1) + Len(s)
        BY <1>1, <1>2, <2>3
      <3> HIDE DEF j
      <3>2. u[k] = t[j] /\ u[k + 1] = t[j + 1]
        BY <1>2, <3>1
      <3> QED BY <3>1, <3>2 DEF Todo
    <2> QED BY <1>1, <1>2, <2>1, <2>2, <2>3
  <1>7. ASSUME NEW k \in 1..Len(u), NEW j \in 1..Len(u), u[k].do \in {"remove", "move", "whiteout"}, k < j
        PROVE  u[j].do = "whiteout"
    <2>1. k \notin 1..Len(s)
      BY <1>2, <1>4, <1>7 DEF Preparing
    <2>2. k - Len(s) \in 1..Len(t) /\ u[k] = t[k - Len(s)]
      BY <1>3, <2>1
    <2>3. j - Len(s) \in 1..Len(t) /\ u[j] = t[j - Len(s)] /\ k - Len(s) < j - Len(s)
      BY <1>1, <1>3, <1>7, <2>2
    <2> QED BY <1>7, <2>2, <2>3 DEF Todo
  <1>8. Todo(u)
    BY <1>2, <1>5, <1>6, <1>7 DEF Todo
  <1>9. u # <<>> /\ Head(u).do \notin {"parent_origin", "fill"}
    <2>1. u # <<>>
      BY <1>1, <1>2
    <2>2. CASE s = <<>>
      <3>1. 1 \in 1..Len(t) /\ 1 + Len(s) = 1
        BY <1>1, <2>2
      <3> QED BY <1>1, <1>2, <2>1, <2>2, <3>1 DEF Meets
    <2>3. CASE s # <<>>
      <3>1. 1 \in 1..Len(s)
        BY <1>1, <2>3
      <3> QED BY <1>1, <1>2, <2>1, <2>3, <3>1 DEF Prep
    <2> QED BY <2>2, <2>3
  <1>10. (\A k \in 1..Len(t) : t[k].do \in Preparing) => Prep(u)
    BY <1>3, <1>4, <1>8, <1>9 DEF Prep
  <1>11. ASSUME NEW S, S \cap Preparing = {}, Has(u, S) PROVE Has(t, S)
    <2>1. PICK k \in 1..Len(u) : u[k].do \in S
      BY <1>11 DEF Has
    <2>2. k - Len(s) \in 1..Len(t) /\ u[k] = t[k - Len(s)]
      BY <1>3, <1>4, <1>11, <2>1
    <2> QED BY <2>1, <2>2 DEF Has
  <1>12. \A k \in 1..Len(u) : u[k].do \in Preparing \/ \E j \in 1..Len(t) : u[k] = t[j]
    BY <1>3, <1>4
  <1>13. u[Len(u)] = t[Len(t)]
    <2>1. Len(t) \in 1..Len(t) /\ Len(t) + Len(s) = Len(u)
      BY <1>1, <1>2
    <2> QED BY <1>2, <2>1
  <1> QED BY <1>8, <1>9, <1>10, <1>11, <1>12, <1>13 DEF u

LEMMA StepTyped == \A s \in Preparing \cup Ending : \A p \in Named : StepOk(Step(s, p)) /\ Step(s, p).do = s /\ Step(s, p).at = p
BY DEF StepOk, Step, StepType, Named, AnyPath

LEMMA OneStep ==
    ASSUME NEW t, StepOk(t)
    PROVE  /\ Todo(<<t>>) /\ <<t>> # <<>> /\ Head(<<t>>) = t /\ Len(<<t>>) = 1 /\ <<t>>[1] = t
           /\ (\A k \in 1..Len(<<t>>) : <<t>>[k] = t) /\ \A S : Has(<<t>>, S) <=> t.do \in S
           /\ t.do \in Preparing /\ t.do \notin {"parent_origin", "fill"} => Prep(<<t>>)
PROOF
  <1>1. <<t>> \in Seq(StepType) /\ Len(<<t>>) = 1 /\ <<t>>[1] = t /\ <<t>> # <<>> /\ Head(<<t>>) = t
    BY DEF StepOk
  <1>2. \A k \in 1..Len(<<t>>) : <<t>>[k] = t
    BY <1>1
  <1>3. 1..Len(<<t>>) - 1 = {} /\ \A k, j \in 1..Len(<<t>>) : ~(k < j)
    BY <1>1
  <1>4. Todo(<<t>>)
    BY <1>1, <1>2, <1>3 DEF Todo
  <1>5. \A S : Has(<<t>>, S) <=> t.do \in S
    BY <1>1 DEF Has
  <1> QED BY <1>1, <1>2, <1>4, <1>5 DEF Prep

LEMMA NoSteps == Prep(<<>>) /\ Todo(<<>>)
PROOF
  <1>1. <<>> \in Seq(StepType) /\ Len(<<>>) = 0 /\ 1..0 = {} /\ 1..0 - 1 = {}
    OBVIOUS
  <1> QED BY <1>1 DEF Prep, Todo

\* A preparing step more at the end.
LEMMA OneMore ==
    ASSUME NEW s, NEW t, Prep(s), StepOk(t), t.do \in Preparing, Meets(s, <<t>>)
    PROVE  Prep(s \o <<t>>) /\ (s \o <<t>>) # <<>> /\ (s \o <<t>>)[Len(s \o <<t>>)] = t
PROOF
  <1> DEFINE u == <<t>>
  <1>1. Todo(u) /\ u # <<>> /\ (\A k \in 1..Len(u) : u[k] = t) /\ Len(u) = 1 /\ u[1] = t
    BY OneStep
  <1>2. Meets(s, u)
    OBVIOUS
  <1> HIDE DEF u
  <1>3. Prep(s \o u) /\ s \o u # <<>> /\ (s \o u)[Len(s \o u)] = u[Len(u)]
    BY <1>1, <1>2, Concat
  <1> QED BY <1>1, <1>3 DEF u

LEMMA ParentsPrep == \A p \in Named : Prep(Parents(p))
PROOF
  <1> TAKE p \in Named
  <1>1. CASE Len(p) = 1
    BY <1>1, NoSteps DEF Parents
  <1>2. CASE Len(p) # 1
    <2> DEFINE f == Front(p)
               a == Step("clear", f)
               b == Step("parent", f)
               c == Step("parent_origin", f)
    <2>1. f \in Named
      <3>1. f \in AnyPath /\ Len(f) = Len(p) - 1 /\ Len(p) \in Nat
        BY PathParts DEF Named
      <3> HIDE DEF f
      <3>2. f # <<>>
        BY <1>2, <3>1
      <3> QED BY <3>1, <3>2 DEF Named, AnyPath
    <2>2. /\ StepOk(a) /\ StepOk(b) /\ StepOk(c) /\ Joins(a, b) /\ Joins(b, c)
          /\ a.do = "clear" /\ b.do = "parent" /\ c.do = "parent_origin"
      <3> HIDE DEF f
      <3> QED BY <2>1 DEF Joins, StepOk, Step, StepType, Named, AnyPath, Preparing
    <2>3. Parents(p) = <<a, b, c>>
      BY <1>2 DEF Parents
    <2> HIDE DEF a, b, c, f
    <2> DEFINE s == <<a, b, c>>
    <2>4. s \in Seq(StepType) /\ Len(s) = 3 /\ s[1] = a /\ s[2] = b /\ s[3] = c /\ Head(s) = a
      BY <2>2 DEF StepOk
    <2> HIDE DEF s
    <2>5. \A k \in 1..Len(s) : StepOk(s[k]) /\ s[k].do \in Preparing /\ s[k].do \notin {"remove", "move", "whiteout"}
      BY <2>2, <2>4 DEF Preparing
    <2>6. \A k \in 1..Len(s) - 1 : Joins(s[k], s[k + 1])
      <3> SUFFICES ASSUME NEW k \in 1..Len(s) - 1 PROVE Joins(s[k], s[k + 1])
        OBVIOUS
      <3>1. (k = 1 /\ k + 1 = 2) \/ (k = 2 /\ k + 1 = 3)
        BY <2>4
      <3> QED BY <2>2, <2>4, <3>1
    <2>7. Todo(s)
      BY <2>4, <2>5, <2>6 DEF Todo
    <2>8. Prep(s)
      BY <2>2, <2>4, <2>5, <2>7 DEF Prep
    <2> QED BY <2>3, <2>8 DEF s
  <1> QED BY <1>1, <1>2

LEMMA CopyUpPrep ==
    ASSUME NEW m, NEW p \in Named, NEW b
    PROVE  Prep(CopyUp(m, p, b))
PROOF
  <1> DEFINE pp == Parents(p)
             s == pp \o <<Step("copy", p)>>
             f == IF SrcPath(m, b) \in DOMAIN Base /\ Base[SrcPath(m, b)] = "file" THEN <<Step("fill", p)>> ELSE <<>>
             t == s \o f
             u == t \o <<Step("origin", p)>>
  <1>1. Prep(pp)
    BY ParentsPrep
  <1>2. \A d \in {"copy", "fill", "origin"} : StepOk(Step(d, p)) /\ Step(d, p).do = d /\ d \in Preparing
    BY StepTyped DEF Preparing
  <1>3. CopyUp(m, p, b) = IF DeltaWalk(p) # None THEN <<>> ELSE u
    BY DEF CopyUp
  <1>4. Prep(s) /\ s # <<>> /\ s[Len(s)] = Step("copy", p)
    <2> HIDE DEF pp
    <2> DEFINE c == Step("copy", p)
    <2>1. StepOk(c) /\ c.do = "copy" /\ c.do \in Preparing
      BY <1>2
    <2> HIDE DEF c
    <2>2. Head(<<c>>) = c
      OBVIOUS
    <2>3. Meets(pp, <<c>>)
      BY <1>1, <2>1, <2>2, MeetsAny
    <2>4. Prep(pp \o <<c>>) /\ pp \o <<c>> # <<>> /\ (pp \o <<c>>)[Len(pp \o <<c>>)] = c
      BY <1>1, <2>1, <2>3, OneMore
    <2> QED BY <2>4 DEF c
  <1>5. Prep(t)
    <2> HIDE DEF s
    <2>1. CASE f = <<>>
      <3>1. t = s
        BY <1>4, <2>1 DEF Prep, Todo
      <3> QED BY <1>4, <3>1
    <2>2. CASE f = <<Step("fill", p)>>
      <3> DEFINE c == Step("fill", p)
      <3>1. StepOk(c) /\ c.do = "fill" /\ c.do \in Preparing /\ s[Len(s)].do = "copy"
        BY <1>2, <1>4
      <3>2. t = s \o <<c>>
        BY <2>2
      <3> HIDE DEF c, t
      <3>3. Head(<<c>>) = c
        OBVIOUS
      <3>4. Meets(s, <<c>>)
        BY <1>4, <3>1, <3>3 DEF Meets, Joins
      <3> QED BY <1>4, <3>1, <3>2, <3>4, OneMore
    <2> QED BY <2>1, <2>2
  <1>6. Prep(u)
    <2> DEFINE c == Step("origin", p)
    <2>1. StepOk(c) /\ c.do = "origin" /\ c.do \in Preparing
      BY <1>2
    <2>2. u = t \o <<c>>
      OBVIOUS
    <2> HIDE DEF c, t, u
    <2>3. Head(<<c>>) = c
      OBVIOUS
    <2>4. Meets(t, <<c>>)
      BY <1>5, <2>1, <2>3, MeetsAny
    <2> QED BY <1>5, <2>1, <2>2, <2>4, OneMore
  <1> HIDE DEF u
  <1> QED BY <1>3, <1>6, NoSteps

-----------------------------------------------------------------------------
(* How a handler begins, goes on and ends.                                 *)

LEMMA NoneLeft == \A S : ~Has(<<>>, S)
BY DEF Has

LEMMA Idles == NoOp.todo = <<>> /\ NoOp.call.what = "idle" /\ NoOp.made = None /\ NoOp.src = None /\ NoOp.x = 1 /\ NoOp.y = 1
               /\ DOMAIN NoOp = OpFields /\ NoOp.call = Idle
BY DEF NoOp, Idle, OpFields

\* No handler runs.
LEMMA Rests ==
    ASSUME op' = NoOp, DeltaTyped', MemTyped(mem)', 1 \in DOMAIN mem'.inode, Kernel'
    PROVE  OverlayInv'
PROOF
  <1>1. OpTyped'
    <2>1. op'.made < nextDelta'
      BY Idles DEF DeltaTyped, None
    <2> QED BY <2>1, Idles, NoSteps DEF OpTyped, Ready, None, Prep
  <1>2. ParentsThere' /\ Handed' /\ Creates'
    <2>1. op'.todo = <<>> /\ op'.call.what = "idle"
      BY Idles
    <2>2. \A S : ~Has(op'.todo, S)
      BY <2>1, NoneLeft
    <2>3. ParentsThere'
      BY <2>2 DEF ParentsThere
    <2>4. Handed'
      BY <2>1 DEF Handed
    <2>5. Creates'
      BY <2>1 DEF Creates, Makes
    <2> QED BY <2>3, <2>4, <2>5
  <1> QED BY <1>1, <1>2 DEF OverlayInv

LEMMA Returns ==
    ASSUME OverlayInv, NEW a \in {"ok", "error"}, Return(a), DeltaTyped', MemTyped(mem)',
           DOMAIN mem.inode \subseteq DOMAIN mem'.inode,
           UNCHANGED <<dcache, session>>, stale' \in BOOLEAN
    PROVE  OverlayInv'
PROOF
  <1>1. op' = NoOp /\ answer' = a
    BY DEF Return
  <1>2. 1 \in DOMAIN mem'.inode
    BY DEF OverlayInv
  <1>3. Kernel'
    BY <1>1 DEF Kernel, OverlayInv
  <1> QED BY <1>1, <1>2, <1>3, Rests

LEMMA Begins ==
    ASSUME OverlayInv, NEW call, NEW x, NEW y, NEW src, NEW m, NEW todo, Begin(call, x, y, src, m, todo), UNCHANGED stale,
           MemTyped(m), DOMAIN mem.inode \subseteq DOMAIN m.inode, x \in DOMAIN m.inode, y \in DOMAIN m.inode,
           src \in Nat, call.what # "idle",
           Todo(todo), todo # <<>>, Head(todo).do \notin {"parent_origin", "fill"},
           Has(todo, {"create", "link"}) => There(m.inode[x], DOMAIN node),
           Has(todo, {"move"}) => There(m.inode[y], DOMAIN node),
           Has(todo, {"link"}) => NotRoot(m.inode[y]),
           Has(todo, {"create", "link", "move"}) => call.what \notin {"modify", "open"},
           \A k \in 1..Len(todo) : todo[k].do = "create" => call.what \in {"file", "dir"} /\ Last(todo[k].at) = Last(call.p),
           call.what \in {"file", "dir"} => todo[Len(todo)].do = "create"
    PROVE  OverlayInv'
PROOF
  <1>1. /\ op'.call = call /\ op'.x = x /\ op'.y = y /\ op'.src = src /\ op'.made = None /\ op'.todo = todo
        /\ DOMAIN op' = OpFields
    BY DEF Begin, OpFields
  <1>2. mem' = m /\ UNCHANGED <<ent, node, nextDelta, whiteouts, origin, answer, dcache, session, stale>>
    BY DEF Begin, durable
  <1>3. DeltaTyped'
    BY <1>2 DEF OverlayInv, DeltaTyped
  <1>4. MemTyped(mem)' /\ 1 \in DOMAIN mem'.inode
    BY <1>2 DEF OverlayInv
  <1>5. Kernel'
    BY <1>2 DEF Kernel, OverlayInv
  <1>6. OpTyped'
    <2>1. ~Ready'
      BY <1>1 DEF Ready, Idle
    <2>2. op'.made < nextDelta' /\ op'.made \in Nat
      BY <1>1, <1>3 DEF DeltaTyped, None
    <2> QED BY <1>1, <1>2, <2>1, <2>2 DEF OpTyped
  <1>7. ParentsThere'
    BY <1>1, <1>2 DEF ParentsThere, There, NotRoot
  <1>8. Handed'
    BY <1>1 DEF Handed
  <1>9. Creates'
    BY <1>1 DEF Creates, Makes
  <1> QED BY <1>3, <1>4, <1>5, <1>6, <1>7, <1>8, <1>9 DEF OverlayInv

\* The first step is done; v is what it made, if anything.
Advanced(v) ==
    /\ op.todo # <<>> /\ ~Ready
    /\ DOMAIN op' = OpFields
    /\ op'.call = op.call /\ op'.x = op.x /\ op'.y = op.y /\ op'.src = op.src
    /\ op'.todo = Rest /\ op'.made = v

LEMMA AdvanceIs ==
    ASSUME OpTyped, op.todo # <<>>, ~Ready
    PROVE  /\ Advance => Advanced(op.made)
           /\ \A v : op' = [op EXCEPT !.todo = Rest, !.made = v] => Advanced(v)
BY DEF OpTyped, OpFields, Advance, Advanced, Rest

LEMMA Advances ==
    ASSUME OverlayInv, NEW v \in Nat, Advanced(v), v < nextDelta',
           DeltaTyped', MemTyped(mem)', DOMAIN mem.inode \subseteq DOMAIN mem'.inode,
           Kernel',
           Has(Rest, {"create", "link"}) /\ There(mem.inode[op.x], DOMAIN node) => There(mem'.inode[op.x], DOMAIN node'),
           Has(Rest, {"move"}) /\ There(mem.inode[op.y], DOMAIN node) => There(mem'.inode[op.y], DOMAIN node'),
           Has(Rest, {"link"}) /\ NotRoot(mem.inode[op.y]) => NotRoot(mem'.inode[op.y]),
           Has(Rest, {"parent_origin"}) /\ v # None => v \in DOMAIN node' \ {1},
           Rest # <<>> /\ Head(Rest).do = "parent_origin" /\ Head(Rest).at \in DOMAIN Base => Head(Rest).at \in DOMAIN mem'.src,
           Rest # <<>> /\ Head(Rest).do = "fill" => SrcPath(mem', op.src) \in DOMAIN Base,
           Makes /\ Head(op.todo).do = "create" => Creates'
    PROVE  OverlayInv'
PROOF
  <1>1. OpTyped /\ ParentsThere /\ Creates
    BY DEF OverlayInv
  <1>2. op.todo # <<>> /\ Todo(op.todo)
    BY <1>1 DEF Advanced, OpTyped
  <1>3. /\ Todo(Rest) /\ Len(Rest) = Len(op.todo) - 1 /\ Len(op.todo) \in Nat
        /\ \A k \in 1..Len(Rest) : Rest[k] = op.todo[k + 1] /\ k + 1 \in 1..Len(op.todo)
    BY <1>2, TodoTail DEF Rest
  <1>4. /\ \A S : Has(Rest, S) => Has(op.todo, S)
        /\ Rest # <<>> => Rest[Len(Rest)] = op.todo[Len(op.todo)]
        /\ Rest = <<>> => op.todo[Len(op.todo)] = Head(op.todo)
    BY <1>2, TailHas DEF Rest
  <1> HIDE DEF Rest
  <1>5. /\ op'.call = op.call /\ op'.x = op.x /\ op'.y = op.y /\ op'.src = op.src
        /\ op'.todo = Rest /\ op'.made = v /\ DOMAIN op' = OpFields /\ ~Ready
    BY DEF Advanced
  <1>6. OpTyped'
    <2>1. ~Ready'
      BY <1>5 DEF Ready
    <2> QED BY <1>1, <1>3, <1>5, <2>1 DEF OpTyped
  <1>7. ParentsThere'
    <2>1. \A S : Has(op'.todo, S) <=> Has(Rest, S)
      BY <1>5
    <2>2. Has(op'.todo, {"create", "link"}) => There(mem'.inode[op.x], DOMAIN node')
      BY <1>1, <1>4, <2>1 DEF ParentsThere
    <2>3. Has(op'.todo, {"move"}) => There(mem'.inode[op.y], DOMAIN node')
      BY <1>1, <1>4, <2>1 DEF ParentsThere
    <2>4. Has(op'.todo, {"link"}) => NotRoot(mem'.inode[op.y])
      BY <1>1, <1>4, <2>1 DEF ParentsThere
    <2>5. Has(op'.todo, {"create", "link", "move"}) => op'.call.what \notin {"modify", "open"}
      BY <1>1, <1>4, <1>5, <2>1 DEF ParentsThere
    <2>6. Has(op'.todo, {"parent_origin"}) /\ op'.made # None => op'.made \in DOMAIN node' \ {1}
      BY <1>5, <2>1
    <2> QED BY <1>5, <2>2, <2>3, <2>4, <2>5, <2>6 DEF ParentsThere
  <1>8. Handed'
    BY <1>5 DEF Handed, At
  <1>9. Creates'
    <2>1. CASE Makes /\ Head(op.todo).do = "create"
      BY <2>1
    <2>2. CASE ~(Makes /\ Head(op.todo).do = "create")
      <3>1. Makes' <=> Makes
        BY <1>5 DEF Makes
      <3>2. Makes => op.todo[Len(op.todo)].do = "create"
        BY <1>1, <1>2 DEF Creates
      <3>3. ~(Makes /\ Rest = <<>>)
        BY <1>4, <2>2, <3>2
      <3>4. Makes /\ Rest # <<>> => Rest[Len(Rest)].do = "create"
        BY <1>4, <3>2
      <3>5. \A k \in 1..Len(Rest) : Rest[k].do = "create" => Makes /\ Last(Rest[k].at) = Last(op.call.p)
        BY <1>1, <1>3 DEF Creates
      <3> QED BY <1>5, <3>1, <3>3, <3>4, <3>5 DEF Creates
    <2> QED BY <2>1, <2>2
  <1> QED BY <1>6, <1>7, <1>8, <1>9 DEF OverlayInv

-----------------------------------------------------------------------------
(* The steps of a handler.                                                 *)

LEMMA SameDelta ==
    ASSUME DeltaTyped, UNCHANGED <<ent, node, nextDelta, origin>>
    PROVE  DeltaTyped'
BY DEF DeltaTyped

LEMMA SameKernel ==
    ASSUME Kernel, UNCHANGED <<dcache, session>>, answer' \in {"ok", "error"}, stale' \in BOOLEAN,
           DOMAIN mem.inode \subseteq DOMAIN mem'.inode
    PROVE  Kernel'
BY DEF Kernel

\* A handler's step that returns an error, or its end, whatever else it did.
LEMMA Running ==
    ASSUME OverlayInv, NEW s, Doing(s)
    PROVE  /\ op.todo # <<>> /\ ~Ready /\ Head(op.todo).do = s /\ StepOk(Head(op.todo))
           /\ OpTyped /\ DeltaTyped /\ MemTyped(mem) /\ Kernel /\ ParentsThere /\ Handed /\ Creates
           /\ Has(op.todo, {s}) /\ At = Head(op.todo).at /\ op.made \in Nat /\ op.made < nextDelta
           /\ s # "touch" => At \in Named /\ At \in AnyPath /\ Last(At) \in Names /\ Front(At) \in AnyPath
PROOF
  <1>1. op.todo # <<>> /\ ~Ready /\ Head(op.todo).do = s /\ At = Head(op.todo).at
    BY DEF Doing, At
  <1>2. OpTyped /\ Todo(op.todo) /\ op.made \in Nat /\ op.made < nextDelta
    BY DEF OverlayInv, OpTyped
  <1>3. StepOk(Head(op.todo))
    BY <1>1, <1>2, TodoTail
  <1>4. Has(op.todo, {s})
    BY <1>1, <1>2, TailHas
  <1>5. s # "touch" => At \in Named /\ At \in AnyPath
    BY <1>1, <1>3 DEF StepOk, StepType, Named, AnyPath
  <1> QED BY <1>1, <1>2, <1>3, <1>4, <1>5, PathParts DEF OverlayInv

LEMMA NewNodeTyped ==
    ASSUME DeltaTyped, NEW dir \in DOMAIN node, NEW n \in Names, NEW v \in NodeType, NewNode(dir, n, v), UNCHANGED origin
    PROVE  /\ DeltaTyped' /\ nextDelta \in DOMAIN node' \ {1} /\ DOMAIN node \subseteq DOMAIN node'
           /\ nextDelta \in Nat /\ nextDelta < nextDelta' /\ nextDelta # None
           /\ DOMAIN ent' = DOMAIN ent \cup {<<dir, n>>} /\ ent'[<<dir, n>>] = nextDelta
           /\ \A e \in DOMAIN ent : e # <<dir, n>> => ent'[e] = ent[e]
           /\ \A d \in DOMAIN node : node'[d] = node[d]
PROOF
  <1>1. nextDelta \in Nat /\ nextDelta >= 2 /\ nextDelta <= MaxDelta /\ nextDelta' = nextDelta + 1 /\ MaxDelta \in Nat
    BY BoundsAssumption DEF NewNode, DeltaTyped
  <1>2. nextDelta \notin DOMAIN node
    BY <1>1 DEF DeltaTyped
  <1>3. DOMAIN node' = DOMAIN node \cup {nextDelta} /\ node'[nextDelta] = v /\ \A d \in DOMAIN node : node'[d] = node[d]
    <2>1. node' = Add(node, nextDelta, v)
      BY DEF NewNode
    <2> QED BY <1>2, <2>1 DEF Add
  <1>4. /\ DOMAIN ent' = DOMAIN ent \cup {<<dir, n>>} /\ ent'[<<dir, n>>] = nextDelta
        /\ \A e \in DOMAIN ent : e # <<dir, n>> => ent'[e] = ent[e]
    <2>1. ent' = Add(ent, <<dir, n>>, nextDelta)
      BY DEF NewNode
    <2> DEFINE k == <<dir, n>>
    <2> HIDE DEF k
    <2>2. ent' = Add(ent, k, nextDelta)
      BY <2>1 DEF k
    <2>3. DOMAIN ent' = DOMAIN ent \cup {k} /\ ent'[k] = nextDelta /\ \A e \in DOMAIN ent : e # k => ent'[e] = ent[e]
      BY <2>2 DEF Add
    <2> QED BY <2>3 DEF k
  <1>5. \A d \in DOMAIN node' : d \in Nat /\ 1 <= d /\ d < nextDelta' /\ node'[d] \in NodeType
    BY <1>1, <1>3 DEF DeltaTyped
  <1>6. 1 \in DOMAIN node' /\ node'[1].kind = "dir"
    BY <1>1, <1>2, <1>3 DEF DeltaTyped
  <1>7. ASSUME NEW e \in DOMAIN ent' PROVE e \in (DOMAIN node') \X Names /\ ent'[e] \in DOMAIN node' \ {1}
    <2>1. CASE e = <<dir, n>>
      BY <1>1, <1>3, <1>4, <2>1
    <2>2. CASE e # <<dir, n>>
      <3>1. e \in DOMAIN ent /\ ent'[e] = ent[e]
        BY <1>4, <2>2
      <3>2. e \in (DOMAIN node) \X Names /\ ent[e] \in DOMAIN node \ {1}
        BY <3>1 DEF DeltaTyped
      <3> QED BY <1>3, <3>1, <3>2
    <2> QED BY <2>1, <2>2
  <1>8. nextDelta' \in 2..MaxDelta + 1 /\ \A d \in DOMAIN origin' : d \in Nat /\ d < nextDelta' /\ origin'[d] \in Nat
    BY <1>1 DEF DeltaTyped
  <1>9. DeltaTyped'
    BY <1>5, <1>6, <1>7, <1>8 DEF DeltaTyped
  <1> QED BY <1>1, <1>3, <1>4, <1>9 DEF None

\* Steps after which the next is neither a new parent's origin nor a fill.
LEMMA JoinsNext ==
    ASSUME NEW s, OverlayInv, Doing(s)
    PROVE  /\ Rest # <<>> /\ Head(Rest).do = "parent_origin" => s = "parent" /\ Head(Rest).at = At
           /\ Rest # <<>> /\ Head(Rest).do = "fill" => s = "copy"
           /\ s \in {"touch", "create", "link"} => Rest = <<>>
PROOF
  <1>1. op.todo # <<>> /\ Todo(op.todo) /\ Head(op.todo).do = s /\ At = Head(op.todo).at
    BY Running DEF OpTyped
  <1>2. Rest # <<>> => Joins(Head(op.todo), Head(Rest))
    BY <1>1, TodoTail DEF Rest
  <1> HIDE DEF Rest
  <1> QED BY <1>1, <1>2 DEF Joins, Step

LEMMA SrcPathIn ==
    ASSUME NEW m, DOMAIN m.src \subseteq DOMAIN Base, NEW b
    PROVE  SrcPath(m, b) \in {<<>>, <<"forgotten">>} \cup DOMAIN Base
BY DEF SrcPath, Root

\* Where the maps and the delta's inodes stay, a step need only see to itself.
LEMMA Plain ==
    ASSUME OverlayInv, NEW s, Doing(s), s \notin {"create", "parent", "copy"}, NEW v \in Nat, Advanced(v), v < nextDelta',
           v \in {None, op.made},
           DeltaTyped', mem' = mem, Kernel', DOMAIN node \subseteq DOMAIN node'
    PROVE  OverlayInv'
PROOF
  <1>1. /\ op.todo # <<>> /\ Head(op.todo).do = s /\ ParentsThere /\ OpTyped /\ MemTyped(mem)
    BY Running
  <1>2. Has(Rest, {"parent_origin"}) => Has(op.todo, {"parent_origin"})
    BY <1>1, TailHas DEF OpTyped, Rest
  <1>3. Has(Rest, {"parent_origin"}) /\ v # None => v \in DOMAIN node' \ {1}
    BY <1>1, <1>2 DEF ParentsThere
  <1>4. /\ Rest # <<>> => Head(Rest).do \notin {"parent_origin", "fill"}
    BY JoinsNext
  <1>5. /\ There(mem.inode[op.x], DOMAIN node) => There(mem'.inode[op.x], DOMAIN node')
        /\ There(mem.inode[op.y], DOMAIN node) => There(mem'.inode[op.y], DOMAIN node')
        /\ NotRoot(mem.inode[op.y]) => NotRoot(mem'.inode[op.y])
    BY DEF There
  <1>6. MemTyped(mem)' /\ DOMAIN mem.inode \subseteq DOMAIN mem'.inode
    BY <1>1
  <1>7. ~(Makes /\ Head(op.todo).do = "create")
    BY <1>1
  <1> HIDE DEF Rest
  <1> QED BY <1>3, <1>4, <1>5, <1>6, <1>7, Advances

LEMMA RemoveWhiteoutSafe == OverlayInv /\ RemoveWhiteout => OverlayInv'
PROOF
  <1> SUFFICES ASSUME OverlayInv, RemoveWhiteout PROVE OverlayInv'
    OBVIOUS
  <1>1. Doing("clear") /\ Advance /\ UNCHANGED <<ent, node, nextDelta, origin, mem, answer, dcache, session, stale>>
    BY DEF RemoveWhiteout
  <1>2. DeltaTyped /\ Kernel /\ op.made \in Nat /\ op.made < nextDelta /\ op.todo # <<>> /\ ~Ready /\ OpTyped
    BY <1>1, Running
  <1>3. Advanced(op.made)
    BY <1>1, <1>2, AdvanceIs
  <1>4. DeltaTyped' /\ Kernel'
    BY <1>1, <1>2, SameDelta DEF Kernel
  <1> QED BY <1>1, <1>2, <1>3, <1>4, Plain

LEMMA EnsureParentSafe == OverlayInv /\ EnsureParent => OverlayInv'
PROOF
  <1> SUFFICES ASSUME OverlayInv, EnsureParent PROVE OverlayInv'
    OBVIOUS
  <1> DEFINE k == BaseWalk(mem, At)
             w == DeltaWalk(At)
  <1>1. Doing("parent") /\ mem' = k /\ UNCHANGED <<whiteouts, origin, dcache, session, stale>>
    BY DEF EnsureParent
  <1>2. /\ DeltaTyped /\ MemTyped(mem) /\ Kernel /\ OpTyped /\ ParentsThere /\ op.made \in Nat /\ op.made < nextDelta
        /\ op.todo # <<>> /\ ~Ready /\ At \in Named /\ At \in AnyPath /\ Last(At) \in Names /\ Head(op.todo).do = "parent"
    <2>1. Doing("parent") /\ "parent" # "touch"
      BY <1>1
    <2> QED BY <2>1, Running
  <1>3. MemTyped(k) /\ k.inode = mem.inode /\ (At \in DOMAIN Base => At \in DOMAIN k.src)
    BY <1>2, BaseWalkTyped
  <1> HIDE DEF k, w
  <1>4. ASSUME NEW v \in Nat, Advanced(v), v < nextDelta', DeltaTyped', Kernel', DOMAIN node \subseteq DOMAIN node',
               v = op.made \/ v \in DOMAIN node' \ {1}
        PROVE  OverlayInv'
    <2>1. Has(Rest, {"parent_origin"}) => Has(op.todo, {"parent_origin"})
      BY <1>2, TailHas DEF OpTyped, Rest
    <2>2. Has(Rest, {"parent_origin"}) /\ v # None => v \in DOMAIN node' \ {1}
      BY <1>2, <1>4, <2>1 DEF ParentsThere
    <2>3. /\ Rest # <<>> /\ Head(Rest).do = "parent_origin" => Head(Rest).at = At
          /\ Rest # <<>> => Head(Rest).do # "fill"
      BY <1>1, JoinsNext
    <2>4. /\ There(mem.inode[op.x], DOMAIN node) => There(mem'.inode[op.x], DOMAIN node')
          /\ There(mem.inode[op.y], DOMAIN node) => There(mem'.inode[op.y], DOMAIN node')
          /\ NotRoot(mem.inode[op.y]) => NotRoot(mem'.inode[op.y])
      BY <1>1, <1>3, <1>4 DEF There
    <2>5. MemTyped(mem)' /\ DOMAIN mem.inode \subseteq DOMAIN mem'.inode
      BY <1>1, <1>3
    <2>6. Rest # <<>> /\ Head(Rest).do = "parent_origin" /\ Head(Rest).at \in DOMAIN Base => Head(Rest).at \in DOMAIN mem'.src
      BY <1>1, <1>3, <2>3
    <2>7. ~(Makes /\ Head(op.todo).do = "create")
      BY <1>2
    <2> HIDE DEF Rest
    <2> QED BY <1>4, <2>2, <2>3, <2>4, <2>5, <2>6, <2>7, Advances
  <1>5. CASE w # None
    <2>1. (IF node[w].kind = "dir" THEN Advance /\ UNCHANGED answer ELSE Return("error")) /\ UNCHANGED <<ent, node, nextDelta>>
      BY <1>5 DEF EnsureParent, w
    <2>2. DeltaTyped'
      BY <1>1, <1>2, <2>1, SameDelta
    <2>3. CASE Advance /\ UNCHANGED answer
      <3>1. Kernel'
        BY <1>1, <1>2, <1>3, <2>3 DEF Kernel
      <3>2. Advanced(op.made)
        BY <1>2, <2>3, AdvanceIs
      <3> QED BY <1>2, <1>4, <2>1, <2>2, <3>1, <3>2
    <2>4. CASE Return("error")
      <3>1. MemTyped(mem)' /\ DOMAIN mem.inode \subseteq DOMAIN mem'.inode /\ stale' \in BOOLEAN
        BY <1>1, <1>2, <1>3 DEF Kernel
      <3> QED BY <1>1, <2>2, <2>4, <3>1, Returns
    <2> QED BY <2>1, <2>3, <2>4
  <1>6. CASE w = None
    <2> DEFINE v == [kind |-> "dir", from |-> <<>>, mod |-> FALSE]
    <2>1. NewNode(1, Last(At), v) /\ op' = [op EXCEPT !.todo = Rest, !.made = nextDelta] /\ UNCHANGED answer
      BY <1>6 DEF EnsureParent, w
    <2>2. v \in NodeType
      BY DEF NodeType
    <2> HIDE DEF v
    <2>3. /\ DeltaTyped' /\ nextDelta \in DOMAIN node' \ {1} /\ DOMAIN node \subseteq DOMAIN node'
          /\ nextDelta \in Nat /\ nextDelta < nextDelta'
      BY <1>1, <1>2, <2>1, <2>2, NewNodeTyped DEF DeltaTyped
    <2>4. Advanced(nextDelta)
      BY <1>2, <2>1, AdvanceIs
    <2>5. Kernel'
      BY <1>1, <1>2, <1>3, <2>1 DEF Kernel
    <2> QED BY <1>4, <2>3, <2>4, <2>5
  <1> QED BY <1>5, <1>6

LEMMA ParentOriginSafe == OverlayInv /\ ParentOrigin => OverlayInv'
PROOF
  <1> SUFFICES ASSUME OverlayInv, ParentOrigin PROVE OverlayInv'
    OBVIOUS
  <1>1. /\ Doing("parent_origin") /\ op' = [op EXCEPT !.todo = Rest, !.made = None]
        /\ UNCHANGED <<ent, node, nextDelta, whiteouts, answer, dcache, session, stale>>
    BY DEF ParentOrigin
  <1>2. /\ DeltaTyped /\ MemTyped(mem) /\ Kernel /\ OpTyped /\ ParentsThere /\ Handed /\ op.made \in Nat /\ op.made < nextDelta
        /\ op.todo # <<>> /\ ~Ready /\ Head(op.todo).do = "parent_origin" /\ Has(op.todo, {"parent_origin"})
    BY <1>1, Running
  <1>3. Advanced(None)
    BY <1>1, <1>2, AdvanceIs
  <1>4. None \in Nat /\ None < nextDelta'
    BY <1>1, <1>2 DEF DeltaTyped, None
  <1>5. CASE op.made # None /\ At \in DOMAIN Base
    <2> DEFINE k == PromoteToDelta(mem, At, op.made)
               d == op.made
    <2>1. origin' = Add(origin, d, mem.src[At]) /\ mem' = k
      BY <1>5 DEF ParentOrigin
    <2>2. d \in DOMAIN node \ {1} /\ At \in DOMAIN mem.src
      BY <1>2, <1>5 DEF ParentsThere, Handed
    <2>3. mem.src[At] \in Nat
      BY <1>2, <2>2 DEF MemTyped
    <2>4. /\ MemTyped(k) /\ DOMAIN k.inode = DOMAIN mem.inode
          /\ \A y \in DOMAIN mem.inode : k.inode[y] \in {mem.inode[y], [layer |-> "delta", ino |-> d, path |-> mem.inode[y].path]}
      BY <1>2, PromoteTyped
    <2> HIDE DEF k, d
    <2>5. \A y \in DOMAIN mem.inode : /\ There(mem.inode[y], DOMAIN node) => There(k.inode[y], DOMAIN node)
                                      /\ NotRoot(mem.inode[y]) => NotRoot(k.inode[y])
      BY <2>2, <2>4 DEF There, NotRoot
    <2>6. DeltaTyped'
      <3>1. \A x \in DOMAIN origin' : x \in Nat /\ x < nextDelta /\ origin'[x] \in Nat
        <4>1. DOMAIN origin' = DOMAIN origin \cup {d} /\ origin'[d] = mem.src[At] /\ \A x \in DOMAIN origin : x # d => origin'[x] = origin[x]
          BY <2>1 DEF Add
        <4>2. d \in Nat /\ d < nextDelta
          BY <1>2 DEF d
        <4> QED BY <1>2, <2>3, <4>1, <4>2 DEF DeltaTyped
      <3> QED BY <1>1, <1>2, <3>1 DEF DeltaTyped
    <2>7. Kernel'
      BY <1>1, <1>2, <2>1, <2>4 DEF Kernel
    <2>8. /\ Rest # <<>> => Head(Rest).do \notin {"parent_origin", "fill"}
      BY <1>1, JoinsNext
    <2>9. ~(Makes /\ Head(op.todo).do = "create")
      BY <1>2
    <2>10. op.x \in DOMAIN mem.inode /\ op.y \in DOMAIN mem.inode
      BY <1>2 DEF OpTyped
    <2>11. /\ There(mem.inode[op.x], DOMAIN node) => There(mem'.inode[op.x], DOMAIN node')
           /\ There(mem.inode[op.y], DOMAIN node) => There(mem'.inode[op.y], DOMAIN node')
           /\ NotRoot(mem.inode[op.y]) => NotRoot(mem'.inode[op.y])
      BY <1>1, <2>1, <2>5, <2>10
    <2>12. MemTyped(mem)' /\ DOMAIN mem.inode \subseteq DOMAIN mem'.inode
      BY <2>1, <2>4
    <2> HIDE DEF Rest
    <2> QED BY <1>3, <1>4, <2>6, <2>7, <2>8, <2>9, <2>11, <2>12, Advances
  <1>6. CASE ~(op.made # None /\ At \in DOMAIN Base)
    <2>1. UNCHANGED <<origin, mem>>
      BY <1>6 DEF ParentOrigin
    <2>2. DeltaTyped' /\ Kernel' /\ mem' = mem /\ DOMAIN node \subseteq DOMAIN node'
      BY <1>1, <1>2, <2>1, SameDelta DEF Kernel
    <2> QED BY <1>1, <1>3, <1>4, <2>2, Plain
  <1> QED BY <1>5, <1>6

LEMMA CopySafe == OverlayInv /\ Copy => OverlayInv'
PROOF
  <1> SUFFICES ASSUME OverlayInv, Copy PROVE OverlayInv'
    OBVIOUS
  <1> DEFINE s == SrcPath(mem, op.src)
             w == DeltaWalk(Front(At))
             v == [kind |-> Base[s], mod |-> FALSE, from |-> IF Base[s] = "symlink" THEN s ELSE <<>>]
  <1>1. Doing("copy") /\ "copy" # "touch" /\ UNCHANGED <<whiteouts, origin, mem, dcache, session, stale>>
    BY DEF Copy
  <1>2. /\ DeltaTyped /\ MemTyped(mem) /\ Kernel /\ OpTyped /\ ParentsThere /\ op.made \in Nat /\ op.made < nextDelta
        /\ op.todo # <<>> /\ ~Ready /\ Front(At) \in AnyPath /\ Last(At) \in Names /\ Head(op.todo).do = "copy"
    BY <1>1, Running
  <1>3. CASE s \notin DOMAIN Base \/ w = None
    <2>1. Return("error") /\ UNCHANGED <<ent, node, nextDelta>>
      BY <1>3 DEF Copy
    <2>2. DeltaTyped'
      BY <1>1, <1>2, <2>1, SameDelta
    <2> QED BY <1>1, <1>2, <2>1, <2>2, Returns DEF Kernel
  <1>4. CASE ~(s \notin DOMAIN Base \/ w = None)
    <2>1. NewNode(w, Last(At), v) /\ op' = [op EXCEPT !.todo = Rest, !.made = nextDelta] /\ UNCHANGED answer
      BY <1>4 DEF Copy
    <2>2. w \in DOMAIN node
      BY <1>2, <1>4, WalkEnds
    <2>3. v \in NodeType
      <3>1. Base[s] \in {"dir", "file", "symlink"}
        BY <1>4, BaseTypes
      <3> HIDE DEF s
      <3> QED BY <1>4, <3>1 DEF NodeType
    <2> HIDE DEF v, w
    <2>4. /\ DeltaTyped' /\ nextDelta \in DOMAIN node' \ {1} /\ DOMAIN node \subseteq DOMAIN node'
          /\ nextDelta \in Nat /\ nextDelta < nextDelta'
      BY <1>1, <1>2, <2>1, <2>2, <2>3, NewNodeTyped
    <2>5. Advanced(nextDelta)
      BY <1>2, <2>1, AdvanceIs
    <2>6. Kernel'
      BY <1>1, <1>2, <2>1 DEF Kernel
    <2>7. Rest # <<>> => Head(Rest).do # "parent_origin"
      BY <1>1, JoinsNext
    <2>8. /\ There(mem.inode[op.x], DOMAIN node) => There(mem'.inode[op.x], DOMAIN node')
          /\ There(mem.inode[op.y], DOMAIN node) => There(mem'.inode[op.y], DOMAIN node')
          /\ NotRoot(mem.inode[op.y]) => NotRoot(mem'.inode[op.y])
      BY <1>1, <2>4 DEF There
    <2>9. MemTyped(mem)' /\ DOMAIN mem.inode \subseteq DOMAIN mem'.inode
      BY <1>1, <1>2
    <2>10. SrcPath(mem', op.src) \in DOMAIN Base
      BY <1>1, <1>4
    <2>11. ~(Makes /\ Head(op.todo).do = "create")
      BY <1>2
    <2> HIDE DEF Rest, s
    <2> QED BY <2>4, <2>5, <2>6, <2>7, <2>8, <2>9, <2>10, <2>11, Advances
  <1> QED BY <1>3, <1>4

LEMMA FillSafe == OverlayInv /\ Fill => OverlayInv'
PROOF
  <1> SUFFICES ASSUME OverlayInv, Fill PROVE OverlayInv'
    OBVIOUS
  <1> DEFINE s == SrcPath(mem, op.src)
  <1>1. /\ Doing("fill") /\ Advance /\ node' = [node EXCEPT ![op.made].from = s]
        /\ UNCHANGED <<ent, nextDelta, whiteouts, origin, mem, answer, dcache, session, stale>>
    BY DEF Fill
  <1>2. /\ DeltaTyped /\ Kernel /\ op.made \in Nat /\ op.made < nextDelta /\ op.todo # <<>> /\ ~Ready /\ OpTyped
        /\ Head(op.todo).do = "fill" /\ Handed
    BY <1>1, Running
  <1>3. s \in DOMAIN Base
    BY <1>2 DEF Handed
  <1> HIDE DEF s
  <1>4. Advanced(op.made)
    BY <1>1, <1>2, AdvanceIs
  <1>5. /\ DOMAIN node' = DOMAIN node
        /\ \A d \in DOMAIN node : d # op.made => node'[d] = node[d]
        /\ op.made \in DOMAIN node => node'[op.made] = [node[op.made] EXCEPT !.from = s]
    BY <1>1
  <1>6. \A d \in DOMAIN node : node'[d] \in NodeType /\ node'[d].kind = node[d].kind
    <2>1. ASSUME NEW d \in DOMAIN node, NEW t, t = [node[d] EXCEPT !.from = s] PROVE t \in NodeType /\ t.kind = node[d].kind
      <3>1. node[d] \in NodeType
        BY <1>2 DEF DeltaTyped
      <3> QED BY <1>3, <2>1, <3>1 DEF NodeType
    <2> QED BY <1>2, <1>5, <2>1 DEF DeltaTyped
  <1>7. DeltaTyped'
    BY <1>1, <1>2, <1>5, <1>6 DEF DeltaTyped
  <1>8. Kernel'
    BY <1>1, <1>2 DEF Kernel
  <1> QED BY <1>1, <1>2, <1>4, <1>5, <1>7, <1>8, Plain

LEMMA AddOriginSafe == OverlayInv /\ AddOrigin => OverlayInv'
PROOF
  <1> SUFFICES ASSUME OverlayInv, AddOrigin PROVE OverlayInv'
    OBVIOUS
  <1> DEFINE b == op.call.what \in {"modify", "open"}
             k == UpdateMapping(mem, op.x, op.made)
  <1>1. /\ Doing("origin") /\ op' = [op EXCEPT !.todo = Rest, !.made = None]
        /\ origin' = Add(origin, op.made, op.src) /\ mem' = IF b THEN k ELSE mem
        /\ stale' = (stale \/ (op.call.what = "rename" /\ node[op.made].kind = "dir"))
        /\ UNCHANGED <<ent, node, nextDelta, whiteouts, answer, dcache, session>>
    BY DEF AddOrigin
  <1>2. /\ DeltaTyped /\ MemTyped(mem) /\ Kernel /\ OpTyped /\ ParentsThere /\ op.made \in Nat /\ op.made < nextDelta
        /\ op.todo # <<>> /\ ~Ready /\ Head(op.todo).do = "origin"
    BY <1>1, Running
  <1>3. Advanced(None) /\ None \in Nat /\ None < nextDelta'
    <2>1. Advanced(None)
      BY <1>1, <1>2, AdvanceIs
    <2> QED BY <1>1, <1>2, <2>1 DEF DeltaTyped, None
  <1>4. stale' \in BOOLEAN
    BY <1>1, <1>2 DEF Kernel
  <1>5. DeltaTyped'
    <2> DEFINE d == op.made
               v == op.src
    <2>1. d \in Nat /\ d < nextDelta /\ v \in Nat /\ origin' = Add(origin, d, v)
      BY <1>1, <1>2 DEF OpTyped
    <2> HIDE DEF d, v
    <2>2. DOMAIN origin' = DOMAIN origin \cup {d} /\ origin'[d] = v /\ \A x \in DOMAIN origin : x # d => origin'[x] = origin[x]
      BY <2>1 DEF Add
    <2>3. \A x \in DOMAIN origin' : x \in Nat /\ x < nextDelta /\ origin'[x] \in Nat
      BY <1>2, <2>1, <2>2 DEF DeltaTyped
    <2> QED BY <1>1, <1>2, <2>3 DEF DeltaTyped
  <1> HIDE DEF k
  <1>6. CASE b
    <2>1. op.x \in DOMAIN mem.inode
      BY <1>2 DEF OpTyped
    <2>2. MemTyped(k) /\ DOMAIN k.inode = DOMAIN mem.inode
      BY <1>2, <2>1, UpdateTyped DEF k
    <2>3. MemTyped(mem)' /\ DOMAIN mem'.inode = DOMAIN mem.inode
      BY <1>1, <1>6, <2>2
    <2>4. Kernel'
      BY <1>1, <1>2, <1>4, <2>3 DEF Kernel
    <2>5. ~Has(Rest, {"create", "link", "move"})
      <3>1. Has(Rest, {"create", "link", "move"}) => Has(op.todo, {"create", "link", "move"})
        BY <1>2, TailHas DEF OpTyped, Rest
      <3> QED BY <1>2, <1>6, <3>1 DEF ParentsThere
    <2>6. ~Has(Rest, {"create", "link"}) /\ ~Has(Rest, {"move"}) /\ ~Has(Rest, {"link"})
      BY <2>5 DEF Has
    <2>7. Rest # <<>> => Head(Rest).do \notin {"parent_origin", "fill"}
      BY <1>1, JoinsNext
    <2>8. ~(Makes /\ Head(op.todo).do = "create")
      BY <1>2
    <2> HIDE DEF Rest, b
    <2> QED BY <1>3, <1>5, <2>3, <2>4, <2>6, <2>7, <2>8, Advances
  <1>7. CASE ~b
    <2>1. mem' = mem /\ DOMAIN node \subseteq DOMAIN node'
      BY <1>1, <1>7
    <2>2. Kernel'
      BY <1>1, <1>2, <1>4, <2>1 DEF Kernel
    <2> QED BY <1>1, <1>3, <1>5, <2>1, <2>2, Plain
  <1> QED BY <1>6, <1>7

LEMMA TouchSafe == OverlayInv /\ Touch => OverlayInv'
PROOF
  <1> SUFFICES ASSUME OverlayInv, Touch PROVE OverlayInv'
    OBVIOUS
  <1> DEFINE d == mem.inode[op.x].ino
  <1>1. Doing("touch") /\ UNCHANGED <<ent, nextDelta, whiteouts, origin, mem, dcache, session, stale>>
    BY DEF Touch
  <1>2. /\ DeltaTyped /\ MemTyped(mem) /\ Kernel /\ OpTyped /\ op.made \in Nat /\ op.made < nextDelta
        /\ op.todo # <<>> /\ ~Ready
    BY <1>1, Running
  <1>3. CASE d \notin DOMAIN node
    <2>1. Return("error") /\ UNCHANGED node
      BY <1>3 DEF Touch
    <2>2. DeltaTyped'
      BY <1>1, <1>2, <2>1, SameDelta
    <2> QED BY <1>1, <1>2, <2>1, <2>2, Returns DEF Kernel
  <1>4. CASE d \in DOMAIN node
    <2>1. /\ node' = IF op.call.what = "modify" THEN [node EXCEPT ![d].mod = TRUE] ELSE node
          /\ Advance /\ UNCHANGED answer
      BY <1>4 DEF Touch
    <2>2. Advanced(op.made)
      BY <1>2, <2>1, AdvanceIs
    <2> HIDE DEF d
    <2>3. DOMAIN node' = DOMAIN node /\ \A x \in DOMAIN node : node'[x] \in NodeType /\ node'[x].kind = node[x].kind
      <3>1. \A x \in DOMAIN node : node[x] \in NodeType
        BY <1>2 DEF DeltaTyped
      <3>2. ASSUME NEW t \in NodeType, NEW u, u = [t EXCEPT !.mod = TRUE] PROVE u \in NodeType /\ u.kind = t.kind
        BY <3>2 DEF NodeType
      <3>3. DOMAIN node' = DOMAIN node /\ \A x \in DOMAIN node : node'[x] = node[x] \/ node'[x] = [node[x] EXCEPT !.mod = TRUE]
        BY <2>1
      <3> QED BY <3>1, <3>2, <3>3
    <2>4. DeltaTyped'
      BY <1>1, <1>2, <2>3 DEF DeltaTyped
    <2>5. Kernel'
      BY <1>1, <1>2, <2>1 DEF Kernel
    <2> QED BY <1>1, <1>2, <2>2, <2>3, <2>4, <2>5, Plain
  <1> QED BY <1>3, <1>4

\* A walk that finds an inode still does when entries are added.
LEMMA WalkKept ==
    ASSUME NEW E, NEW F, \A e \in DOMAIN E : e \in DOMAIN F /\ F[e] = E[e] /\ e[1] # None
    PROVE  \A p \in AnyPath : WalkIn(E, p) # None => WalkIn(F, p) = WalkIn(E, p)
PROOF
  <1> DEFINE S == {k \in Nat : \A p \in AnyPath : Len(p) = k /\ WalkIn(E, p) # None => WalkIn(F, p) = WalkIn(E, p)}
  <1>1. 0 \in S
    <2>1. \A p \in AnyPath : Len(p) = 0 => p = <<>>
      BY DEF AnyPath
    <2> QED BY <2>1, WalkStart
  <1>2. ASSUME NEW k \in Nat, k \in S PROVE k + 1 \in S
    <2> SUFFICES ASSUME NEW p \in AnyPath, Len(p) = k + 1, WalkIn(E, p) # None PROVE WalkIn(F, p) = WalkIn(E, p)
      OBVIOUS
    <2> DEFINE f == Front(p)
               n == Last(p)
    <2>1. p \in Named
      BY DEF AnyPath, Named
    <2>2. f \in AnyPath /\ n \in Names /\ p = Append(f, n) /\ Len(f) = k
      BY <2>1, PathParts
    <2> HIDE DEF f, n
    <2>3. /\ WalkIn(E, p) = IF <<WalkIn(E, f), n>> \in DOMAIN E THEN E[<<WalkIn(E, f), n>>] ELSE None
          /\ WalkIn(F, p) = IF <<WalkIn(F, f), n>> \in DOMAIN F THEN F[<<WalkIn(F, f), n>>] ELSE None
      BY <2>2, WalkOn
    <2>4. <<WalkIn(E, f), n>> \in DOMAIN E /\ WalkIn(E, f) # None
      BY <2>3
    <2>5. WalkIn(F, f) = WalkIn(E, f)
      BY <1>2, <2>2, <2>4
    <2> QED BY <2>3, <2>4, <2>5
  <1>3. \A k \in Nat : k \in S
    <2> HIDE DEF S
    <2> QED BY <1>1, <1>2, SetInduction
  <1> QED BY <1>3 DEF AnyPath

LEMMA MakeSafe == OverlayInv /\ Make => OverlayInv'
PROOF
  <1> SUFFICES ASSUME OverlayInv, Make PROVE OverlayInv'
    OBVIOUS
  <1> DEFINE dir == ResolveDeltaParent(mem, op.x)
             n == Last(At)
             e == <<dir, n>>
             v == [kind |-> op.call.what, from |-> <<>>, mod |-> FALSE]
             k == GetOrCreate(mem, "delta", nextDelta, At)
             d == nextDelta
  <1>1. Doing("create") /\ "create" # "touch" /\ UNCHANGED <<whiteouts, origin, dcache, session, stale>>
    BY DEF Make
  <1>2. /\ DeltaTyped /\ MemTyped(mem) /\ Kernel /\ OpTyped /\ ParentsThere /\ Creates /\ op.made \in Nat /\ op.made < nextDelta
        /\ op.todo # <<>> /\ ~Ready /\ At \in AnyPath /\ n \in Names /\ Head(op.todo).do = "create" /\ At = Head(op.todo).at
        /\ Has(op.todo, {"create"})
    BY <1>1, Running
  <1>3. op.x \in DOMAIN mem.inode
    BY <1>2 DEF OpTyped
  <1>4. Makes /\ n = Last(op.call.p)
    <2>1. op.todo[1] = Head(op.todo) /\ 1 \in 1..Len(op.todo)
      BY <1>2, TodoTail DEF OpTyped
    <2> QED BY <1>2, <2>1 DEF Creates
  <1>5. CASE dir = None \/ e \in DOMAIN ent
    <2>1. Return("error") /\ UNCHANGED <<ent, node, nextDelta, mem>>
      BY <1>5 DEF Make
    <2>2. DeltaTyped'
      BY <1>1, <1>2, <2>1, SameDelta
    <2> QED BY <1>1, <1>2, <2>1, <2>2, Returns DEF Kernel
  <1>6. CASE ~(dir = None \/ e \in DOMAIN ent)
    <2>1. NewNode(dir, n, v) /\ mem' = k /\ Advance /\ UNCHANGED answer
      BY <1>6 DEF Make
    <2>2. dir \in DOMAIN node
      <3>1. Has(op.todo, {"create", "link"})
        BY <1>2 DEF Has
      <3>2. There(mem.inode[op.x], DOMAIN node)
        BY <1>2, <3>1 DEF ParentsThere
      <3>3. /\ mem.inode[op.x].layer # "delta" => dir \in {None} \cup DOMAIN node
            /\ mem.inode[op.x].layer = "delta" => dir = mem.inode[op.x].ino
        BY <1>2, <1>3, ParentEnds
      <3> QED BY <1>6, <3>2, <3>3 DEF There
    <2>3. v \in NodeType
      BY <1>4 DEF NodeType, Makes
    <2>4. Advanced(op.made)
      BY <1>2, <2>1, AdvanceIs
    <2> HIDE DEF dir, v, n, k
    <2>5. /\ DeltaTyped' /\ DOMAIN node \subseteq DOMAIN node' /\ d < nextDelta' /\ d \in Nat
          /\ DOMAIN ent' = DOMAIN ent \cup {e} /\ ent'[e] = d
          /\ \A f \in DOMAIN ent : f # e => ent'[f] = ent[f]
          /\ \A y \in DOMAIN node : node'[y] = node[y]
      BY <1>1, <1>2, <2>1, <2>2, <2>3, NewNodeTyped
    <2>6. /\ MemTyped(k) /\ Keeps(mem, k) /\ <<"delta", d>> \in DOMAIN k.rev
      BY <1>2, <2>5, GetOrCreateTyped DEF k
    <2>7. \A x \in DOMAIN mem.inode : x \in DOMAIN mem'.inode /\ mem'.inode[x] = mem.inode[x]
      BY <2>1, <2>6 DEF Keeps
    <2>8. Kernel'
      BY <1>1, <1>2, <2>1, <2>7 DEF Kernel
    <2>9. op'.x = op.x /\ op'.call = op.call /\ op'.todo = Rest
      BY <2>4 DEF Advanced
    <2>10. Rest = <<>>
      BY <1>1, JoinsNext
    <2>11. ResolveDeltaParent(mem, op.x)' = dir
      <3> DEFINE i == mem.inode[op.x]
      <3>1. mem'.inode[op'.x] = i
        BY <1>3, <2>7, <2>9
      <3>2. CASE i.layer = "delta"
        BY <3>1, <3>2 DEF ResolveDeltaParent, dir
      <3>3. CASE i.layer # "delta"
        <4>1. i.path \in AnyPath
          BY <1>2, <1>3 DEF MemTyped, Info
        <4> DEFINE w == DeltaWalk(i.path)
        <4> HIDE DEF i
        <4>2. dir = IF w # None /\ node[w].kind = "dir" THEN w ELSE None
          BY <3>3 DEF ResolveDeltaParent, dir, i
        <4>3. w # None /\ node[w].kind = "dir" /\ w = dir
          BY <1>6, <4>2
        <4>4. \A f \in DOMAIN ent : f \in DOMAIN ent' /\ ent'[f] = ent[f] /\ f[1] # None
          <5>1. \A f \in DOMAIN ent : f[1] \in DOMAIN node
            BY <1>2 DEF DeltaTyped
          <5>2. None \notin DOMAIN node
            BY <1>2 DEF DeltaTyped, None
          <5> QED BY <1>6, <2>5, <5>1, <5>2
        <4>5. WalkIn(ent, i.path) = w
          BY WalkIsIn DEF w
        <4>6. WalkIn(ent', i.path) = w
          BY <4>1, <4>3, <4>4, <4>5, WalkKept
        <4> DEFINE j == mem'.inode[op'.x]
        <4>7. ResolveDeltaParent(mem, op.x)' =
                IF j.layer = "delta" THEN j.ino
                ELSE IF WalkIn(ent', j.path) # None /\ node'[WalkIn(ent', j.path)].kind = "dir"
                     THEN WalkIn(ent', j.path) ELSE None
          BY DEF ResolveDeltaParent, DeltaWalk, WalkIn
        <4>8. j = i
          BY <3>1
        <4> HIDE DEF j, w
        <4>9. w \in DOMAIN node /\ node'[w].kind = "dir"
          BY <2>2, <2>5, <4>3
        <4> QED BY <3>3, <4>3, <4>6, <4>7, <4>8, <4>9
      <3> QED BY <3>2, <3>3
    <2>12. Creates'
      <3>1. op'.todo = <<>> /\ Makes' /\ op'.call.p = op.call.p
        BY <1>4, <2>9, <2>10 DEF Makes
      <3>2. <<ResolveDeltaParent(mem, op.x), Last(op.call.p)>>' = e
        BY <1>4, <2>9, <2>11
      <3>3. e \in DOMAIN ent' /\ <<"delta", ent'[e]>> \in DOMAIN mem'.rev
        BY <2>1, <2>5, <2>6
      <3> QED BY <3>1, <3>2, <3>3 DEF Creates
    <2>13. ~Has(Rest, {"create", "link"}) /\ ~Has(Rest, {"move"}) /\ ~Has(Rest, {"link"}) /\ ~Has(Rest, {"parent_origin"})
      BY <2>10, NoneLeft
    <2>14. MemTyped(mem)' /\ DOMAIN mem.inode \subseteq DOMAIN mem'.inode
      BY <2>1, <2>6, <2>7
    <2>15. op.made < nextDelta'
      BY <1>2, <2>5 DEF DeltaTyped
    <2> HIDE DEF Rest
    <2> QED BY <1>2, <2>4, <2>5, <2>8, <2>10, <2>12, <2>13, <2>14, <2>15, Advances
  <1> QED BY <1>5, <1>6

LEMMA MakeLinkSafe == OverlayInv /\ MakeLink => OverlayInv'
PROOF
  <1> SUFFICES ASSUME OverlayInv, MakeLink PROVE OverlayInv'
    OBVIOUS
  <1> DEFINE dir == ResolveDeltaParent(mem, op.x)
             e == <<dir, Last(At)>>
             i == mem.inode[op.y]
             d == IF i.layer = "delta" THEN i.ino ELSE DeltaWalk(i.path)
  <1>1. Doing("link") /\ "link" # "touch" /\ stale' = TRUE /\ UNCHANGED <<node, nextDelta, whiteouts, origin, mem, dcache, session>>
    BY DEF MakeLink
  <1>2. /\ DeltaTyped /\ MemTyped(mem) /\ Kernel /\ OpTyped /\ ParentsThere /\ op.made \in Nat /\ op.made < nextDelta
        /\ op.todo # <<>> /\ ~Ready /\ Last(At) \in Names /\ Has(op.todo, {"link"})
    BY <1>1, Running
  <1>3. op.x \in DOMAIN mem.inode /\ op.y \in DOMAIN mem.inode
    BY <1>2 DEF OpTyped
  <1>4. CASE dir = None \/ e \in DOMAIN ent \/ d \notin DOMAIN node
    <2>1. Return("error") /\ UNCHANGED ent
      BY <1>4 DEF MakeLink
    <2>2. DeltaTyped'
      BY <1>1, <1>2, <2>1, SameDelta
    <2> QED BY <1>1, <1>2, <2>1, <2>2, Returns
  <1>5. CASE ~(dir = None \/ e \in DOMAIN ent \/ d \notin DOMAIN node)
    <2>1. ent' = Add(ent, e, d) /\ Advance /\ UNCHANGED answer
      BY <1>5 DEF MakeLink
    <2>2. dir \in DOMAIN node
      <3>1. Has(op.todo, {"create", "link"})
        BY <1>2 DEF Has
      <3>2. There(mem.inode[op.x], DOMAIN node)
        BY <1>2, <3>1 DEF ParentsThere
      <3>3. /\ mem.inode[op.x].layer # "delta" => dir \in {None} \cup DOMAIN node
            /\ mem.inode[op.x].layer = "delta" => dir = mem.inode[op.x].ino
        BY <1>2, <1>3, ParentEnds
      <3> QED BY <1>5, <3>2, <3>3 DEF There
    <2>3. d # 1
      <3>1. CASE i.layer = "delta"
        BY <1>2, <3>1 DEF ParentsThere, NotRoot
      <3>2. CASE i.layer # "delta"
        <4>1. i \in Info /\ (i.layer = "base" => i.path # <<>>)
          BY <1>2, <1>3 DEF MemTyped
        <4>2. i.path \in AnyPath /\ i.path # <<>>
          BY <3>2, <4>1 DEF Info
        <4> HIDE DEF i
        <4> QED BY <1>2, <3>2, <4>2, WalkEnds
      <3> QED BY <3>1, <3>2
    <2>4. Advanced(op.made)
      BY <1>2, <2>1, AdvanceIs
    <2>5. e \in (DOMAIN node) \X Names /\ d \in DOMAIN node \ {1}
      BY <1>2, <1>5, <2>2, <2>3
    <2> HIDE DEF d, e, dir, i
    <2>6. \A f \in DOMAIN ent' : f \in (DOMAIN node) \X Names /\ ent'[f] \in DOMAIN node \ {1}
      <3>1. DOMAIN ent' = DOMAIN ent \cup {e} /\ ent'[e] = d /\ \A f \in DOMAIN ent : f # e => ent'[f] = ent[f]
        BY <2>1 DEF Add
      <3>2. \A f \in DOMAIN ent : f \in (DOMAIN node) \X Names /\ ent[f] \in DOMAIN node \ {1}
        BY <1>2 DEF DeltaTyped
      <3> QED BY <2>5, <3>1, <3>2
    <2>7. DeltaTyped'
      BY <1>1, <1>2, <2>6 DEF DeltaTyped
    <2>8. Kernel'
      BY <1>1, <1>2, <2>1 DEF Kernel
    <2> QED BY <1>1, <1>2, <2>4, <2>7, <2>8, Plain
  <1> QED BY <1>4, <1>5

\* Names leave the delta, and an inode without one that has no entries either.
LEMMA UnbindTyped ==
    ASSUME DeltaTyped, NEW e \in DOMAIN ent, Unbind(e, ent'), UNCHANGED <<nextDelta, origin>>,
           \A f \in DOMAIN ent' : f \in (DOMAIN node) \X Names /\ ent'[f] \in DOMAIN node \ {1},
           \A f \in DOMAIN ent' : f[1] # ent[e]
    PROVE  DeltaTyped'
PROOF
  <1> DEFINE d == ent[e]
  <1>1. d # 1 /\ d \in DOMAIN node
    BY DEF DeltaTyped
  <1>2. CASE \E f \in DOMAIN ent' : ent'[f] = d
    <2>1. node' = node
      BY <1>2 DEF Unbind
    <2> QED BY <2>1 DEF DeltaTyped
  <1>3. CASE ~ \E f \in DOMAIN ent' : ent'[f] = d
    <2>1. node' = Drop(node, {d})
      BY <1>3 DEF Unbind
    <2> HIDE DEF d
    <2>2. DOMAIN node' = DOMAIN node \ {d} /\ \A x \in DOMAIN node' : node'[x] = node[x]
      BY <2>1 DEF Drop
    <2>3. \A f \in DOMAIN ent' : f[1] # d /\ ent'[f] # d
      BY <1>3 DEF d
    <2>4. \A f \in DOMAIN ent' : f \in (DOMAIN node') \X Names /\ ent'[f] \in DOMAIN node' \ {1}
      BY <2>2, <2>3
    <2>5. \A x \in DOMAIN node' : x \in Nat /\ 1 <= x /\ x < nextDelta' /\ node'[x] \in NodeType
      BY <2>2 DEF DeltaTyped
    <2>6. 1 \in DOMAIN node' /\ node'[1].kind = "dir"
      BY <1>1, <2>2 DEF DeltaTyped
    <2> QED BY <2>4, <2>5, <2>6 DEF DeltaTyped
  <1> QED BY <1>2, <1>3

\* After a removal or a rename only whiteouts are left to write.
LEMMA LastSteps ==
    ASSUME OverlayInv, NEW s, Doing(s), s \in {"remove", "move", "whiteout"}, NEW v \in Nat, Advanced(v), v < nextDelta',
           DeltaTyped', MemTyped(mem)', DOMAIN mem.inode \subseteq DOMAIN mem'.inode, Kernel'
    PROVE  OverlayInv'
PROOF
  <1>1. op.todo # <<>> /\ Head(op.todo).do = s /\ Todo(op.todo)
    BY Running DEF OpTyped
  <1>2. ~Has(Rest, {"create", "link"}) /\ ~Has(Rest, {"move"}) /\ ~Has(Rest, {"link"}) /\ ~Has(Rest, {"parent_origin"})
    BY <1>1, TailHas DEF Rest
  <1>3. Rest # <<>> => Head(Rest).do \notin {"parent_origin", "fill"}
    BY JoinsNext
  <1> HIDE DEF Rest
  <1> QED BY <1>1, <1>2, <1>3, Advances

LEMMA RemoveDeltaSafe == OverlayInv /\ RemoveDelta => OverlayInv'
PROOF
  <1> SUFFICES ASSUME OverlayInv, RemoveDelta PROVE OverlayInv'
    OBVIOUS
  <1> DEFINE e == <<ResolveDeltaParent(mem, op.x), Last(At)>>
  <1>1. Doing("remove") /\ UNCHANGED <<nextDelta, whiteouts, origin, mem, dcache, session, stale>>
    BY DEF RemoveDelta
  <1>2. /\ DeltaTyped /\ MemTyped(mem) /\ Kernel /\ OpTyped /\ op.made \in Nat /\ op.made < nextDelta
        /\ op.todo # <<>> /\ ~Ready
    BY <1>1, Running
  <1>3. ASSUME Advance, UNCHANGED answer, DeltaTyped' PROVE OverlayInv'
    <2>1. Advanced(op.made)
      BY <1>2, <1>3, AdvanceIs
    <2>2. Kernel'
      BY <1>1, <1>2, <1>3 DEF Kernel
    <2> QED BY <1>1, <1>2, <1>3, <2>1, <2>2, LastSteps
  <1>4. CASE e \notin DOMAIN ent
    <2>1. Advance /\ UNCHANGED <<ent, node, answer>>
      BY <1>4 DEF RemoveDelta
    <2> QED BY <1>1, <1>2, <1>3, <2>1, SameDelta
  <1>5. CASE e \in DOMAIN ent /\ HasEntries(ent[e])
    <2>1. Return("error") /\ UNCHANGED <<ent, node>>
      BY <1>5 DEF RemoveDelta
    <2>2. DeltaTyped'
      BY <1>1, <1>2, <2>1, SameDelta
    <2> QED BY <1>1, <1>2, <2>1, <2>2, Returns DEF Kernel
  <1>6. CASE e \in DOMAIN ent /\ ~HasEntries(ent[e])
    <2>1. ent' = Drop(ent, {e}) /\ Unbind(e, ent') /\ Advance /\ UNCHANGED answer
      BY <1>6 DEF RemoveDelta
    <2> HIDE DEF e
    <2>2. DOMAIN ent' = DOMAIN ent \ {e} /\ \A f \in DOMAIN ent' : ent'[f] = ent[f]
      BY <2>1 DEF Drop
    <2>3. \A f \in DOMAIN ent' : f \in (DOMAIN node) \X Names /\ ent'[f] \in DOMAIN node \ {1}
      BY <1>2, <2>2 DEF DeltaTyped
    <2>4. \A f \in DOMAIN ent' : f[1] # ent[e]
      BY <1>6, <2>2 DEF HasEntries
    <2>5. DeltaTyped'
      BY <1>1, <1>2, <1>6, <2>1, <2>3, <2>4, UnbindTyped
    <2> QED BY <1>3, <2>1, <2>5
  <1> QED BY <1>4, <1>5, <1>6

LEMMA CreateWhiteoutSafe == OverlayInv /\ CreateWhiteout => OverlayInv'
PROOF
  <1> SUFFICES ASSUME OverlayInv, CreateWhiteout PROVE OverlayInv'
    OBVIOUS
  <1> DEFINE k == Look(mem, op.x, Last(At)).m
  <1>1. /\ Doing("whiteout") /\ "whiteout" # "touch" /\ Advance /\ mem' = k
        /\ UNCHANGED <<ent, node, nextDelta, origin, answer, dcache, session, stale>>
    BY DEF CreateWhiteout
  <1>2. /\ DeltaTyped /\ MemTyped(mem) /\ Kernel /\ OpTyped /\ op.made \in Nat /\ op.made < nextDelta
        /\ op.todo # <<>> /\ ~Ready /\ Last(At) \in Names
    BY <1>1, Running
  <1>3. Extends(mem, k)
    BY <1>2, LookTyped DEF OpTyped
  <1> HIDE DEF k
  <1>4. MemTyped(mem)' /\ DOMAIN mem.inode \subseteq DOMAIN mem'.inode
    BY <1>1, <1>3 DEF Extends
  <1>5. DeltaTyped' /\ op.made < nextDelta'
    BY <1>1, <1>2, SameDelta
  <1>6. Kernel'
    BY <1>1, <1>2, <1>4 DEF Kernel
  <1>7. Advanced(op.made)
    BY <1>1, <1>2, AdvanceIs
  <1> QED BY <1>1, <1>2, <1>4, <1>5, <1>6, <1>7, LastSteps

LEMMA MoveSafe == OverlayInv /\ Move => OverlayInv'
PROOF
  <1> SUFFICES ASSUME OverlayInv, Move PROVE OverlayInv'
    OBVIOUS
  <1> DEFINE e == <<ResolveDeltaParent(mem, op.x), Last(op.call.p)>>
             dir == ResolveDeltaParent(mem, op.y)
             f == <<dir, Last(At)>>
             clash == /\ f \in DOMAIN ent
                      /\ \/ HasEntries(ent[f])
                         \/ (node[ent[f]].kind = "dir") # (node[ent[e]].kind = "dir")
  <1>1. /\ Doing("move") /\ "move" # "touch" /\ stale' = (stale \/ (e \in DOMAIN ent /\ node[ent[e]].kind = "dir"))
        /\ UNCHANGED <<nextDelta, whiteouts, origin, mem, dcache, session>>
    BY DEF Move
  <1>2. /\ DeltaTyped /\ MemTyped(mem) /\ Kernel /\ OpTyped /\ ParentsThere /\ op.made \in Nat /\ op.made < nextDelta
        /\ op.todo # <<>> /\ ~Ready /\ Last(At) \in Names /\ Has(op.todo, {"move"})
    BY <1>1, Running
  <1>3. op.x \in DOMAIN mem.inode /\ op.y \in DOMAIN mem.inode
    BY <1>2 DEF OpTyped
  <1>4. stale' \in BOOLEAN
    BY <1>1, <1>2 DEF Kernel
  <1>5. CASE e \notin DOMAIN ent \/ f[1] = None \/ clash
    <2>1. Return("error") /\ UNCHANGED <<ent, node>>
      BY <1>5 DEF Move
    <2>2. DeltaTyped'
      BY <1>1, <1>2, <2>1, SameDelta
    <2> QED BY <1>1, <1>2, <1>4, <2>1, <2>2, Returns
  <1>6. CASE ~(e \notin DOMAIN ent \/ f[1] = None \/ clash)
    <2>1. /\ ent' = Add(Drop(ent, {e}), f, ent[e])
          /\ IF f \in DOMAIN ent THEN Unbind(f, ent') ELSE UNCHANGED node
          /\ Advance /\ UNCHANGED answer
      BY <1>6 DEF Move
    <2>2. dir \in DOMAIN node
      <3>1. There(mem.inode[op.y], DOMAIN node)
        BY <1>2 DEF ParentsThere
      <3>2. /\ mem.inode[op.y].layer # "delta" => dir \in {None} \cup DOMAIN node
            /\ mem.inode[op.y].layer = "delta" => dir = mem.inode[op.y].ino
        BY <1>2, <1>3, ParentEnds
      <3> QED BY <1>6, <3>1, <3>2 DEF There
    <2>3. e \in DOMAIN ent /\ f \in (DOMAIN node) \X Names /\ f[1] = dir /\ (f \in DOMAIN ent => ~HasEntries(ent[f]))
      BY <1>2, <1>6, <2>2
    <2> HIDE DEF e, clash, f, dir
    <2>4. /\ DOMAIN ent' \subseteq DOMAIN ent \cup {f}
          /\ ent'[f] = ent[e]
          /\ \A g \in DOMAIN ent' : g # f => g \in DOMAIN ent /\ ent'[g] = ent[g]
      <3> DEFINE E == Drop(ent, {e})
      <3>1. DOMAIN E = DOMAIN ent \ {e} /\ \A g \in DOMAIN E : E[g] = ent[g]
        BY DEF Drop
      <3>2. ent' = Add(E, f, ent[e])
        BY <2>1
      <3> HIDE DEF E
      <3>3. DOMAIN ent' = DOMAIN E \cup {f} /\ ent'[f] = ent[e] /\ \A g \in DOMAIN E : g # f => ent'[g] = E[g]
        BY <3>2 DEF Add
      <3> QED BY <3>1, <3>3
    <2>5. \A g \in DOMAIN ent' : g \in (DOMAIN node) \X Names /\ ent'[g] \in DOMAIN node \ {1}
      <3>1. \A g \in DOMAIN ent : g \in (DOMAIN node) \X Names /\ ent[g] \in DOMAIN node \ {1}
        BY <1>2 DEF DeltaTyped
      <3> QED BY <2>3, <2>4, <3>1
    <2>6. DeltaTyped'
      <3>1. CASE f \in DOMAIN ent
        <4>1. \A g \in DOMAIN ent : g[1] # ent[f]
          BY <2>3, <3>1 DEF HasEntries
        <4>2. \A g \in DOMAIN ent' : g[1] # ent[f]
          BY <2>4, <3>1, <4>1
        <4> QED BY <1>1, <1>2, <2>1, <2>5, <3>1, <4>2, UnbindTyped
      <3>2. CASE f \notin DOMAIN ent
        <4>1. UNCHANGED node
          BY <2>1, <3>2
        <4> QED BY <1>1, <1>2, <2>5, <4>1 DEF DeltaTyped
      <3> QED BY <3>1, <3>2
    <2>7. Kernel'
      BY <1>1, <1>2, <1>4, <2>1 DEF Kernel
    <2>8. Advanced(op.made)
      BY <1>2, <2>1, AdvanceIs
    <2> QED BY <1>1, <1>2, <2>6, <2>7, <2>8, LastSteps
  <1> QED BY <1>5, <1>6

-----------------------------------------------------------------------------
(* What comes from the kernel, and the end of a handler.                   *)

LEMMA Kept ==
    ASSUME OverlayInv, Ready, UNCHANGED <<ent, node, nextDelta, origin, op>>, MemTyped(mem)', 1 \in DOMAIN mem'.inode, Kernel'
    PROVE  OverlayInv'
PROOF
  <1>1. op' = NoOp
    BY DEF OverlayInv, OpTyped
  <1>2. DeltaTyped'
    BY SameDelta DEF OverlayInv
  <1> QED BY <1>1, <1>2, Rests

LEMMA ReplySafe == OverlayInv /\ Reply => OverlayInv'
PROOF
  <1> SUFFICES ASSUME OverlayInv, Reply PROVE OverlayInv'
    OBVIOUS
  <1> DEFINE c == op.call
             e == <<ResolveDeltaParent(mem, op.x), Last(c.p)>>
             made == mem.rev[<<"delta", ent[e]>>]
  <1>1. /\ op.todo = <<>> /\ Return("ok") /\ UNCHANGED <<ent, node, nextDelta, origin, mem, session, stale>>
        /\ dcache' = CASE c.what \in {"file", "dir"} -> Add(dcache, c.p, made)
                      [] c.what = "link" -> Add(dcache, c.q, op.y)
                      [] c.what \in {"remove", "rename"} -> Drop(dcache, Below(c.p) \cup Below(c.q))
                      [] OTHER -> dcache
    BY DEF Reply, durable
  <1>2. DeltaTyped /\ MemTyped(mem) /\ Kernel /\ OpTyped /\ Creates /\ 1 \in DOMAIN mem.inode
    BY DEF OverlayInv
  <1>3. op' = NoOp /\ answer' = "ok"
    BY <1>1 DEF Return
  <1>4. op.y \in DOMAIN mem.inode
    BY <1>2 DEF OpTyped
  <1>5. c.what \in {"file", "dir"} => made \in DOMAIN mem.inode
    <2>1. c.what \in {"file", "dir"} => <<"delta", ent[e]>> \in DOMAIN mem.rev
      BY <1>1, <1>2 DEF Creates, Makes
    <2> QED BY <1>2, <2>1 DEF MemTyped
  <1>6. ASSUME NEW p, NEW x \in DOMAIN mem.inode, dcache' = Add(dcache, p, x)
        PROVE  \A q \in DOMAIN dcache' : dcache'[q] \in DOMAIN mem.inode
    BY <1>2, <1>6 DEF Add, Kernel
  <1>7. ASSUME NEW S, dcache' = Drop(dcache, S)
        PROVE  \A q \in DOMAIN dcache' : dcache'[q] \in DOMAIN mem.inode
    BY <1>2, <1>7 DEF Drop, Kernel
  <1> HIDE DEF made, e, c
  <1>8. \/ c.what \in {"file", "dir"} /\ dcache' = Add(dcache, c.p, made)
        \/ dcache' = Add(dcache, c.q, op.y)
        \/ dcache' = Drop(dcache, Below(c.p) \cup Below(c.q))
        \/ dcache' = dcache
    BY <1>1, Zenon
  <1>9. \A q \in DOMAIN dcache' : dcache'[q] \in DOMAIN mem.inode
    BY <1>2, <1>4, <1>5, <1>6, <1>7, <1>8 DEF Kernel
  <1>10. Kernel'
    BY <1>1, <1>2, <1>3, <1>9 DEF Kernel
  <1>11. DeltaTyped' /\ MemTyped(mem)' /\ 1 \in DOMAIN mem'.inode
    BY <1>1, <1>2, SameDelta
  <1> QED BY <1>3, <1>10, <1>11, Rests

LEMMA FailSafe == OverlayInv /\ Fail => OverlayInv'
PROOF
  <1> SUFFICES ASSUME OverlayInv, Fail PROVE OverlayInv'
    OBVIOUS
  <1>1. Return("error") /\ stale' = (stale \/ CutShort) /\ UNCHANGED <<ent, node, nextDelta, origin, mem, dcache, session>>
    BY DEF Fail, durable
  <1>2. DeltaTyped /\ MemTyped(mem) /\ Kernel
    BY DEF OverlayInv
  <1>3. stale' \in BOOLEAN
    <2>1. stale \in BOOLEAN /\ CutShort \in BOOLEAN
      BY <1>2 DEF Kernel, CutShort
    <2> QED BY <1>1, <2>1
  <1>4. DeltaTyped' /\ MemTyped(mem)'
    BY <1>1, <1>2, SameDelta
  <1> QED BY <1>1, <1>3, <1>4, Returns

LEMMA ForgetSafe == ASSUME NEW p, OverlayInv, Forget(p) PROVE OverlayInv'
PROOF
  <1> DEFINE i == mem.inode[dcache[p]]
             s == SrcPath(mem, i.ino)
  <1>1. /\ Ready /\ dcache' = Drop(dcache, {p}) /\ UNCHANGED <<ent, node, nextDelta, origin, op, answer, session, stale>>
        /\ mem' = mem \/ mem' = [mem EXCEPT !.src = Drop(@, {s})]
    BY DEF Forget, durable
  <1>2. MemTyped(mem) /\ Kernel /\ 1 \in DOMAIN mem.inode
    BY DEF OverlayInv
  <1> HIDE DEF i, s
  <1>3. MemTyped(mem)' /\ mem'.inode = mem.inode
    <2>1. CASE mem' = mem
      BY <1>2, <2>1
    <2>2. CASE mem' = [mem EXCEPT !.src = Drop(@, {s})]
      <3>1. /\ mem'.inode = mem.inode /\ mem'.rev = mem.rev /\ mem'.path = mem.path /\ mem'.next = mem.next
            /\ mem'.nextSrc = mem.nextSrc /\ mem'.src = Drop(mem.src, {s}) /\ IsMem(mem')
        BY <1>2, <2>2 DEF MemTyped, IsMem
      <3>2. DOMAIN mem'.src \subseteq DOMAIN mem.src /\ \A q \in DOMAIN mem'.src : mem'.src[q] = mem.src[q]
        BY <3>1 DEF Drop
      <3> QED BY <1>2, <3>1, <3>2 DEF MemTyped
    <2> QED BY <1>1, <2>1, <2>2
  <1>4. Kernel'
    BY <1>1, <1>2, <1>3 DEF Kernel, Drop
  <1> QED BY <1>1, <1>2, <1>3, <1>4, Kept

LEMMA NewMaps == MemTyped(Memory) /\ 1 \in DOMAIN Memory.inode
PROOF
  <1>1. Root \in AnyPath
    BY DEF Root, AnyPath
  <1>2. /\ IsMem(Memory) /\ Memory.next = 2 /\ Memory.nextSrc = 2
        /\ Memory.inode = [x \in {1} |-> [layer |-> "delta", ino |-> 1, path |-> Root]]
        /\ Memory.rev = [k \in {<<"delta", 1>>} |-> 1] /\ Memory.path = [p \in {Root} |-> 1] /\ Memory.src = [p \in {} |-> None]
    BY DEF Memory, IsMem
  <1>3. /\ DOMAIN Memory.inode = {1} /\ Memory.inode[1] = [layer |-> "delta", ino |-> 1, path |-> Root]
        /\ DOMAIN Memory.rev = {<<"delta", 1>>} /\ Memory.rev[<<"delta", 1>>] = 1
        /\ DOMAIN Memory.path = {Root} /\ Memory.path[Root] = 1
        /\ DOMAIN Memory.src = {}
    BY <1>2
  <1>4. Memory.inode[1] \in Info /\ Memory.inode[1].path = Root /\ Memory.inode[1].layer = "delta"
    BY <1>1, <1>3 DEF Info
  <1> HIDE DEF Memory
  <1> QED BY <1>2, <1>3, <1>4 DEF MemTyped

LEMMA RemountSafe == OverlayInv /\ Remount => OverlayInv'
PROOF
  <1> SUFFICES ASSUME OverlayInv, Remount PROVE OverlayInv'
    OBVIOUS
  <1>1. /\ session < MaxSession /\ session' = session + 1 /\ mem' = Memory /\ op' = NoOp /\ dcache' = [p \in {Root} |-> 1]
        /\ answer' = (IF Ready THEN answer ELSE "error") /\ stale' = (stale \/ DOMAIN origin # {} \/ CutShort)
        /\ UNCHANGED <<ent, node, nextDelta, origin>>
    BY DEF Remount, durable
  <1>2. DeltaTyped /\ Kernel
    BY DEF OverlayInv
  <1>3. MemTyped(mem)' /\ 1 \in DOMAIN mem'.inode
    BY <1>1, NewMaps
  <1>4. stale' \in BOOLEAN
    <2>1. stale \in BOOLEAN /\ CutShort \in BOOLEAN /\ (DOMAIN origin # {}) \in BOOLEAN
      BY <1>2 DEF Kernel, CutShort
    <2> QED BY <1>1, <2>1
  <1>5. session' \in 1..MaxSession
    BY <1>1, <1>2, BoundsAssumption DEF Kernel
  <1>6. answer' \in {"ok", "error"}
    BY <1>1, <1>2 DEF Kernel
  <1>7. DOMAIN dcache' = {Root} /\ dcache'[Root] = 1
    BY <1>1
  <1>8. Kernel'
    BY <1>3, <1>4, <1>5, <1>6, <1>7 DEF Kernel
  <1> QED BY <1>1, <1>2, <1>3, <1>8, SameDelta, Rests

LEMMA InitSafe == Init => OverlayInv
PROOF
  <1> SUFFICES ASSUME Init PROVE OverlayInv
    OBVIOUS
  <1>1. /\ ent = [e \in {} |-> None] /\ nextDelta = 2 /\ node = [d \in {1} |-> [kind |-> "dir", from |-> <<>>, mod |-> FALSE]]
        /\ origin = [d \in {} |-> None] /\ mem = Memory /\ op = NoOp /\ answer = "ok"
        /\ dcache = [p \in {Root} |-> 1] /\ session = 1 /\ stale = FALSE
    BY DEF Init
  <1>2. DOMAIN node = {1} /\ node[1] = [kind |-> "dir", from |-> <<>>, mod |-> FALSE] /\ DOMAIN ent = {} /\ DOMAIN origin = {}
    BY <1>1
  <1>3. DeltaTyped
    <2>1. node[1] \in NodeType /\ node[1].kind = "dir"
      BY <1>2 DEF NodeType
    <2> QED BY <1>1, <1>2, <2>1, BoundsAssumption DEF DeltaTyped
  <1>4. MemTyped(mem) /\ 1 \in DOMAIN mem.inode
    BY <1>1, NewMaps
  <1>5. Kernel
    <2>1. DOMAIN dcache = {Root} /\ dcache[Root] = 1
      BY <1>1
    <2>2. session \in 1..MaxSession
      BY <1>1, BoundsAssumption
    <2>3. \A p \in DOMAIN dcache : dcache[p] \in DOMAIN mem.inode
      BY <1>4, <2>1
    <2> QED BY <1>1, <2>2, <2>3 DEF Kernel
  <1>6. OpTyped
    <2>1. op.made < nextDelta
      BY <1>1, Idles DEF None
    <2> QED BY <1>1, <1>4, <2>1, Idles, NoSteps DEF OpTyped, None
  <1>7. ParentsThere /\ Handed /\ Creates
    <2>1. op.todo = <<>> /\ op.call.what = "idle" /\ \A S : ~Has(op.todo, S)
      BY <1>1, Idles, NoneLeft
    <2> QED BY <2>1 DEF ParentsThere, Handed, Creates, Makes
  <1> QED BY <1>3, <1>4, <1>5, <1>6, <1>7 DEF OverlayInv

LEMMA LookupSafe == ASSUME NEW p \in Paths, OverlayInv, Lookup(p) PROVE OverlayInv'
PROOF
  <1> DEFINE x == Parent(p)
             f == Look(mem, x, Last(p))
  <1>1. /\ Ready /\ Known(Front(p)) /\ f.ino # None /\ mem' = f.m /\ dcache' = Add(dcache, p, f.ino)
        /\ UNCHANGED <<ent, node, nextDelta, origin, op, answer, session, stale>>
    BY DEF Lookup, Serving, KnownParent, Found, durable
  <1>2. DeltaTyped /\ MemTyped(mem) /\ Kernel /\ 1 \in DOMAIN mem.inode
    BY DEF OverlayInv
  <1>3. x \in DOMAIN mem.inode
    BY <1>1, <1>2 DEF Known, Parent, Kernel
  <1>4. Last(p) \in Names
    BY PathsAre, PathParts
  <1> HIDE DEF x
  <1>5. Extends(mem, f.m) /\ f.ino \in {None} \cup DOMAIN f.m.inode
    BY <1>2, <1>3, <1>4, LookTyped
  <1> HIDE DEF f
  <1>6. MemTyped(mem)' /\ DOMAIN mem.inode \subseteq DOMAIN mem'.inode
    BY <1>1, <1>5 DEF Extends
  <1>7. \A q \in DOMAIN dcache' : dcache'[q] \in DOMAIN mem'.inode
    <2>1. f.ino \in DOMAIN mem'.inode
      BY <1>1, <1>5
    <2>2. \A q \in DOMAIN dcache : dcache[q] \in DOMAIN mem'.inode
      BY <1>2, <1>6 DEF Kernel
    <2> QED BY <1>1, <2>1, <2>2 DEF Add
  <1>8. Kernel'
    BY <1>1, <1>2, <1>7 DEF Kernel
  <1> QED BY <1>1, <1>2, <1>6, <1>8, Kept

LEMMA ReaddirPlusSafe == ASSUME NEW p, OverlayInv, ReaddirPlus(p) PROVE OverlayInv'
PROOF
  <1> DEFINE x == dcache[p]
             i == mem.inode[x]
             bd == BaseDir(mem, x)
             fromBase == {n \in Names : Append(bd, n) \in DOMAIN Base}
             fromDelta == {n \in Names : ~IsWhiteout(Append(i.path, n)) /\ <<i.ino, n>> \in DOMAIN ent}
             m0 == IF i.layer = "base" THEN mem ELSE BaseWalk(mem, i.path)
             m1 == NumberEntries(m0, i, bd, "base", SetToSeq(fromBase))
             m2 == NumberEntries(m1, i, bd, "delta", SetToSeq(fromDelta))
  <1>1. /\ Ready /\ Known(p) /\ mem' = IF i.layer = "base" THEN m1 ELSE m2
        /\ UNCHANGED <<ent, node, nextDelta, origin, op, answer, dcache, session, stale>>
    BY DEF ReaddirPlus, Serving, durable
  <1>2. DeltaTyped /\ MemTyped(mem) /\ Kernel /\ 1 \in DOMAIN mem.inode
    BY DEF OverlayInv
  <1>3. x \in DOMAIN mem.inode /\ i \in Info
    BY <1>1, <1>2 DEF Known, Kernel, MemTyped
  <1>4. fromBase \in SUBSET Names /\ (\A n \in fromBase : Append(bd, n) \in DOMAIN Base)
        /\ fromDelta \in SUBSET Names /\ (\A n \in fromDelta : <<i.ino, n>> \in DOMAIN ent)
    OBVIOUS
  <1> HIDE DEF x, i, bd, fromBase, fromDelta
  <1>5. MemTyped(m0) /\ Keeps(mem, m0)
    <2>1. i.path \in AnyPath
      BY <1>3 DEF Info
    <2> QED BY <1>2, <2>1, BaseWalkTyped, KeepsAll
  <1> HIDE DEF m0
  <1>6. MemTyped(m1) /\ Keeps(m0, m1)
    BY <1>2, <1>3, <1>4, <1>5, NumberingTyped
  <1> HIDE DEF m1
  <1>7. MemTyped(m2) /\ Keeps(m1, m2)
    BY <1>2, <1>3, <1>4, <1>6, NumberingTyped
  <1> HIDE DEF m2
  <1>8. MemTyped(mem)' /\ DOMAIN mem.inode \subseteq DOMAIN mem'.inode
    <2>1. Keeps(mem, m1) /\ Keeps(mem, m2)
      BY <1>5, <1>6, <1>7, KeepsAll
    <2> QED BY <1>1, <1>6, <1>7, <2>1 DEF Keeps
  <1>9. Kernel'
    BY <1>1, <1>2, <1>8 DEF Kernel
  <1> QED BY <1>1, <1>2, <1>8, <1>9, Kept

\* Two preparations after each other, and what may end them.
LEMMA PrepConcat == ASSUME NEW s, NEW t, Prep(s), Prep(t) PROVE Prep(s \o t)
PROOF
  <1>1. CASE t = <<>>
    <2>1. s \o t = s
      BY <1>1 DEF Prep, Todo
    <2> QED BY <2>1
  <1>2. CASE t # <<>>
    <2>1. Todo(t) /\ Head(t).do \notin {"parent_origin", "fill"} /\ \A k \in 1..Len(t) : t[k].do \in Preparing
      BY <1>2 DEF Prep
    <2>2. Meets(s, t)
      BY <2>1, MeetsAny
    <2> QED BY <1>2, <2>1, <2>2, Concat
  <1> QED BY <1>1, <1>2

\* All steps of t come at the end of a handler.
Closing(t) == Todo(t) /\ t # <<>> /\ \A k \in 1..Len(t) : t[k].do \in Ending

LEMMA Closed ==
    ASSUME NEW s, NEW t, Prep(s), Closing(t)
    PROVE  /\ Todo(s \o t) /\ s \o t # <<>> /\ Head(s \o t).do \notin {"parent_origin", "fill"}
           /\ \A S : S \cap Preparing = {} /\ Has(s \o t, S) => Has(t, S)
           /\ \A k \in 1..Len(s \o t) : (s \o t)[k].do = "create" => \E j \in 1..Len(t) : (s \o t)[k] = t[j]
           /\ (s \o t)[Len(s \o t)] = t[Len(t)]
PROOF
  <1>1. Todo(t) /\ t # <<>>
    BY DEF Closing
  <1>2. Head(t).do \notin {"parent_origin", "fill"}
    <2>1. Len(t) \in Nat /\ Len(t) >= 1 /\ t[1] = Head(t)
      BY <1>1, TodoTail
    <2>2. 1 \in 1..Len(t)
      BY <2>1
    <2> QED BY <2>1, <2>2 DEF Closing, Ending
  <1>3. Meets(s, t)
    BY <1>2, MeetsAny
  <1> DEFINE u == s \o t
  <1>4. /\ Todo(u) /\ u # <<>> /\ Head(u).do \notin {"parent_origin", "fill"}
        /\ \A S : S \cap Preparing = {} /\ Has(u, S) => Has(t, S)
        /\ \A k \in 1..Len(u) : u[k].do \in Preparing \/ \E j \in 1..Len(t) : u[k] = t[j]
        /\ u[Len(u)] = t[Len(t)]
    BY <1>1, <1>3, Concat
  <1> HIDE DEF u
  <1>5. "create" \notin Preparing
    BY DEF Preparing
  <1>6. \A k \in 1..Len(u) : u[k].do = "create" => \E j \in 1..Len(t) : u[k] = t[j]
    BY <1>4, <1>5
  <1> QED BY <1>4, <1>6 DEF u

LEMMA CloseOne ==
    ASSUME NEW t, StepOk(t), t.do \in Ending
    PROVE  Closing(<<t>>) /\ Len(<<t>>) = 1 /\ <<t>>[1] = t /\ \A S : Has(<<t>>, S) <=> t.do \in S
PROOF
  <1>1. /\ Todo(<<t>>) /\ <<t>> # <<>> /\ Len(<<t>>) = 1 /\ <<t>>[1] = t /\ (\A k \in 1..Len(<<t>>) : <<t>>[k] = t)
        /\ \A S : Has(<<t>>, S) <=> t.do \in S
    BY OneStep
  <1> QED BY <1>1 DEF Closing

\* A removal or a rename, and the whiteout after it.
LEMMA CloseTwo ==
    ASSUME NEW a, NEW b, StepOk(a), StepOk(b), a.do \in {"remove", "move"}, b.do = "whiteout"
    PROVE  /\ Closing(<<a, b>>) /\ Len(<<a, b>>) = 2 /\ (\A k \in 1..2 : <<a, b>>[k] \in {a, b}) /\ Head(<<a, b>>) = a
           /\ \A S : Has(<<a, b>>, S) => a.do \in S \/ "whiteout" \in S
PROOF
  <1> DEFINE s == <<a, b>>
  <1>1. s \in Seq(StepType) /\ Len(s) = 2 /\ s[1] = a /\ s[2] = b /\ Head(s) = a /\ s # <<>>
    BY DEF StepOk
  <1> HIDE DEF s
  <1>2. \A k \in 1..Len(s) : s[k] \in {a, b}
    <2> SUFFICES ASSUME NEW k \in 1..Len(s) PROVE s[k] \in {a, b}
      OBVIOUS
    <2>1. k = 1 \/ k = 2
      BY <1>1
    <2> QED BY <1>1, <2>1
  <1>3. \A k \in 1..Len(s) - 1 : Joins(s[k], s[k + 1])
    <2> SUFFICES ASSUME NEW k \in 1..Len(s) - 1 PROVE Joins(s[k], s[k + 1])
      OBVIOUS
    <2>1. k = 1 /\ k + 1 = 2
      BY <1>1
    <2> QED BY <1>1, <2>1 DEF Joins
  <1>4. \A k, j \in 1..Len(s) : s[k].do \in {"remove", "move", "whiteout"} /\ k < j => s[j].do = "whiteout"
    <2> SUFFICES ASSUME NEW k \in 1..Len(s), NEW j \in 1..Len(s), k < j PROVE s[j].do = "whiteout"
      OBVIOUS
    <2>1. j = 2
      BY <1>1
    <2> QED BY <1>1, <2>1
  <1>5. Todo(s)
    BY <1>1, <1>2, <1>3, <1>4 DEF Todo
  <1>6. \A k \in 1..Len(s) : s[k].do \in Ending
    BY <1>2 DEF Ending
  <1>7. ASSUME NEW S, Has(s, S) PROVE a.do \in S \/ "whiteout" \in S
    <2>1. PICK k \in 1..Len(s) : s[k].do \in S
      BY <1>7 DEF Has
    <2> QED BY <1>2, <2>1
  <1> QED BY <1>1, <1>2, <1>5, <1>6, <1>7 DEF Closing, s

LEMMA KindThere ==
    ASSUME DeltaTyped, NEW m, NEW x
    PROVE  /\ Kind(m, x) # "gone" => There(m.inode[x], DOMAIN node)
           /\ Kind(m, x) \notin {"dir", "gone"} => NotRoot(m.inode[x])
BY DEF Kind, There, NotRoot, DeltaTyped

LEMMA ExtendsThere ==
    ASSUME NEW m, NEW k, Extends(m, k), NEW x \in DOMAIN m.inode
    PROVE  /\ x \in DOMAIN k.inode
           /\ There(m.inode[x], DOMAIN node) => There(k.inode[x], DOMAIN node)
           /\ NotRoot(m.inode[x]) => NotRoot(k.inode[x])
BY DEF Extends, There, NotRoot

LEMMA FoundTyped ==
    ASSUME OverlayInv, NEW p \in Paths, KnownParent(p)
    PROVE  /\ Parent(p) \in DOMAIN mem.inode /\ There(mem.inode[Parent(p)], DOMAIN node)
           /\ Extends(mem, Found(p).m) /\ Found(p).ino \in {None} \cup DOMAIN Found(p).m.inode
           /\ OverlayPath(p) \in Named /\ Last(OverlayPath(p)) = Last(p) /\ Last(p) \in Names
           /\ There(Found(p).m.inode[Parent(p)], DOMAIN node)
PROOF
  <1>1. DeltaTyped /\ MemTyped(mem) /\ Kernel
    BY DEF OverlayInv
  <1>2. Parent(p) \in DOMAIN mem.inode /\ Kind(mem, Parent(p)) = "dir"
    BY <1>1 DEF KnownParent, Known, Parent, Kernel
  <1>3. There(mem.inode[Parent(p)], DOMAIN node)
    BY <1>1, <1>2, KindThere
  <1>4. Last(p) \in Names
    BY PathsAre, PathParts
  <1>5. Extends(mem, Found(p).m) /\ Found(p).ino \in {None} \cup DOMAIN Found(p).m.inode
    BY <1>1, <1>2, <1>4, LookTyped DEF Found
  <1>6. There(Found(p).m.inode[Parent(p)], DOMAIN node)
    BY <1>2, <1>3, <1>5, ExtendsThere
  <1>7. mem.inode[Parent(p)].path \in AnyPath
    BY <1>1, <1>2 DEF MemTyped, Info
  <1>8. OverlayPath(p) \in Named /\ Last(OverlayPath(p)) = Last(p)
    BY <1>4, <1>7, PathLonger DEF OverlayPath
  <1> QED BY <1>2, <1>3, <1>4, <1>5, <1>6, <1>8

LEMMA CreateNodeSafe == ASSUME NEW p \in Paths, NEW k \in {"dir", "file"}, OverlayInv, CreateNode(p, k) PROVE OverlayInv'
PROOF
  <1> DEFINE at == OverlayPath(p)
             m == Found(p).m
             x == Parent(p)
             s == <<Step("clear", at)>> \o Parents(at)
             t == <<Step("create", at)>>
             c == Call(k, p, p)
  <1>1. KnownParent(p) /\ Begin(c, x, 1, None, m, s \o t) /\ UNCHANGED stale
    BY DEF CreateNode
  <1>2. /\ x \in DOMAIN mem.inode /\ Extends(mem, m) /\ at \in Named /\ Last(at) = Last(p) /\ There(m.inode[x], DOMAIN node)
    BY <1>1, FoundTyped
  <1>3. c.what = k /\ c.p = p
    BY DEF Call
  <1>4. 1 \in DOMAIN mem.inode
    BY DEF OverlayInv
  <1> HIDE DEF x, m, c, at
  <1>5. MemTyped(m) /\ DOMAIN mem.inode \subseteq DOMAIN m.inode
    BY <1>2 DEF Extends
  <1>6. Prep(s)
    <2>1. Prep(<<Step("clear", at)>>)
      <3>1. StepOk(Step("clear", at)) /\ Step("clear", at).do = "clear" /\ "clear" \in Preparing
        BY <1>2, StepTyped DEF Preparing
      <3> QED BY <3>1, OneStep
    <2>2. Prep(Parents(at))
      BY <1>2, ParentsPrep
    <2> QED BY <2>1, <2>2, PrepConcat
  <1>7. Closing(t) /\ Len(t) = 1 /\ t[1] = Step("create", at) /\ \A S : Has(t, S) <=> "create" \in S
    <2>1. StepOk(Step("create", at)) /\ Step("create", at).do = "create" /\ "create" \in Ending
      BY <1>2, StepTyped DEF Ending
    <2> QED BY <2>1, CloseOne
  <1>8. Step("create", at).do = "create" /\ Step("create", at).at = at
    BY DEF Step
  <1> DEFINE u == s \o t
  <1> HIDE DEF s, t
  <1>9. /\ Todo(u) /\ u # <<>> /\ Head(u).do \notin {"parent_origin", "fill"}
        /\ \A S : S \cap Preparing = {} /\ Has(u, S) => Has(t, S)
        /\ \A j \in 1..Len(u) : u[j].do = "create" => \E i \in 1..Len(t) : u[j] = t[i]
        /\ u[Len(u)] = t[Len(t)]
    BY <1>6, <1>7, Closed
  <1>10. Begin(c, x, 1, None, m, u)
    BY <1>1
  <1> HIDE DEF u
  <1>11. ~Has(u, {"move"}) /\ ~Has(u, {"link"})
    BY <1>7, <1>9 DEF Preparing
  <1>12. \A j \in 1..Len(u) : u[j].do = "create" => Last(u[j].at) = Last(p)
    <2>1. \A i \in 1..Len(t) : t[i] = Step("create", at)
      BY <1>7
    <2> QED BY <1>2, <1>8, <1>9, <2>1
  <1>13. u[Len(u)].do = "create"
    BY <1>7, <1>8, <1>9
  <1>14. None \in Nat
    BY DEF None
  <1> QED BY <1>1, <1>2, <1>3, <1>4, <1>5, <1>9, <1>10, <1>11, <1>12, <1>13, <1>14, Begins

LEMMA OnInodeSafe == ASSUME NEW p \in Paths, NEW what \in {"modify", "open"}, OverlayInv, OnInode(what, p) PROVE OverlayInv'
PROOF
  <1> DEFINE x == dcache[p]
             i == mem.inode[x]
             w == DeltaWalk(i.path)
             m == IF i.layer = "base" /\ w # None THEN UpdateMapping(mem, x, w) ELSE mem
             s == IF i.layer = "base" THEN CopyUp(mem, i.path, i.ino) ELSE <<>>
             t == <<Step("touch", i.path)>>
             c == Call(what, p, p)
  <1>1. Known(p) /\ Begin(c, x, 1, i.ino, m, s \o t) /\ UNCHANGED stale
    BY DEF OnInode
  <1>2. DeltaTyped /\ MemTyped(mem) /\ Kernel /\ 1 \in DOMAIN mem.inode
    BY DEF OverlayInv
  <1>3. x \in DOMAIN mem.inode
    BY <1>1, <1>2 DEF Known, Kernel
  <1>4. i \in Info /\ (i.layer = "base" => i.path # <<>>)
    BY <1>2, <1>3 DEF MemTyped
  <1>5. i.path \in AnyPath /\ i.ino \in Nat
    BY <1>4 DEF Info
  <1>6. c.what = what
    BY DEF Call
  <1> HIDE DEF x, i, c
  <1>7. MemTyped(m) /\ DOMAIN m.inode = DOMAIN mem.inode
    <2>1. w \in Nat
      BY <1>2, <1>5, WalkEnds
    <2> HIDE DEF w
    <2>2. MemTyped(UpdateMapping(mem, x, w)) /\ DOMAIN UpdateMapping(mem, x, w).inode = DOMAIN mem.inode
      BY <1>2, <1>3, <2>1, UpdateTyped
    <2> QED BY <1>2, <2>2
  <1>8. Prep(s)
    <2>1. i.layer = "base" => i.path \in Named
      BY <1>4, <1>5 DEF AnyPath, Named
    <2> QED BY <2>1, CopyUpPrep, NoSteps
  <1>9. Closing(t) /\ \A S : Has(t, S) <=> "touch" \in S
    <2> DEFINE e == Step("touch", i.path)
    <2>1. StepOk(e) /\ e.do = "touch" /\ "touch" \in Ending
      BY <1>5 DEF StepOk, Step, StepType, Ending
    <2> HIDE DEF e
    <2> QED BY <2>1, CloseOne DEF e
  <1> DEFINE u == s \o t
  <1> HIDE DEF s, t, m
  <1>10. /\ Todo(u) /\ u # <<>> /\ Head(u).do \notin {"parent_origin", "fill"}
         /\ \A S : S \cap Preparing = {} /\ Has(u, S) => Has(t, S)
    BY <1>8, <1>9, Closed
  <1>11. Begin(c, x, 1, i.ino, m, u)
    BY <1>1
  <1> HIDE DEF u
  <1>12. ~Has(u, {"move"}) /\ ~Has(u, {"link"}) /\ ~Has(u, {"create", "link"}) /\ ~Has(u, {"create", "link", "move"}) /\ ~Has(u, {"create"})
    BY <1>9, <1>10 DEF Preparing
  <1>13. \A j \in 1..Len(u) : u[j].do # "create"
    BY <1>12 DEF Has
  <1> QED BY <1>1, <1>2, <1>3, <1>5, <1>6, <1>7, <1>10, <1>11, <1>12, <1>13, Begins

LEMMA RemoveSafe ==
    ASSUME NEW p \in Paths, OverlayInv, KnownParent(p), UNCHANGED stale,
           Begin(Call("remove", p, p), Parent(p), 1, None, Found(p).m,
                 <<Step("remove", OverlayPath(p)), Step("whiteout", OverlayPath(p))>>)
    PROVE  OverlayInv'
PROOF
  <1> DEFINE at == OverlayPath(p)
             m == Found(p).m
             x == Parent(p)
             a == Step("remove", at)
             b == Step("whiteout", at)
             u == <<a, b>>
             c == Call("remove", p, p)
  <1>1. Begin(c, x, 1, None, m, u)
    OBVIOUS
  <1>2. x \in DOMAIN mem.inode /\ Extends(mem, m) /\ at \in Named
    BY FoundTyped
  <1>3. c.what = "remove"
    BY DEF Call
  <1>4. 1 \in DOMAIN mem.inode
    BY DEF OverlayInv
  <1> HIDE DEF x, m, c, at
  <1>5. MemTyped(m) /\ DOMAIN mem.inode \subseteq DOMAIN m.inode
    BY <1>2 DEF Extends
  <1>6. StepOk(a) /\ StepOk(b) /\ a.do = "remove" /\ b.do = "whiteout"
    BY <1>2, StepTyped DEF Ending
  <1> HIDE DEF a, b
  <1>7. Closing(u) /\ Len(u) = 2 /\ (\A k \in 1..2 : u[k] \in {a, b}) /\ Head(u) = a /\ \A S : Has(u, S) => "remove" \in S \/ "whiteout" \in S
    BY <1>6, CloseTwo
  <1> HIDE DEF u
  <1>8. ~Has(u, {"move"}) /\ ~Has(u, {"link"}) /\ ~Has(u, {"create", "link"}) /\ ~Has(u, {"create", "link", "move"})
    BY <1>7
  <1>9. \A j \in 1..Len(u) : u[j].do # "create"
    BY <1>6, <1>7
  <1>10. None \in Nat /\ Todo(u) /\ u # <<>> /\ Head(u).do \notin {"parent_origin", "fill"}
    BY <1>6, <1>7 DEF None, Closing
  <1> QED BY <1>1, <1>2, <1>3, <1>4, <1>5, <1>8, <1>9, <1>10, Begins

LEMMA UnlinkSafe == ASSUME NEW p \in Paths, OverlayInv, Unlink(p) PROVE OverlayInv'
BY RemoveSafe DEF Unlink

LEMMA RmdirSafe == ASSUME NEW p \in Paths, OverlayInv, Rmdir(p) PROVE OverlayInv'
BY RemoveSafe DEF Rmdir

\* A copy-up of one name and the preparation of another.
LEMMA TwoNames ==
    ASSUME NEW s, Prep(s), NEW at \in Named
    PROVE  Prep(s \o <<Step("clear", at)>> \o Parents(at))
PROOF
  <1> DEFINE c == <<Step("clear", at)>>
  <1>1. Prep(c)
    <2>1. StepOk(Step("clear", at)) /\ Step("clear", at).do = "clear" /\ "clear" \in Preparing
      BY StepTyped DEF Preparing
    <2> QED BY <2>1, OneStep
  <1>2. Prep(Parents(at))
    BY ParentsPrep
  <1> HIDE DEF c
  <1>3. Prep(s \o c)
    BY <1>1, PrepConcat
  <1>4. Prep((s \o c) \o Parents(at))
    BY <1>2, <1>3, PrepConcat
  <1> QED BY <1>4 DEF c

LEMMA LinkSafe == ASSUME NEW p \in Paths, NEW q \in Paths, OverlayInv, Link(p, q) PROVE OverlayInv'
PROOF
  <1> DEFINE y == dcache[p]
             i == mem.inode[y]
             at == OverlayPath(q)
             m == Found(q).m
             x == Parent(q)
             f == IF i.layer = "base" THEN CopyUp(mem, i.path, i.ino) ELSE <<>>
             s == f \o <<Step("clear", at)>> \o Parents(at)
             t == <<Step("link", at)>>
             c == Call("link", p, q)
  <1>1. Known(p) /\ KnownParent(q) /\ Kind(mem, y) \notin {"dir", "gone"} /\ Begin(c, x, y, i.ino, m, s \o t) /\ UNCHANGED stale
    BY DEF Link
  <1>2. DeltaTyped /\ MemTyped(mem) /\ Kernel
    BY DEF OverlayInv
  <1>3. /\ x \in DOMAIN mem.inode /\ Extends(mem, m) /\ at \in Named /\ There(m.inode[x], DOMAIN node)
    BY <1>1, FoundTyped
  <1>4. y \in DOMAIN mem.inode
    BY <1>1, <1>2 DEF Known, Kernel
  <1>5. i \in Info /\ (i.layer = "base" => i.path # <<>>)
    BY <1>2, <1>4 DEF MemTyped
  <1>6. i.path \in AnyPath /\ i.ino \in Nat
    BY <1>5 DEF Info
  <1>7. NotRoot(i)
    BY <1>1, <1>2, KindThere
  <1>8. c.what = "link"
    BY DEF Call
  <1> HIDE DEF x, m, c, at, y
  <1>9. NotRoot(m.inode[y])
    BY <1>3, <1>4, <1>7, ExtendsThere
  <1> HIDE DEF i
  <1>10. MemTyped(m) /\ DOMAIN mem.inode \subseteq DOMAIN m.inode
    BY <1>3 DEF Extends
  <1>11. Prep(f)
    <2>1. i.layer = "base" => i.path \in Named
      BY <1>5, <1>6 DEF AnyPath, Named
    <2> QED BY <2>1, CopyUpPrep, NoSteps
  <1> HIDE DEF f
  <1>12. Prep(s)
    BY <1>3, <1>11, TwoNames
  <1>13. Closing(t) /\ \A S : Has(t, S) <=> "link" \in S
    <2> DEFINE e == Step("link", at)
    <2>1. StepOk(e) /\ e.do = "link" /\ "link" \in Ending
      BY <1>3, StepTyped DEF Ending
    <2> HIDE DEF e
    <2> QED BY <2>1, CloseOne DEF e
  <1> DEFINE u == s \o t
  <1> HIDE DEF s, t
  <1>14. /\ Todo(u) /\ u # <<>> /\ Head(u).do \notin {"parent_origin", "fill"}
         /\ \A S : S \cap Preparing = {} /\ Has(u, S) => Has(t, S)
    BY <1>12, <1>13, Closed
  <1>15. Begin(c, x, y, i.ino, m, u)
    BY <1>1
  <1> HIDE DEF u
  <1>16. ~Has(u, {"move"}) /\ ~Has(u, {"create"})
    BY <1>13, <1>14 DEF Preparing
  <1>17. \A j \in 1..Len(u) : u[j].do # "create"
    BY <1>16 DEF Has
  <1> QED BY <1>1, <1>3, <1>4, <1>6, <1>8, <1>9, <1>10, <1>14, <1>15, <1>16, <1>17, Begins

LEMMA RenameSafe == ASSUME NEW p \in Paths, NEW q \in Paths, OverlayInv, Rename(p, q) PROVE OverlayInv'
PROOF
  <1> DEFINE src == Found(p)
             dst == Look(src.m, Parent(q), Last(q))
             m == dst.m
             x == Parent(p)
             y == Parent(q)
             i == m.inode[src.ino]
             from == OverlayPath(p)
             to == OverlayPath(q)
             f == IF i.layer = "base" THEN CopyUp(m, from, i.ino) ELSE <<>>
             s == f \o <<Step("clear", to)>> \o Parents(to)
             a == Step("move", to)
             b == Step("whiteout", from)
             t == <<a, b>>
             c == Call("rename", p, q)
  <1>1. /\ KnownParent(p) /\ KnownParent(q) /\ src.ino # None
        /\ Begin(c, x, y, i.ino, m, s \o t) /\ UNCHANGED stale
    BY DEF Rename
  <1>2. DeltaTyped
    BY DEF OverlayInv
  <1>3. /\ x \in DOMAIN mem.inode /\ Extends(mem, src.m) /\ from \in Named /\ src.ino \in {None} \cup DOMAIN src.m.inode
    BY <1>1, FoundTyped
  <1>4. y \in DOMAIN mem.inode /\ There(mem.inode[y], DOMAIN node) /\ to \in Named /\ Last(q) \in Names
    BY <1>1, FoundTyped
  <1>5. c.what = "rename"
    BY DEF Call
  <1> HIDE DEF x, y, c, from, to
  <1>6. MemTyped(src.m) /\ y \in DOMAIN src.m.inode /\ There(src.m.inode[y], DOMAIN node) /\ src.ino \in DOMAIN src.m.inode
    BY <1>1, <1>3, <1>4, ExtendsThere DEF Extends
  <1>7. Extends(src.m, m)
    <2> HIDE DEF src
    <2> QED BY <1>2, <1>4, <1>6, LookTyped DEF y
  <1> HIDE DEF src, dst, m
  <1>8. MemTyped(m) /\ There(m.inode[y], DOMAIN node) /\ src.ino \in DOMAIN m.inode
    BY <1>6, <1>7, ExtendsThere DEF Extends
  <1>9. DOMAIN mem.inode \subseteq DOMAIN m.inode
    BY <1>3, <1>7 DEF Extends
  <1>10. i.ino \in Nat
    BY <1>8 DEF MemTyped, Info
  <1> HIDE DEF i
  <1>11. Prep(f)
    BY <1>3, CopyUpPrep, NoSteps
  <1> HIDE DEF f
  <1>12. Prep(s)
    BY <1>4, <1>11, TwoNames
  <1>13. StepOk(a) /\ StepOk(b) /\ a.do = "move" /\ b.do = "whiteout"
    BY <1>3, <1>4, StepTyped DEF Ending
  <1> HIDE DEF a, b
  <1>14. Closing(t) /\ \A S : Has(t, S) => "move" \in S \/ "whiteout" \in S
    BY <1>13, CloseTwo
  <1> DEFINE u == s \o t
  <1> HIDE DEF s, t
  <1>15. /\ Todo(u) /\ u # <<>> /\ Head(u).do \notin {"parent_origin", "fill"}
         /\ \A S : S \cap Preparing = {} /\ Has(u, S) => Has(t, S)
    BY <1>12, <1>14, Closed
  <1>16. Begin(c, x, y, i.ino, m, u)
    BY <1>1
  <1> HIDE DEF u
  <1>17. ~Has(u, {"create", "link"}) /\ ~Has(u, {"create"}) /\ ~Has(u, {"link"})
    BY <1>14, <1>15 DEF Preparing
  <1>18. \A j \in 1..Len(u) : u[j].do # "create"
    BY <1>17 DEF Has
  <1> QED BY <1>1, <1>3, <1>4, <1>5, <1>8, <1>9, <1>10, <1>15, <1>16, <1>17, <1>18, Begins

-----------------------------------------------------------------------------
LEMMA StutterSafe == OverlayInv /\ UNCHANGED vars => OverlayInv'
PROOF
  <1> SUFFICES ASSUME OverlayInv, UNCHANGED vars PROVE OverlayInv'
    OBVIOUS
  <1> USE DEF vars
  <1>1. DeltaTyped' /\ MemTyped(mem)' /\ 1 \in DOMAIN mem'.inode /\ Kernel'
    BY SameDelta DEF OverlayInv, Kernel
  <1>2. OpTyped'
    BY DEF OverlayInv, OpTyped, Ready
  <1>3. ParentsThere' /\ Handed'
    BY DEF OverlayInv, ParentsThere, Handed, At
  <1>4. Creates'
    <2> DEFINE r(i, E, N) == IF i.layer = "delta" THEN i.ino
                             ELSE IF WalkIn(E, i.path) # None /\ N[WalkIn(E, i.path)].kind = "dir"
                                  THEN WalkIn(E, i.path) ELSE None
    <2>1. /\ ResolveDeltaParent(mem, op.x) = r(mem.inode[op.x], ent, node)
          /\ ResolveDeltaParent(mem, op.x)' = r(mem'.inode[op'.x], ent', node')
      BY DEF ResolveDeltaParent, DeltaWalk, WalkIn
    <2> HIDE DEF r
    <2>2. ResolveDeltaParent(mem, op.x)' = ResolveDeltaParent(mem, op.x)
      BY <2>1
    <2> HIDE DEF vars
    <2>3. op' = op /\ mem' = mem /\ ent' = ent
      BY DEF vars
    <2> QED BY <2>2, <2>3 DEF OverlayInv, Creates, Makes
  <1> QED BY <1>1, <1>2, <1>3, <1>4 DEF OverlayInv

LEMMA NextSafe == OverlayInv /\ [Next]_vars => OverlayInv'
PROOF
  <1> SUFFICES ASSUME OverlayInv, [Next]_vars PROVE OverlayInv'
    OBVIOUS
  <1>1. ASSUME NEW p \in Paths, Lookup(p) PROVE OverlayInv'
    BY <1>1, LookupSafe
  <1>2. ASSUME NEW p \in Paths, Mkdir(p) \/ CreateFile(p) \/ Mknod(p) \/ Symlink(p) PROVE OverlayInv'
    BY <1>2, CreateNodeSafe DEF Mkdir, CreateFile, Mknod, Symlink
  <1>3. ASSUME NEW p \in Paths, Chmod(p) \/ Chown(p) \/ Utimens(p) \/ Open(p) PROVE OverlayInv'
    BY <1>3, OnInodeSafe DEF Chmod, Chown, Utimens, Open
  <1>4. ASSUME NEW p \in Paths, Unlink(p) PROVE OverlayInv'
    BY <1>4, UnlinkSafe
  <1>5. ASSUME NEW p \in Paths, Rmdir(p) PROVE OverlayInv'
    BY <1>5, RmdirSafe
  <1>6. ASSUME NEW p \in Paths, Forget(p) PROVE OverlayInv'
    BY <1>6, ForgetSafe
  <1>7. ASSUME NEW p \in Paths, NEW q \in Paths, Link(p, q) PROVE OverlayInv'
    BY <1>7, LinkSafe
  <1>8. ASSUME NEW p \in Paths, NEW q \in Paths, Rename(p, q) PROVE OverlayInv'
    BY <1>8, RenameSafe
  <1>9. ASSUME NEW p \in {Root} \cup Paths, ReaddirPlus(p) PROVE OverlayInv'
    BY <1>9, ReaddirPlusSafe
  <1>10. CASE RemoveWhiteout \/ EnsureParent \/ ParentOrigin
    BY <1>10, RemoveWhiteoutSafe, EnsureParentSafe, ParentOriginSafe
  <1>11. CASE Copy \/ Fill \/ AddOrigin \/ Touch
    BY <1>11, CopySafe, FillSafe, AddOriginSafe, TouchSafe
  <1>12. CASE Make \/ MakeLink \/ RemoveDelta \/ CreateWhiteout \/ Move
    BY <1>12, MakeSafe, MakeLinkSafe, RemoveDeltaSafe, CreateWhiteoutSafe, MoveSafe
  <1>13. CASE Reply \/ Fail \/ Remount
    BY <1>13, ReplySafe, FailSafe, RemountSafe
  <1>14. CASE UNCHANGED vars
    BY <1>14, StutterSafe
  <1> QED BY <1>1, <1>2, <1>3, <1>4, <1>5, <1>6, <1>7, <1>8, <1>9, <1>10, <1>11, <1>12, <1>13, <1>14 DEF Next

LEMMA InvTypes == OverlayInv => TypeOK
PROOF
  <1> SUFFICES ASSUME OverlayInv PROVE TypeOK
    OBVIOUS
  <1>1. DeltaTyped /\ MemTyped(mem) /\ Kernel
    BY DEF OverlayInv
  <1>2. \A e \in DOMAIN ent : e[1] \in DOMAIN node /\ e[2] \in Names /\ ent[e] \in DOMAIN node
    BY <1>1 DEF DeltaTyped
  <1>3. \A d \in DOMAIN node : /\ node[d].kind \in {"dir", "file", "symlink"}
                             /\ node[d].from \in {<<>>} \cup DOMAIN Base /\ node[d].mod \in BOOLEAN
    BY <1>1 DEF DeltaTyped, NodeType
  <1>4. \A x \in DOMAIN mem.inode : x < mem.next /\ mem.inode[x].layer \in {"delta", "base"}
    BY <1>1 DEF MemTyped, Info
  <1> QED BY <1>1, <1>2, <1>3, <1>4 DEF TypeOK, DeltaTyped, Kernel

\* The delta's entries, inodes and origins, the maps in memory and what the
\* kernel holds fit together after every statement of every handler: no entry
\* without its directory or inode, no number the maps do not know.
THEOREM OverlayTypes == Spec => []TypeOK
PROOF
  <1>1. Init => OverlayInv
    BY InitSafe
  <1>2. OverlayInv /\ [Next]_vars => OverlayInv'
    BY NextSafe
  <1> QED BY <1>1, <1>2, InvTypes, PTL DEF Spec

(***************************************************************************)
(* WhiteoutHidesBaseOnly: no name is both whited out and in the delta.  It *)
(* rests on more than the types: the delta is a tree, the maps and caches  *)
(* fit the delta and the base, and what a handler has still to do fits     *)
(* both (Whole), until a rename leaves something cached behind.            *)
(* OverlayWhiteoutProofs shows that every action keeps it.                 *)
(***************************************************************************)
\* A directory of the delta, and two delta inodes that both are or both are not.
Dir(N, d) == d \in DOMAIN N /\ N[d].kind = "dir"
Alike(N, d, e) == Dir(N, d) <=> Dir(N, e)
Copies(N, O) == DOMAIN O \cap DOMAIN N

\* Every inode has one name, and only directories have entries.
Tree(E, N) ==
    /\ \A e, f \in DOMAIN E : E[e] = E[f] => e = f
    /\ \A e \in DOMAIN E : Dir(N, e[1])

\* What is known as base number b is a directory if and only if d is one.
OfKind(N, O, m, b, d) ==
    /\ \A e \in Copies(N, O) : O[e] = b => Alike(N, e, d)
    /\ \A q \in DOMAIN m.src : m.src[q] = b => (Dir(N, d) <=> Base[q] = "dir")

DeltaKeys(N, nd, m) ==
    \A k \in DOMAIN m.rev : k[1] = "delta" =>
        LET i == m.inode[m.rev[k]] IN
        /\ i.layer = "delta" /\ k[2] \in Nat /\ k[2] < nd
        /\ Dir(N, k[2]) => i.ino = k[2]
        /\ k[2] \in DOMAIN N /\ Dir(N, i.ino) => i.ino = k[2]

BaseKeys(N, O, m) ==
    \A k \in DOMAIN m.rev : k[1] = "base" =>
        LET i == m.inode[m.rev[k]] IN
        /\ k[2] \in Nat /\ k[2] < m.nextSrc
        /\ i.layer = "base" => i.ino = k[2]
        /\ i.layer = "delta" /\ Dir(N, i.ino) => i.ino \in DOMAIN O /\ O[i.ino] = k[2]
        /\ i.layer = "delta" /\ i.ino \in DOMAIN N => OfKind(N, O, m, k[2], i.ino)
        /\ \A l \in DOMAIN m.rev : m.rev[l] = m.rev[k] =>
              /\ l[1] = "base" => l = k
              /\ l[1] = "delta" /\ l[2] \in DOMAIN N => OfKind(N, O, m, k[2], l[2])

DeltaInodes(E, N, nd, m) ==
    \A x \in DOMAIN m.inode : m.inode[x].layer = "delta" =>
        m.inode[x].ino < nd /\ (Dir(N, m.inode[x].ino) => WalkIn(E, m.inode[x].path) = m.inode[x].ino)

BaseInodes(N, O, m) ==
    \A x \in DOMAIN m.inode : m.inode[x].layer = "base" =>
        LET i == m.inode[x] IN
        /\ <<"base", i.ino>> \in DOMAIN m.rev /\ m.rev[<<"base", i.ino>>] = x
        /\ i.path \in DOMAIN Base
        /\ \A q \in DOMAIN m.src : m.src[q] = i.ino => i.path = q
        /\ \A d \in Copies(N, O) : O[d] = i.ino => (Dir(N, d) <=> Base[i.path] = "dir")

Numbers(m) ==
    /\ \A p, q \in DOMAIN m.src : m.src[p] = m.src[q] => p = q
    /\ None < m.next /\ \A x \in DOMAIN m.inode : x # None

Origins(E, N, O, m) ==
    \A d \in Copies(N, O) :
        /\ O[d] \in Nat /\ O[d] < m.nextSrc
        /\ \A q \in DOMAIN m.src : m.src[q] = O[d] =>
              ((Dir(N, d) <=> Base[q] = "dir") /\ (Dir(N, d) => WalkIn(E, q) = d))
        /\ \A e \in Copies(N, O) : O[d] = O[e] => Alike(N, d, e) /\ (Dir(N, d) => d = e)
        /\ ~Dir(N, d) => <<"base", O[d]>> \in DOMAIN m.rev
        /\ Dir(N, d) => \A q \in Named : WalkIn(E, q) = d => (q \in DOMAIN Base /\ Base[q] = "dir")

Fits(E, N, O, nd, m) ==
    /\ DeltaKeys(N, nd, m) /\ BaseKeys(N, O, m)
    /\ DeltaInodes(E, N, nd, m) /\ BaseInodes(N, O, m)
    /\ Numbers(m) /\ Origins(E, N, O, m)

IsDir(N, m, x) ==
    IF m.inode[x].layer = "delta" THEN Dir(N, m.inode[x].ino)
    ELSE \E q \in DOMAIN m.src : m.src[q] = m.inode[x].ino /\ Base[q] = "dir"

\* What the delta has at the path of a cached base inode is a copy of it, but
\* for the one the running handler just made.
CopyKnown(E, N, O, mk, p, b) ==
    LET d == WalkIn(E, p) IN
    (d \notin {None, mk}) =>
        ((Dir(N, d) <=> Base[p] = "dir") /\ (Dir(N, d) => (d \in DOMAIN O /\ O[d] = b)))

CachedFits(E, N, O, mk, m, x, p) ==
    /\ IsDir(N, m, x) => m.inode[x].path = p
    /\ m.inode[x].layer = "base" =>
         /\ p \in DOMAIN m.src /\ m.src[p] = m.inode[x].ino /\ m.inode[x].path = p
         /\ CopyKnown(E, N, O, mk, p, m.inode[x].ino)
    /\ \A k \in DOMAIN m.rev : k[1] = "base" /\ m.rev[k] = x =>
         /\ \A d \in Copies(N, O) : Dir(N, d) /\ O[d] = k[2] => WalkIn(E, p) = d
         /\ \A q \in DOMAIN m.src : m.src[q] = k[2] /\ Base[q] = "dir" => q = p

CacheFits(E, N, O, mk, dc, m) ==
    \A p \in DOMAIN dc : p \in AnyPath /\ dc[p] \in DOMAIN m.inode /\ CachedFits(E, N, O, mk, m, dc[p], p)

Good(E, N, O, nd, mk, dc, m) == MemTyped(m) /\ Fits(E, N, O, nd, m) /\ CacheFits(E, N, O, mk, dc, m)

Hidden(E, W) == \A w \in W : w \in AnyPath /\ WalkIn(E, w) = None

\* The name a handler makes or replaces, and what its steps work on.
Target(c) == IF c.what \in {"link", "rename"} THEN c.q ELSE c.p

StepAt(c, t) ==
    /\ t.do \in {"create", "link", "move"} => t.at = Target(c)
    /\ t.do \in {"copy", "fill", "origin", "remove", "whiteout"} => t.at = c.p
    /\ t.do \in {"parent", "parent_origin"} => Len(t.at) = 1

Follows(a, b) ==
    /\ a.do = "parent" => b = Step("parent_origin", a.at)
    /\ a.do = "copy" => b.do \in {"fill", "origin"}
    /\ a.do = "fill" => b.do = "origin"
    /\ b.do \in {"fill", "origin"} => a.do \in {"copy", "fill"}
    /\ b.do = "whiteout" => a.do \in {"remove", "move"}

\* One copy and one origin a handler, and a parent is not what is copied.
Before(a, b) ==
    /\ b.do \in {"copy", "origin"} => a.do # b.do
    /\ a.do \in {"parent", "parent_origin"} /\ b.do \in {"copy", "fill", "origin"} => a.at # b.at

Plan(c, s) ==
    /\ \A k \in 1..Len(s) : StepAt(c, s[k])
    /\ \A k \in 1..Len(s) - 1 : Follows(s[k], s[k + 1])
    /\ \A k, j \in 1..Len(s) : k < j => Before(s[k], s[j])
    /\ s # <<>> => s[Len(s)].do \notin {"parent", "copy", "fill"}

\* No whiteout is left where an entry is going to be.
Cleared(W, s) ==
    \A k \in 1..Len(s) : s[k].do \in {"parent", "create", "move", "copy"} /\ s[k].at \in W =>
        \E j \in 1..k - 1 : s[j] = Step("clear", s[k].at)

\* What is copied has a directory to go to, or one is going to be made.
ParentMade(E, N, s) ==
    \A k \in 1..Len(s) : s[k].do = "copy" =>
        \/ Dir(N, WalkIn(E, Front(s[k].at)))
        \/ \E j \in 1..k - 1 : s[j] = Step("parent", Front(s[k].at))

ParentsAreDirs(E, mk, s) ==
    \A k \in 1..Len(s) : s[k].do \in {"parent", "parent_origin"} /\ s[k].at \in DOMAIN Base =>
        (WalkIn(E, s[k].at) \in {None, mk} => Base[s[k].at] = "dir")

\* What was just made, and is not yet recorded as a copy.
MadeFits(E, N, O, mk, c, s) ==
    /\ s # <<>> /\ Head(s).do \in {"fill", "origin"} => mk # None
    /\ mk # None =>
         /\ s # <<>> /\ Head(s).do \in {"parent_origin", "fill", "origin"}
         /\ WalkIn(E, Head(s).at) = mk /\ mk \in DOMAIN N /\ mk \notin DOMAIN O
         /\ Head(s).do = "parent_origin" => Dir(N, mk)
         /\ Head(s).do # "parent_origin" => (Dir(N, mk) <=> Base[c.p] = "dir")

\* The base file a handler copies up is the one at the name it was called for.
Source(E, m, c, b, s) ==
    /\ Has(s, {"copy", "fill", "origin"}) =>
         /\ c.p \in DOMAIN m.src /\ m.src[c.p] = b /\ <<"base", b>> \in DOMAIN m.rev
    /\ Has(s, {"copy"}) => WalkIn(E, c.p) = None
    /\ s # <<>> /\ Head(s).do = "whiteout" => WalkIn(E, c.p) = None

CachedDir(N, dc, m, x, p) == p \in DOMAIN dc /\ dc[p] = x /\ IsDir(N, m, x)

Hands(E, N, dc, m, c, x, y, s) ==
    /\ c.what \in {"file", "dir", "remove", "rename"} =>
         c.p \in Named /\ CachedDir(N, dc, m, x, Front(c.p))
    /\ c.what \in {"link", "rename"} => c.q \in Named
    /\ c.what = "link" => CachedDir(N, dc, m, x, Front(c.q)) 
    /\ c.what = "rename" =>
         /\ CachedDir(N, dc, m, y, Front(c.q)) /\ ~IsPrefix(c.p, c.q) /\ ~IsPrefix(c.q, c.p)
         /\ (Has(s, {"move"}) /\ c.q \in DOMAIN dc) =>
               (m.inode[dc[c.q]].layer = "base" /\ Base[c.q] = "dir" /\ WalkIn(E, c.q) = None =>
                 IF WalkIn(E, c.p) = None THEN c.p \in DOMAIN Base /\ Base[c.p] = "dir" ELSE Dir(N, WalkIn(E, c.p)))
    /\ Has(s, {"create"}) => c.what \in {"file", "dir"}
         /\ (c.p \in DOMAIN dc => m.inode[dc[c.p]].layer = "delta")
    /\ Has(s, {"remove"}) => c.what = "remove"
    /\ Has(s, {"move"}) => c.what = "rename"
    /\ Has(s, {"whiteout"}) => c.what \in {"remove", "rename"}
    /\ Has(s, {"link"}) => c.what = "link"
    /\ c.what = "link" => Has(s, {"link"})
    /\ c.what \in {"modify", "open"} => c.p \in DOMAIN dc /\ dc[c.p] = x
         /\ (Has(s, {"origin"}) => m.inode[x].layer = "base")
    /\ Has(s, {"touch"}) => c.what \in {"modify", "open"}

Seen(W, dc, m, c, s) ==
    \A p \in DOMAIN dc : m.inode[dc[p]].layer = "base" /\ p \in W =>
        c.what \in {"remove", "rename"} /\ c.p = p /\ s = <<>>

\* As long as nothing is stale, all of it holds.
Whole ==
    /\ Tree(ent, node) /\ Good(ent, node, origin, nextDelta, op.made, dcache, mem)
    /\ Hidden(ent, whiteouts) /\ Seen(whiteouts, dcache, mem, op.call, op.todo)
    /\ Plan(op.call, op.todo) /\ Cleared(whiteouts, op.todo) /\ ParentMade(ent, node, op.todo)
    /\ ParentsAreDirs(ent, op.made, op.todo)
    /\ MadeFits(ent, node, origin, op.made, op.call, op.todo)
    /\ Source(ent, mem, op.call, op.src, op.todo)
    /\ Hands(ent, node, dcache, mem, op.call, op.x, op.y, op.todo)

OverlaySound == OverlayInv /\ (~stale => Whole)

-----------------------------------------------------------------------------
(* In a tree a walk that ends somewhere ends there only; an entry for what  *)
(* has none below it changes the walk of its own path only.                 *)

EntTyped(E, N) ==
    /\ \A e \in DOMAIN E : e \in (DOMAIN N) \X Names /\ E[e] \in DOMAIN N \ {1}
    /\ None \notin DOMAIN N

LEMMA PathUnique ==
    ASSUME NEW E, NEW N, EntTyped(E, N), Tree(E, N)
    PROVE  \A p, q \in AnyPath : WalkIn(E, p) = WalkIn(E, q) /\ WalkIn(E, p) # None => p = q
PROOF
  <1> DEFINE S == {k \in Nat : \A p, q \in AnyPath :
                     Len(p) = k /\ WalkIn(E, p) = WalkIn(E, q) /\ WalkIn(E, p) # None => p = q}
  <1>1. \A p \in AnyPath : p = <<>> \/ (p \in Named /\ p # <<>>)
    BY DEF AnyPath, Named
  <1>2. ASSUME NEW p \in AnyPath, p # <<>>, WalkIn(E, p) # None
        PROVE  /\ Front(p) \in AnyPath /\ Last(p) \in Names /\ p = Append(Front(p), Last(p)) /\ Len(Front(p)) = Len(p) - 1
               /\ <<WalkIn(E, Front(p)), Last(p)>> \in DOMAIN E /\ WalkIn(E, p) = E[<<WalkIn(E, Front(p)), Last(p)>>]
               /\ WalkIn(E, Front(p)) # None /\ WalkIn(E, p) # 1
    <2>1. /\ Front(p) \in AnyPath /\ Last(p) \in Names /\ p = Append(Front(p), Last(p)) /\ Len(Front(p)) = Len(p) - 1
      BY <1>1, <1>2, PathParts
    <2>2. WalkIn(E, p) = IF <<WalkIn(E, Front(p)), Last(p)>> \in DOMAIN E
                         THEN E[<<WalkIn(E, Front(p)), Last(p)>>] ELSE None
      BY <2>1, WalkOn
    <2>3. <<WalkIn(E, Front(p)), Last(p)>> \in DOMAIN E /\ WalkIn(E, p) = E[<<WalkIn(E, Front(p)), Last(p)>>]
      BY <1>2, <2>2
    <2> QED BY <2>1, <2>3 DEF EntTyped
  <1>3. 0 \in S
    <2> SUFFICES ASSUME NEW p \in AnyPath, NEW q \in AnyPath,
                        Len(p) = 0, WalkIn(E, p) = WalkIn(E, q), WalkIn(E, p) # None
                 PROVE  p = q
      OBVIOUS
    <2>1. p = <<>>
      BY DEF AnyPath
    <2> QED BY <1>2, <2>1, WalkStart
  <1>4. ASSUME NEW k \in Nat, k \in S PROVE k + 1 \in S
    <2> SUFFICES ASSUME NEW p \in AnyPath, NEW q \in AnyPath,
                        Len(p) = k + 1, WalkIn(E, p) = WalkIn(E, q), WalkIn(E, p) # None
                 PROVE  p = q
      OBVIOUS
    <2>1. p # <<>>
      BY DEF AnyPath
    <2>2. q # <<>>
      BY <1>2, <2>1, WalkStart
    <2>3. <<WalkIn(E, Front(p)), Last(p)>> = <<WalkIn(E, Front(q)), Last(q)>>
      <3>1. <<WalkIn(E, Front(p)), Last(p)>> \in DOMAIN E /\ WalkIn(E, p) = E[<<WalkIn(E, Front(p)), Last(p)>>]
        BY <1>2, <2>1
      <3>2. <<WalkIn(E, Front(q)), Last(q)>> \in DOMAIN E /\ WalkIn(E, q) = E[<<WalkIn(E, Front(q)), Last(q)>>]
        BY <1>2, <2>2
      <3> QED BY <3>1, <3>2 DEF Tree
    <2>4. Front(p) \in AnyPath /\ Front(q) \in AnyPath /\ Len(Front(p)) = k /\ WalkIn(E, Front(p)) # None
      <3>1. Front(p) \in AnyPath /\ Len(Front(p)) = Len(p) - 1 /\ WalkIn(E, Front(p)) # None
        BY <1>2, <2>1
      <3>2. Front(q) \in AnyPath
        BY <1>2, <2>2
      <3> QED BY <3>1, <3>2
    <2>5. WalkIn(E, Front(p)) = WalkIn(E, Front(q)) /\ Last(p) = Last(q)
      BY <2>3
    <2>6. Front(p) = Front(q)
      BY <1>4, <2>4, <2>5
    <2> QED BY <1>2, <2>1, <2>2, <2>5, <2>6
  <1>5. \A k \in Nat : k \in S
    <2> HIDE DEF S
    <2> QED BY <1>3, <1>4, SetInduction
  <1> QED BY <1>5 DEF AnyPath

LEMMA AddLeaf ==
    ASSUME NEW E, NEW N, EntTyped(E, N), Tree(E, N), NEW A \in AnyPath, NEW n \in Names,
           <<WalkIn(E, A), n>> \notin DOMAIN E, WalkIn(E, A) # None,
           NEW v, v # None, v # WalkIn(E, A), \A e \in DOMAIN E : e[1] # v,
           NEW F, F = Add(E, <<WalkIn(E, A), n>>, v)
    PROVE  \A q \in AnyPath : WalkIn(F, q) = IF q = Append(A, n) THEN v ELSE WalkIn(E, q)
PROOF
  <1> DEFINE P == Append(A, n)
             D == WalkIn(E, A)
             S == {k \in Nat : \A q \in AnyPath : Len(q) = k => WalkIn(F, q) = IF q = P THEN v ELSE WalkIn(E, q)}
  <1>0. P \in AnyPath /\ P # <<>> /\ Front(P) = A /\ Last(P) = n /\ WalkIn(E, P) = None
    BY PathLonger, WalkOn DEF Named
  <1>1. /\ DOMAIN F = DOMAIN E \cup {<<D, n>>} /\ F[<<D, n>>] = v
        /\ \A e \in DOMAIN E : F[e] = E[e]
    BY DEF Add
  <1>2. \A e \in DOMAIN E : e[1] # None
    BY DEF EntTyped
  <1> HIDE DEF P, D
  <1>3. 0 \in S
    <2> SUFFICES ASSUME NEW q \in AnyPath, Len(q) = 0 PROVE WalkIn(F, q) = IF q = P THEN v ELSE WalkIn(E, q)
      OBVIOUS
    <2>1. q = <<>>
      BY DEF AnyPath
    <2> QED BY <1>0, <2>1, WalkStart
  <1>4. ASSUME NEW k \in Nat, k \in S PROVE k + 1 \in S
    <2> SUFFICES ASSUME NEW q \in AnyPath, Len(q) = k + 1 PROVE WalkIn(F, q) = IF q = P THEN v ELSE WalkIn(E, q)
      OBVIOUS
    <2> DEFINE r == Front(q)
               l == Last(q)
    <2>1. r \in AnyPath /\ l \in Names /\ q = Append(r, l) /\ Len(r) = k
      <3>1. q \in Named
        BY DEF AnyPath, Named
      <3> QED BY <3>1, PathParts
    <2>2. WalkIn(F, r) = IF r = P THEN v ELSE WalkIn(E, r)
      BY <1>4, <2>1
    <2> HIDE DEF r, l
    <2>3. /\ WalkIn(E, q) = IF <<WalkIn(E, r), l>> \in DOMAIN E THEN E[<<WalkIn(E, r), l>>] ELSE None
          /\ WalkIn(F, q) = IF <<WalkIn(F, r), l>> \in DOMAIN F THEN F[<<WalkIn(F, r), l>>] ELSE None
      BY <2>1, WalkOn
    <2>4. CASE r = P
      <3>1. <<v, l>> \notin DOMAIN F
        BY <1>1 DEF D
      <3>2. <<None, l>> \notin DOMAIN E
        BY <1>2
      <3>3. q # P
        BY <2>1, <2>4, PathLonger DEF AnyPath
      <3> QED BY <1>0, <2>2, <2>3, <2>4, <3>1, <3>2, <3>3
    <2>5. CASE r # P
      <3>1. WalkIn(F, r) = WalkIn(E, r)
        BY <2>2, <2>5
      <3>2. CASE q = P
        <4>1. r = A /\ l = n
          BY <1>0, <2>1, <3>2, PathLonger
        <4> QED BY <1>1, <2>3, <3>1, <3>2, <4>1 DEF D
      <3>3. CASE q # P
        <4>1. <<WalkIn(E, r), l>> # <<D, n>>
          <5> SUFFICES ASSUME WalkIn(E, r) = D, l = n PROVE FALSE
            OBVIOUS
          <5>1. r = A
            BY <2>1, PathUnique DEF D
          <5> QED BY <2>1, <3>3, <5>1 DEF P
        <4> QED BY <1>1, <2>3, <3>1, <3>3, <4>1
      <3> QED BY <3>2, <3>3
    <2> QED BY <2>4, <2>5
  <1>5. \A k \in Nat : k \in S
    <2> HIDE DEF S
    <2> QED BY <1>3, <1>4, SetInduction
  <1>6. \A q \in AnyPath : Len(q) \in Nat
    BY DEF AnyPath
  <1> QED BY <1>5, <1>6 DEF P

LEMMA DropLeaf ==
    ASSUME NEW E, NEW N, EntTyped(E, N), Tree(E, N), NEW A \in AnyPath, NEW n \in Names,
           <<WalkIn(E, A), n>> \in DOMAIN E, \A e \in DOMAIN E : e[1] # E[<<WalkIn(E, A), n>>],
           NEW F, F = Drop(E, {<<WalkIn(E, A), n>>})
    PROVE  \A q \in AnyPath : WalkIn(F, q) = IF q = Append(A, n) THEN None ELSE WalkIn(E, q)
PROOF
  <1> DEFINE P == Append(A, n)
             D == WalkIn(E, A)
             v == E[<<D, n>>]
             S == {k \in Nat : \A q \in AnyPath : Len(q) = k => WalkIn(F, q) = IF q = P THEN None ELSE WalkIn(E, q)}
  <1>0. P \in AnyPath /\ P # <<>> /\ Front(P) = A /\ Last(P) = n /\ WalkIn(E, P) = v
    BY PathLonger, WalkOn DEF Named
  <1>1. /\ DOMAIN F = DOMAIN E \ {<<D, n>>}
        /\ \A e \in DOMAIN F : F[e] = E[e]
    BY DEF Drop
  <1>2. \A e \in DOMAIN E : e[1] # None /\ e[1] # v
    BY DEF EntTyped
  <1>a. D # None
    <2>1. <<D, n>>[1] = D /\ <<D, n>> \in DOMAIN E
      OBVIOUS
    <2> QED BY <1>2, <2>1
  <1> HIDE DEF P, D, v
  <1>3. 0 \in S
    <2> SUFFICES ASSUME NEW q \in AnyPath, Len(q) = 0 PROVE WalkIn(F, q) = IF q = P THEN None ELSE WalkIn(E, q)
      OBVIOUS
    <2>1. q = <<>>
      BY DEF AnyPath
    <2> QED BY <1>0, <2>1, WalkStart
  <1>4. ASSUME NEW k \in Nat, k \in S PROVE k + 1 \in S
    <2> SUFFICES ASSUME NEW q \in AnyPath, Len(q) = k + 1 PROVE WalkIn(F, q) = IF q = P THEN None ELSE WalkIn(E, q)
      <3>1. k + 1 \in Nat
        OBVIOUS
      <3> QED BY <3>1, Zenon
    <2> DEFINE r == Front(q)
               l == Last(q)
    <2>1. r \in AnyPath /\ l \in Names /\ q = Append(r, l) /\ Len(r) = k
      <3>1. q \in Named
        BY DEF AnyPath, Named
      <3> QED BY <3>1, PathParts
    <2>2. WalkIn(F, r) = IF r = P THEN None ELSE WalkIn(E, r)
      BY <1>4, <2>1
    <2> HIDE DEF r, l
    <2>3. /\ WalkIn(E, q) = IF <<WalkIn(E, r), l>> \in DOMAIN E THEN E[<<WalkIn(E, r), l>>] ELSE None
          /\ WalkIn(F, q) = IF <<WalkIn(F, r), l>> \in DOMAIN F THEN F[<<WalkIn(F, r), l>>] ELSE None
      BY <2>1, WalkOn
    <2>4. CASE r = P
      <3>1. <<None, l>> \notin DOMAIN F /\ <<v, l>> \notin DOMAIN E
        BY <1>1, <1>2
      <3> QED BY <1>0, <2>2, <2>3, <2>4, <3>1
    <2>5. CASE r # P
      <3>1. WalkIn(F, r) = WalkIn(E, r)
        BY <2>2, <2>5
      <3>2. CASE q = P
        <4>1. r = A /\ l = n
          BY <1>0, <2>1, <3>2, PathLonger
        <4> QED BY <1>1, <2>3, <3>1, <3>2, <4>1 DEF D
      <3>3. CASE q # P
        <4>1. <<WalkIn(E, r), l>> # <<D, n>>
          <5> SUFFICES ASSUME WalkIn(E, r) = D, l = n PROVE FALSE
            OBVIOUS
          <5>1. r = A
            BY <1>a, <2>1, PathUnique DEF D
          <5> QED BY <2>1, <3>3, <5>1 DEF P
        <4> QED BY <1>1, <2>3, <3>1, <3>3, <4>1
      <3> QED BY <3>2, <3>3
    <2> QED BY <2>4, <2>5
  <1>5. \A k \in Nat : k \in S
    <2> HIDE DEF S
    <2> QED BY <1>3, <1>4, SetInduction
  <1>6. \A q \in AnyPath : Len(q) \in Nat
    BY DEF AnyPath
  <1> QED BY <1>5, <1>6 DEF P

-----------------------------------------------------------------------------
(* What the helpers on the maps keep.                                      *)

\* A base path gets a number.
LEMMA MoreNumbers ==
    ASSUME NEW E, NEW N, NEW O, NEW nd, NEW mk, NEW dc, NEW m, Good(E, N, O, nd, mk, dc, m), NEW p,
           NEW k, k = BaseLookup(m, p)
    PROVE  Good(E, N, O, nd, mk, dc, k) /\ \A x \in DOMAIN m.inode : IsDir(N, m, x) => IsDir(N, k, x)
PROOF
  <1>0. MemTyped(m) /\ Fits(E, N, O, nd, m) /\ CacheFits(E, N, O, mk, dc, m)
    BY DEF Good
  <1>1. MemTyped(k) /\ SrcGrows(m, k) /\ k.inode = m.inode /\ k.rev = m.rev /\ k.next = m.next
    BY <1>0, BaseLookupTyped DEF Keeps
  <1>2. /\ m.nextSrc \in Nat /\ k.nextSrc \in Nat /\ m.nextSrc <= k.nextSrc
        /\ \A q \in DOMAIN k.src : \/ q \in DOMAIN m.src /\ k.src[q] = m.src[q]
                                   \/ q = p /\ k.src[q] = m.nextSrc
    <2>1. CASE p \notin DOMAIN Base \/ p \in DOMAIN m.src
      BY <1>0, <2>1 DEF BaseLookup, MemTyped
    <2>2. CASE ~(p \notin DOMAIN Base \/ p \in DOMAIN m.src)
      <3>1. k.src = Add(m.src, p, m.nextSrc) /\ k.nextSrc = m.nextSrc + 1 /\ m.nextSrc \in Nat
        BY <1>0, <2>2 DEF BaseLookup, MemTyped, IsMem
      <3> QED BY <3>1 DEF Add
    <2> QED BY <2>1, <2>2
  <1>a. \A q \in DOMAIN m.src : m.src[q] \in Nat /\ m.src[q] < m.nextSrc
    BY <1>0 DEF MemTyped
  <1>3. \A b \in Nat : b < m.nextSrc => \A q \in DOMAIN k.src : k.src[q] = b => q \in DOMAIN m.src /\ m.src[q] = b
    BY <1>2
  <1>4. Numbers(k)
    <2>1. ASSUME NEW q \in DOMAIN k.src, NEW r \in DOMAIN k.src, k.src[q] = k.src[r]
          PROVE  q = r
      BY <1>0, <1>2, <1>a, <2>1 DEF Fits, Numbers
    <2> QED BY <1>0, <1>1, <2>1 DEF Fits, Numbers
  <1>5. DeltaKeys(N, nd, k)
    BY <1>0, <1>1 DEF Fits, DeltaKeys
  <1>6. ASSUME NEW b \in Nat, b < m.nextSrc, NEW d, OfKind(N, O, m, b, d)
        PROVE  OfKind(N, O, k, b, d)
    BY <1>3, <1>6 DEF OfKind
  <1>7. BaseKeys(N, O, k)
    <2> SUFFICES ASSUME NEW l \in DOMAIN m.rev, l[1] = "base"
                 PROVE  LET i == m.inode[m.rev[l]] IN
                        /\ l[2] \in Nat /\ l[2] < k.nextSrc
                        /\ i.layer = "base" => i.ino = l[2]
                        /\ i.layer = "delta" /\ Dir(N, i.ino) => i.ino \in DOMAIN O /\ O[i.ino] = l[2]
                        /\ i.layer = "delta" /\ i.ino \in DOMAIN N => OfKind(N, O, k, l[2], i.ino)
                        /\ \A j \in DOMAIN m.rev : m.rev[j] = m.rev[l] =>
                              /\ j[1] = "base" => j = l
                              /\ j[1] = "delta" /\ j[2] \in DOMAIN N => OfKind(N, O, k, l[2], j[2])
      BY <1>1 DEF BaseKeys
    <2>1. BaseKeys(N, O, m)
      BY <1>0 DEF Fits
    <2>2. l[2] \in Nat /\ l[2] < m.nextSrc
      BY <2>1 DEF BaseKeys
    <2> QED BY <1>2, <1>6, <2>1, <2>2 DEF BaseKeys
  <1>8. DeltaInodes(E, N, nd, k)
    BY <1>0, <1>1 DEF Fits, DeltaInodes
  <1>9. \A x \in DOMAIN m.inode : m.inode[x].layer = "base" => m.inode[x].ino \in Nat /\ m.inode[x].ino < m.nextSrc
    <2>1. \A l \in DOMAIN m.rev : l[1] = "base" => l[2] \in Nat /\ l[2] < m.nextSrc
      BY <1>0 DEF Fits, BaseKeys
    <2>2. \A x \in DOMAIN m.inode : m.inode[x].layer = "base" => <<"base", m.inode[x].ino>> \in DOMAIN m.rev
      BY <1>0 DEF Fits, BaseInodes
    <2> QED BY ONLY <2>1, <2>2
  <1>10. BaseInodes(N, O, k)
    BY <1>0, <1>1, <1>3, <1>9 DEF Fits, BaseInodes
  <1>11. Origins(E, N, O, k)
    BY <1>0, <1>1, <1>2, <1>3 DEF Fits, Origins
  <1>12. ASSUME NEW x \in DOMAIN m.inode
         PROVE  IsDir(N, m, x) <=> IsDir(N, k, x)
    <2>0. m.inode[x].layer \in {"delta", "base"}
      BY <1>0 DEF MemTyped, Info
    <2>1. CASE m.inode[x].layer = "delta"
      BY <1>1, <2>1 DEF IsDir
    <2>2. CASE m.inode[x].layer = "base"
      BY <1>1, <1>3, <1>9, <2>2 DEF IsDir, SrcGrows
    <2> QED BY <2>0, <2>1, <2>2
  <1>13. CacheFits(E, N, O, mk, dc, k)
    <2> SUFFICES ASSUME NEW q \in DOMAIN dc PROVE q \in AnyPath /\ dc[q] \in DOMAIN k.inode /\ CachedFits(E, N, O, mk, k, dc[q], q)
      BY DEF CacheFits
    <2>1. q \in AnyPath /\ dc[q] \in DOMAIN m.inode /\ CachedFits(E, N, O, mk, m, dc[q], q)
      BY <1>0 DEF CacheFits
    <2>2. \A l \in DOMAIN m.rev : l[1] = "base" => l[2] \in Nat /\ l[2] < m.nextSrc
      BY <1>0 DEF Fits, BaseKeys
    <2> QED BY <1>1, <1>3, <1>12, <2>1, <2>2 DEF CachedFits, SrcGrows
  <1> QED BY <1>1, <1>4, <1>5, <1>7, <1>8, <1>10, <1>11, <1>12, <1>13 DEF Good, Fits

LEMMA MoreWalked ==
    ASSUME NEW E, NEW N, NEW O, NEW nd, NEW mk, NEW dc, NEW m, Good(E, N, O, nd, mk, dc, m), NEW p \in AnyPath
    PROVE  Good(E, N, O, nd, mk, dc, BaseWalk(m, p)) /\ \A x \in DOMAIN m.inode : IsDir(N, m, x) => IsDir(N, BaseWalk(m, p), x)
PROOF
  <1> DEFINE k == BaseLookup(m, SubSeq(p, 1, 1))
             l == BaseLookup(k, SubSeq(p, 1, 2))
             j == BaseLookup(m, p)
  <1>1. Good(E, N, O, nd, mk, dc, j) /\ \A x \in DOMAIN m.inode : IsDir(N, m, x) => IsDir(N, j, x)
    BY MoreNumbers
  <1>2. Good(E, N, O, nd, mk, dc, k) /\ k.inode = m.inode /\ \A x \in DOMAIN m.inode : IsDir(N, m, x) => IsDir(N, k, x)
    <2>1. MemTyped(m)
      BY DEF Good
    <2> QED BY <2>1, MoreNumbers, BaseLookupTyped
  <1> HIDE DEF k
  <1>3. Good(E, N, O, nd, mk, dc, l) /\ \A x \in DOMAIN m.inode : IsDir(N, k, x) => IsDir(N, l, x)
    BY <1>2, MoreNumbers
  <1> QED BY <1>1, <1>2, <1>3 DEF BaseWalk, k

\* A delta inode at its path, or a base path with its number, becomes an inode.
Fresh(E, N, O, nd, m, layer, u, p) ==
    /\ layer = "delta" => u < nd /\ (Dir(N, u) => WalkIn(E, p) = u)
    /\ layer = "base" =>
         /\ u < m.nextSrc /\ p \in DOMAIN Base
         /\ \A q \in DOMAIN m.src : m.src[q] = u => p = q
         /\ \A d \in Copies(N, O) : O[d] = u => (Dir(N, d) <=> Base[p] = "dir")

LEMMA MoreInodes ==
    ASSUME NEW E, NEW N, NEW O, NEW nd, NEW mk, NEW dc, NEW m, Good(E, N, O, nd, mk, dc, m),
           NEW layer \in {"delta", "base"}, NEW u \in Nat, NEW p \in AnyPath, layer = "base" => p # <<>>,
           <<layer, u>> \notin DOMAIN m.rev => Fresh(E, N, O, nd, m, layer, u, p),
           NEW k, k = GetOrCreate(m, layer, u, p)
    PROVE  /\ Good(E, N, O, nd, mk, dc, k)
           /\ \A x \in DOMAIN m.inode : IsDir(N, m, x) => IsDir(N, k, x)
PROOF
  <1>0. MemTyped(m) /\ Fits(E, N, O, nd, m) /\ CacheFits(E, N, O, mk, dc, m)
    BY DEF Good
  <1>1. CASE <<layer, u>> \in DOMAIN m.rev
    BY <1>1 DEF GetOrCreate
  <1>2. CASE <<layer, u>> \notin DOMAIN m.rev
    <2> DEFINE i == [layer |-> layer, ino |-> u, path |-> p]
               x == m.next
    <2>1. /\ k.inode = Add(m.inode, x, i) /\ k.rev = Add(m.rev, <<layer, u>>, x)
          /\ k.next = x + 1 /\ k.src = m.src /\ k.nextSrc = m.nextSrc
      <3>1. IsMem(m)
        BY <1>0 DEF MemTyped
      <3> QED BY <1>2, <3>1 DEF GetOrCreate, IsMem
    <2>2. x \notin DOMAIN m.inode /\ x \in Nat /\ None < x
      BY <1>0 DEF MemTyped, Fits, Numbers
    <2>3. /\ DOMAIN k.inode = DOMAIN m.inode \cup {x} /\ k.inode[x] = i
          /\ \A y \in DOMAIN m.inode : y # x /\ k.inode[y] = m.inode[y]
      <3> HIDE DEF i, x
      <3> QED BY <2>1, <2>2 DEF Add
    <2>4. /\ DOMAIN k.rev = DOMAIN m.rev \cup {<<layer, u>>} /\ k.rev[<<layer, u>>] = x
          /\ \A r \in DOMAIN m.rev : k.rev[r] = m.rev[r]
      <3> HIDE DEF i, x
      <3> QED BY <1>2, <2>1 DEF Add
    <2>5. i.path = p /\ i.layer = layer /\ i.ino = u
      OBVIOUS
    <2>6. MemTyped(k)
      BY <1>0, GetOrCreateTyped
    <2>7. \A r \in DOMAIN m.rev : m.rev[r] \in DOMAIN m.inode
      BY <1>0 DEF MemTyped
    <2>8. Fresh(E, N, O, nd, m, layer, u, p)
      BY <1>2
    <2>9. k.src = m.src /\ k.nextSrc = m.nextSrc /\ k.next = x + 1
      BY <2>1
    <2> HIDE DEF i, x
    <2>10. Numbers(k)
      BY <1>0, <2>2, <2>3, <2>9 DEF Fits, Numbers, None
    <2>a. \A b, d : OfKind(N, O, m, b, d) <=> OfKind(N, O, k, b, d)
      BY <2>9 DEF OfKind
    <2>b. <<layer, u>>[1] = layer /\ <<layer, u>>[2] = u
      OBVIOUS
    <2>11. DeltaKeys(N, nd, k)
      BY <1>0, <2>3, <2>4, <2>5, <2>7, <2>8, <2>b DEF Fits, DeltaKeys, Fresh
    <2>12. BaseKeys(N, O, k)
      <3>1. BaseKeys(N, O, m)
        BY <1>0 DEF Fits
      <3>2. ASSUME NEW r \in DOMAIN k.rev, r[1] = "base"
            PROVE  LET j == k.inode[k.rev[r]] IN
                        /\ r[2] \in Nat /\ r[2] < k.nextSrc
                        /\ j.layer = "base" => j.ino = r[2]
                        /\ j.layer = "delta" /\ Dir(N, j.ino) => j.ino \in DOMAIN O /\ O[j.ino] = r[2]
                        /\ j.layer = "delta" /\ j.ino \in DOMAIN N => OfKind(N, O, k, r[2], j.ino)
                        /\ \A l \in DOMAIN k.rev : k.rev[l] = k.rev[r] =>
                              /\ l[1] = "base" => l = r
                              /\ l[1] = "delta" /\ l[2] \in DOMAIN N => OfKind(N, O, k, r[2], l[2])
        <4>1. CASE r = <<layer, u>>
          <5>1. layer = "base" /\ k.rev[r] = x /\ k.inode[x] = i /\ r[2] = u
            BY <2>3, <2>4, <2>b, <3>2, <4>1
          <5>2. \A l \in DOMAIN k.rev : k.rev[l] = x => l = r
            BY <2>3, <2>4, <2>7, <4>1
          <5> QED BY <2>5, <2>8, <2>9, <2>b, <3>2, <4>1, <5>1, <5>2 DEF Fresh
        <4>2. CASE r # <<layer, u>>
          <5>1. r \in DOMAIN m.rev /\ k.rev[r] = m.rev[r] /\ m.rev[r] \in DOMAIN m.inode /\ k.inode[k.rev[r]] = m.inode[m.rev[r]]
            BY <2>3, <2>4, <2>7, <4>2
          <5>2. \A l \in DOMAIN k.rev : k.rev[l] = k.rev[r] => l \in DOMAIN m.rev /\ m.rev[l] = m.rev[r]
            BY <2>3, <2>4, <2>7, <5>1
          <5> QED BY <2>9, <2>a, <3>1, <3>2, <5>1, <5>2 DEF BaseKeys
        <4> QED BY <4>1, <4>2
      <3> QED BY <3>2 DEF BaseKeys
    <2>13. DeltaInodes(E, N, nd, k)
      BY <1>0, <2>3, <2>5, <2>8 DEF Fits, DeltaInodes, Fresh
    <2>14. BaseInodes(N, O, k)
      <3>1. BaseInodes(N, O, m)
        BY <1>0 DEF Fits
      <3>2. ASSUME NEW y \in DOMAIN m.inode, m.inode[y].layer = "base"
            PROVE  LET j == m.inode[y] IN
                   /\ <<"base", j.ino>> \in DOMAIN k.rev /\ k.rev[<<"base", j.ino>>] = y
                   /\ j.path \in DOMAIN Base
                   /\ \A q \in DOMAIN m.src : m.src[q] = j.ino => j.path = q
                   /\ \A d \in Copies(N, O) : O[d] = j.ino => (Dir(N, d) <=> Base[j.path] = "dir")
        BY <2>4, <3>1, <3>2 DEF BaseInodes
      <3>3. CASE layer = "base"
        BY <2>3, <2>4, <2>5, <2>8, <2>9, <3>2, <3>3 DEF BaseInodes, Fresh
      <3>4. CASE layer = "delta"
        BY <2>3, <2>5, <2>9, <3>2, <3>4 DEF BaseInodes
      <3> QED BY <3>3, <3>4
    <2>15. Origins(E, N, O, k)
      BY <1>0, <2>4, <2>9 DEF Fits, Origins
    <2>16. \A y \in DOMAIN m.inode : IsDir(N, m, y) <=> IsDir(N, k, y)
      BY <2>3, <2>9 DEF IsDir
    <2>17. CacheFits(E, N, O, mk, dc, k)
      <3> SUFFICES ASSUME NEW q \in DOMAIN dc PROVE q \in AnyPath /\ dc[q] \in DOMAIN k.inode /\ CachedFits(E, N, O, mk, k, dc[q], q)
        BY DEF CacheFits
      <3>1. q \in AnyPath /\ dc[q] \in DOMAIN m.inode /\ CachedFits(E, N, O, mk, m, dc[q], q)
        BY <1>0 DEF CacheFits
      <3>2. \A l \in DOMAIN k.rev : k.rev[l] = dc[q] => l \in DOMAIN m.rev /\ m.rev[l] = dc[q]
        BY <2>3, <2>4, <3>1
      <3> QED BY <2>3, <2>9, <2>16, <3>1, <3>2 DEF CachedFits
    <2> QED BY <2>6, <2>10, <2>11, <2>12, <2>13, <2>14, <2>15, <2>16, <2>17 DEF Good, Fits
  <1> QED BY <1>1, <1>2

\* An inode comes to stand for the delta inode that is at its path.
Becomes(m, k, x, d, p, K) ==
    /\ MemTyped(k) /\ DOMAIN k.inode = DOMAIN m.inode
    /\ k.inode[x] = [layer |-> "delta", ino |-> d, path |-> p]
    /\ \A y \in DOMAIN m.inode : y # x => k.inode[y] = m.inode[y]
    /\ DOMAIN k.rev = (DOMAIN m.rev \ K) \cup {<<"delta", d>>} /\ k.rev[<<"delta", d>>] = x
    /\ \A l \in DOMAIN m.rev \ K : l # <<"delta", d>> => k.rev[l] = m.rev[l]
    /\ k.src = m.src /\ k.nextSrc = m.nextSrc /\ k.next = m.next

LEMMA GoesToDelta ==
    ASSUME NEW E, NEW N, NEW O, NEW nd, NEW mk, NEW dc, NEW m, Good(E, N, O, nd, mk, dc, m),
           NEW x \in DOMAIN m.inode, NEW d \in DOMAIN N, d \in Nat, d < nd, NEW p, WalkIn(E, p) = d,
           NEW k, NEW K, Becomes(m, k, x, d, p, K),
           \A y \in DOMAIN m.inode : y # x /\ m.inode[y].layer = "base" => <<"base", m.inode[y].ino>> \notin K,
           \A e \in Copies(N, O) : ~Dir(N, e) => <<"base", O[e]>> \notin K,
           \A l \in DOMAIN m.rev \ K : l[1] = "base" /\ m.rev[l] = x =>
               OfKind(N, O, m, l[2], d) /\ (Dir(N, d) => d \in DOMAIN O /\ O[d] = l[2]),
           \A l \in DOMAIN m.rev : l[1] = "delta" /\ m.rev[l] = x =>
               (Dir(N, l[2]) => l[2] = d) /\ (l[2] \in DOMAIN N /\ Dir(N, d) => l[2] = d),
           \A q \in DOMAIN dc : dc[q] = x /\ Dir(N, d) => p = q
    PROVE  /\ Good(E, N, O, nd, mk, dc, k)
           /\ \A y \in DOMAIN m.inode : (y = x => Dir(N, d)) /\ IsDir(N, m, y) => IsDir(N, k, y)
PROOF
  <1>0. MemTyped(m) /\ Fits(E, N, O, nd, m) /\ CacheFits(E, N, O, mk, dc, m) /\ MemTyped(k)
    BY DEF Good, Becomes
  <1>1. /\ DOMAIN k.inode = DOMAIN m.inode
        /\ k.inode[x].layer = "delta" /\ k.inode[x].ino = d /\ k.inode[x].path = p
        /\ \A y \in DOMAIN m.inode : y # x => k.inode[y] = m.inode[y]
        /\ k.src = m.src /\ k.nextSrc = m.nextSrc /\ k.next = m.next
    BY DEF Becomes
  <1> DEFINE u == <<"delta", d>>
  <1>2. u[1] = "delta" /\ u[2] = d
    OBVIOUS
  <1>3. DOMAIN k.rev = (DOMAIN m.rev \ K) \cup {u} /\ k.rev[u] = x /\ \A l \in DOMAIN m.rev \ K : l # u => k.rev[l] = m.rev[l]
    BY DEF Becomes
  <1> HIDE DEF u
  <1>4. \A l \in DOMAIN m.rev : m.rev[l] \in DOMAIN m.inode
    BY <1>0 DEF MemTyped
  <1>a. \A b, e : OfKind(N, O, m, b, e) <=> OfKind(N, O, k, b, e)
    BY <1>1 DEF OfKind
  <1>5. Numbers(k)
    BY <1>0, <1>1 DEF Fits, Numbers
  <1>6. DeltaKeys(N, nd, k)
    <2> SUFFICES ASSUME NEW l \in DOMAIN k.rev, l[1] = "delta"
                 PROVE  LET i == k.inode[k.rev[l]] IN
                        /\ i.layer = "delta" /\ l[2] \in Nat /\ l[2] < nd
                        /\ Dir(N, l[2]) => i.ino = l[2]
                        /\ l[2] \in DOMAIN N /\ Dir(N, i.ino) => i.ino = l[2]
      BY DEF DeltaKeys
    <2>1. CASE l = u
      BY <1>1, <1>2, <1>3, <2>1
    <2>2. CASE l # u
      <3>1. l \in DOMAIN m.rev /\ k.rev[l] = m.rev[l]
        BY <1>3, <2>2
      <3>2. CASE m.rev[l] = x
        BY <1>0, <1>1, <3>1, <3>2 DEF Fits, DeltaKeys
      <3>3. CASE m.rev[l] # x
        BY <1>0, <1>1, <1>4, <3>1, <3>3 DEF Fits, DeltaKeys
      <3> QED BY <3>2, <3>3
    <2> QED BY <2>1, <2>2
  <1>7. BaseKeys(N, O, k)
    <2> SUFFICES ASSUME NEW r \in DOMAIN k.rev, r[1] = "base"
          PROVE  LET j == k.inode[k.rev[r]] IN
                        /\ r[2] \in Nat /\ r[2] < k.nextSrc
                        /\ j.layer = "base" => j.ino = r[2]
                        /\ j.layer = "delta" /\ Dir(N, j.ino) => j.ino \in DOMAIN O /\ O[j.ino] = r[2]
                        /\ j.layer = "delta" /\ j.ino \in DOMAIN N => OfKind(N, O, k, r[2], j.ino)
                        /\ \A l \in DOMAIN k.rev : k.rev[l] = k.rev[r] =>
                              /\ l[1] = "base" => l = r
                              /\ l[1] = "delta" /\ l[2] \in DOMAIN N => OfKind(N, O, k, r[2], l[2])
      BY DEF BaseKeys
    <2>1. BaseKeys(N, O, m)
      BY <1>0 DEF Fits
    <2>2. r # u /\ r \in DOMAIN m.rev \ K /\ k.rev[r] = m.rev[r] /\ m.rev[r] \in DOMAIN m.inode
      BY <1>2, <1>3, <1>4
    <2>3. r[2] \in Nat /\ r[2] < k.nextSrc
      BY <1>1, <2>1, <2>2 DEF BaseKeys
    <2>4. ASSUME NEW l \in DOMAIN k.rev, k.rev[l] = k.rev[r]
          PROVE  /\ l[1] = "base" => l = r
                 /\ l[1] = "delta" /\ l[2] \in DOMAIN N => OfKind(N, O, k, r[2], l[2])
      <3>1. CASE l = u
        BY <1>2, <1>3, <1>a, <2>2, <2>4, <3>1
      <3>2. CASE l # u
        BY <1>3, <1>a, <2>1, <2>2, <2>4, <3>2 DEF BaseKeys
      <3> QED BY <3>1, <3>2
    <2>5. CASE m.rev[r] = x
      BY <1>1, <1>a, <2>2, <2>3, <2>4, <2>5
    <2>6. CASE m.rev[r] # x
      BY <1>1, <1>a, <2>1, <2>2, <2>3, <2>4, <2>6 DEF BaseKeys
    <2> QED BY <2>5, <2>6
  <1>8. DeltaInodes(E, N, nd, k)
    BY <1>0, <1>1 DEF Fits, DeltaInodes
  <1>9. BaseInodes(N, O, k)
    <2>1. ASSUME NEW y \in DOMAIN m.inode, y # x, m.inode[y].layer = "base"
          PROVE  <<"base", m.inode[y].ino>> \in DOMAIN k.rev /\ k.rev[<<"base", m.inode[y].ino>>] = y
      <3>1. <<"base", m.inode[y].ino>> \in DOMAIN m.rev /\ m.rev[<<"base", m.inode[y].ino>>] = y
        BY <1>0, <2>1 DEF Fits, BaseInodes
      <3>2. <<"base", m.inode[y].ino>> # u
        BY <1>2
      <3> QED BY <1>3, <2>1, <3>1, <3>2
    <2> QED BY <1>0, <1>1, <2>1 DEF Fits, BaseInodes
  <1>10. Origins(E, N, O, k)
    BY <1>0, <1>1, <1>3 DEF Fits, Origins
  <1>11. \A y \in DOMAIN m.inode : y # x => (IsDir(N, m, y) <=> IsDir(N, k, y))
    BY <1>1 DEF IsDir
  <1>12. IsDir(N, k, x) <=> Dir(N, d)
    BY <1>1 DEF IsDir
  <1>13. CacheFits(E, N, O, mk, dc, k)
    <2> SUFFICES ASSUME NEW q \in DOMAIN dc PROVE q \in AnyPath /\ dc[q] \in DOMAIN k.inode /\ CachedFits(E, N, O, mk, k, dc[q], q)
      BY DEF CacheFits
    <2>1. q \in AnyPath /\ dc[q] \in DOMAIN m.inode /\ CachedFits(E, N, O, mk, m, dc[q], q)
      BY <1>0 DEF CacheFits
    <2>2. \A l \in DOMAIN k.rev : l[1] = "base" /\ k.rev[l] = dc[q] => l \in DOMAIN m.rev /\ m.rev[l] = dc[q]
      BY <1>2, <1>3
    <2>3. CASE dc[q] = x
      BY <1>1, <1>12, <2>1, <2>2, <2>3 DEF CachedFits
    <2>4. CASE dc[q] # x
      BY <1>1, <1>11, <2>1, <2>2, <2>4 DEF CachedFits
    <2> QED BY <2>3, <2>4
  <1> QED BY <1>0, <1>5, <1>6, <1>7, <1>8, <1>9, <1>10, <1>11, <1>12, <1>13 DEF Good, Fits

\* The mapping of a cached base inode is updated to its copy.
LEMMA Updated ==
    ASSUME NEW E, NEW N, NEW O, NEW nd, NEW mk, NEW dc, NEW m, Good(E, N, O, nd, mk, dc, m),
           NEW p \in DOMAIN dc, NEW d \in DOMAIN N, d \in Nat, d < nd, d # None, d # mk,
           m.inode[dc[p]].layer = "base", WalkIn(E, m.inode[dc[p]].path) = d
    PROVE  /\ Good(E, N, O, nd, mk, dc, UpdateMapping(m, dc[p], d))
           /\ \A y \in DOMAIN m.inode : IsDir(N, m, y) => IsDir(N, UpdateMapping(m, dc[p], d), y)
PROOF
  <1> DEFINE x == dc[p]
             k == UpdateMapping(m, x, d)
  <1>0. MemTyped(m) /\ Fits(E, N, O, nd, m) /\ CacheFits(E, N, O, mk, dc, m)
    BY DEF Good
  <1>1. x \in DOMAIN m.inode /\ CachedFits(E, N, O, mk, m, x, p)
    BY <1>0 DEF CacheFits
  <1>2. /\ p \in DOMAIN m.src /\ m.src[p] = m.inode[x].ino /\ m.inode[x].path = p
        /\ (Dir(N, d) <=> Base[p] = "dir") /\ (Dir(N, d) => d \in DOMAIN O /\ O[d] = m.inode[x].ino)
    BY <1>1 DEF CachedFits, CopyKnown
  <1>3. Becomes(m, k, x, d, p, {})
    <2>1. /\ MemTyped(k) /\ DOMAIN k.inode = DOMAIN m.inode
          /\ \A y \in DOMAIN m.inode : y # x => k.inode[y] = m.inode[y]
          /\ k.inode[x] = [layer |-> "delta", ino |-> d, path |-> m.inode[x].path]
          /\ k.src = m.src /\ k.nextSrc = m.nextSrc
      BY <1>0, <1>1, UpdateTyped
    <2>2. k.rev = Add(m.rev, <<"delta", d>>, x) /\ k.next = m.next
      BY <1>0 DEF UpdateMapping, MemTyped, IsMem
    <2>3. /\ DOMAIN k.rev = DOMAIN m.rev \cup {<<"delta", d>>} /\ k.rev[<<"delta", d>>] = x
          /\ \A l \in DOMAIN m.rev : l # <<"delta", d>> => k.rev[l] = m.rev[l]
      <3> HIDE DEF k, x
      <3> QED BY <2>2 DEF Add
    <2> HIDE DEF k, x
    <2> QED BY <1>2, <2>1, <2>2, <2>3 DEF Becomes
  <1>4. ASSUME NEW l \in DOMAIN m.rev, m.rev[l] = x
        PROVE  /\ l[1] # "delta"
               /\ l[1] = "base" => OfKind(N, O, m, l[2], d) /\ (Dir(N, d) => d \in DOMAIN O /\ O[d] = l[2])
    <2>1. l[1] # "delta"
      BY <1>0, <1>4 DEF Fits, DeltaKeys
    <2>2. l[1] = "base" => l[2] = m.inode[x].ino
      BY <1>0, <1>4 DEF Fits, BaseKeys
    <2>3. OfKind(N, O, m, m.inode[x].ino, d)
      <3>1. \A e \in Copies(N, O) : O[e] = m.inode[x].ino => (Dir(N, e) <=> Base[p] = "dir")
        BY <1>0, <1>1, <1>2 DEF Fits, BaseInodes
      <3>2. \A q \in DOMAIN m.src : m.src[q] = m.inode[x].ino => q = p
        BY <1>0, <1>2 DEF Fits, Numbers
      <3> QED BY <1>2, <3>1, <3>2 DEF OfKind, Alike
    <2> QED BY <1>2, <2>1, <2>2, <2>3
  <1>5. ASSUME NEW q \in DOMAIN dc, dc[q] = x PROVE p = q
    BY <1>0, <1>2, <1>5 DEF CacheFits, CachedFits
  <1>6. IsDir(N, m, x) => Dir(N, d)
    BY <1>0, <1>2 DEF IsDir, Fits, Numbers
  <1> HIDE DEF k, x
  <1>7. WalkIn(E, p) = d
    BY <1>2 DEF x
  <1>8. /\ Good(E, N, O, nd, mk, dc, k)
        /\ \A y \in DOMAIN m.inode : (y = x => Dir(N, d)) /\ IsDir(N, m, y) => IsDir(N, k, y)
    BY <1>1, <1>3, <1>4, <1>5, <1>7, GoesToDelta
  <1> QED BY <1>6, <1>8 DEF k, x

LEMMA RefreshIs ==
    ASSUME NEW m, MemTyped(m), NEW x \in DOMAIN m.inode, NEW d \in Nat, NEW p \in AnyPath
    PROVE  Becomes(m, RefreshMapping(m, x, d, p), x, d, p, {})
PROOF
  <1> DEFINE k == RefreshMapping(m, x, d, p)
  <1>1. /\ MemTyped(k) /\ DOMAIN k.inode = DOMAIN m.inode
        /\ \A y \in DOMAIN m.inode : y # x => k.inode[y] = m.inode[y]
        /\ k.inode[x] = [layer |-> "delta", ino |-> d, path |-> p]
        /\ k.src = m.src /\ k.nextSrc = m.nextSrc
    BY RefreshTyped
  <1>2. k.rev = Add(m.rev, <<"delta", d>>, x) /\ k.next = m.next
    BY DEF RefreshMapping, MemTyped, IsMem
  <1> HIDE DEF k
  <1>3. /\ DOMAIN k.rev = DOMAIN m.rev \cup {<<"delta", d>>} /\ k.rev[<<"delta", d>>] = x
        /\ \A l \in DOMAIN m.rev : l # <<"delta", d>> => k.rev[l] = m.rev[l]
    BY <1>2 DEF Add
  <1>4. Becomes(m, k, x, d, p, {})
    BY <1>1, <1>2, <1>3 DEF Becomes
  <1> QED BY <1>4 DEF k

\* The mapping of the base inode a found delta inode was copied from.
LEMMA Refreshed ==
    ASSUME NEW E, NEW N, NEW O, NEW nd, NEW mk, NEW dc, NEW m, Good(E, N, O, nd, mk, dc, m),
           EntTyped(E, N), Tree(E, N),
           NEW d \in DOMAIN N, d \in Nat, d < nd, NEW p \in AnyPath, WalkIn(E, p) = d, d # None,
           d \in DOMAIN O, <<"base", O[d]>> \in DOMAIN m.rev,
           NEW x, x = m.rev[<<"base", O[d]>>],
           NEW k, k = RefreshMapping(m, x, d, p)
    PROVE  /\ Good(E, N, O, nd, mk, dc, k)
           /\ \A y \in DOMAIN m.inode : IsDir(N, m, y) => IsDir(N, k, y)
PROOF
  <1> DEFINE b == <<"base", O[d]>>
  <1>0. MemTyped(m) /\ Fits(E, N, O, nd, m) /\ CacheFits(E, N, O, mk, dc, m)
    BY DEF Good
  <1>1. x \in DOMAIN m.inode /\ d \in Copies(N, O)
    BY <1>0 DEF MemTyped, Copies
  <1>2. Becomes(m, k, x, d, p, {})
    BY <1>0, <1>1, RefreshIs
  <1>3. OfKind(N, O, m, O[d], d)
    BY <1>0, <1>1 DEF Fits, Origins, OfKind, Alike
  <1>b. b[1] = "base" /\ b[2] = O[d]
    OBVIOUS
  <1>4. ASSUME NEW l \in DOMAIN m.rev, l[1] = "base", m.rev[l] = x
        PROVE  l = b
    BY <1>0, <1>b, <1>4 DEF Fits, BaseKeys
  <1>5. /\ m.inode[x].layer = "base" => m.inode[x].ino = O[d]
        /\ m.inode[x].layer = "delta" /\ Dir(N, m.inode[x].ino) => m.inode[x].ino \in DOMAIN O /\ O[m.inode[x].ino] = O[d]
        /\ m.inode[x].layer = "delta" /\ m.inode[x].ino \in DOMAIN N => Alike(N, d, m.inode[x].ino)
        /\ \A l \in DOMAIN m.rev : m.rev[l] = x /\ l[1] = "delta" /\ l[2] \in DOMAIN N => Alike(N, d, l[2])
    BY <1>0, <1>1, <1>b DEF Fits, BaseKeys, OfKind
  <1>6. ASSUME NEW l \in DOMAIN m.rev, l[1] = "delta", m.rev[l] = x
        PROVE  (Dir(N, l[2]) => l[2] = d) /\ (l[2] \in DOMAIN N /\ Dir(N, d) => l[2] = d)
    <2>1. m.inode[x].layer = "delta" /\ (Dir(N, l[2]) => m.inode[x].ino = l[2])
      BY <1>0, <1>6 DEF Fits, DeltaKeys
    <2>2. l[2] \in DOMAIN N => Alike(N, d, l[2])
      BY <1>5, <1>6
    <2>3. ASSUME Dir(N, l[2]) PROVE l[2] = d
      <3>1. m.inode[x].ino = l[2] /\ l[2] \in DOMAIN O /\ O[l[2]] = O[d] /\ l[2] \in DOMAIN N
        BY <1>5, <2>1, <2>3 DEF Dir
      <3>2. l[2] \in Copies(N, O) /\ Dir(N, d)
        BY <2>2, <2>3, <3>1 DEF Copies, Alike
      <3> QED BY <1>0, <1>1, <3>1, <3>2 DEF Fits, Origins
    <2> QED BY <2>2, <2>3 DEF Alike
  <1>7. ASSUME NEW q \in DOMAIN dc, dc[q] = x, Dir(N, d)
        PROVE  p = q
    <2>1. q \in AnyPath /\ CachedFits(E, N, O, mk, m, x, q)
      BY <1>0, <1>7 DEF CacheFits
    <2>2. WalkIn(E, q) = d
      BY <1>1, <1>7, <1>b, <2>1 DEF CachedFits
    <2> QED BY <2>1, <2>2, PathUnique
  <1>8. IsDir(N, m, x) => Dir(N, d)
    <2>1. m.inode[x].layer \in {"delta", "base"}
      BY <1>0, <1>1 DEF MemTyped, Info
    <2>2. CASE m.inode[x].layer = "delta"
      BY <1>5, <2>2 DEF IsDir, Alike, Dir
    <2>3. CASE m.inode[x].layer = "base"
      BY <1>0, <1>1, <1>5, <2>3 DEF IsDir, Fits, Origins
    <2> QED BY <2>1, <2>2, <2>3
  <1>9. \A l \in DOMAIN m.rev \ {} : l[1] = "base" /\ m.rev[l] = x =>
               OfKind(N, O, m, l[2], d) /\ (Dir(N, d) => d \in DOMAIN O /\ O[d] = l[2])
    BY <1>3, <1>4, <1>b
  <1> HIDE DEF b
  <1>10. /\ Good(E, N, O, nd, mk, dc, k)
        /\ \A y \in DOMAIN m.inode : (y = x => Dir(N, d)) /\ IsDir(N, m, y) => IsDir(N, k, y)
    BY <1>1, <1>2, <1>6, <1>7, <1>9, GoesToDelta
  <1> QED BY <1>8, <1>10

\* What was just made is recorded as a copy of the base inode at its path, or
\* is not a copy of any.
LEMMA WithOrigin ==
    ASSUME NEW E, NEW N, NEW O, NEW nd, NEW d, NEW dc, NEW m, Good(E, N, O, nd, d, dc, m),
           EntTyped(E, N), Tree(E, N),
           d \in DOMAIN N, d \notin DOMAIN O, d # None, NEW p \in AnyPath, WalkIn(E, p) = d,
           p \in DOMAIN m.src, Dir(N, d) <=> Base[p] = "dir",
           ~Dir(N, d) => <<"base", m.src[p]>> \in DOMAIN m.rev
    PROVE  Good(E, N, Add(O, d, m.src[p]), nd, None, dc, m)
PROOF
  <1> DEFINE b == m.src[p]
             F == Add(O, d, b)
  <1>0. MemTyped(m) /\ Fits(E, N, O, nd, m) /\ CacheFits(E, N, O, d, dc, m)
    BY DEF Good
  <1>1. b \in Nat /\ b < m.nextSrc /\ p \in DOMAIN Base /\ p \in AnyPath
    BY <1>0 DEF MemTyped
  <1>2. /\ DOMAIN F = DOMAIN O \cup {d} /\ F[d] = b /\ \A e \in DOMAIN O : e # d /\ F[e] = O[e]
        /\ Copies(N, F) = Copies(N, O) \cup {d}
    BY DEF Add, Copies
  <1> HIDE DEF F
  <1>3. \A q \in DOMAIN m.src : m.src[q] = b => q = p
    BY <1>0 DEF Fits, Numbers
  <1>4. ASSUME NEW c, NEW e, OfKind(N, O, m, c, e)
        PROVE  OfKind(N, F, m, c, e)
    BY <1>2, <1>3, <1>4 DEF OfKind, Alike, Copies
  <1> HIDE DEF b
  <1>5. BaseKeys(N, F, m)
    <2>1. BaseKeys(N, O, m)
      BY <1>0 DEF Fits
    <2> QED BY <1>2, <1>4, <2>1 DEF BaseKeys
  <1>6. BaseInodes(N, F, m)
    <2> SUFFICES ASSUME NEW x \in DOMAIN m.inode, m.inode[x].layer = "base", NEW e \in Copies(N, F), F[e] = m.inode[x].ino
                 PROVE  Dir(N, e) <=> Base[m.inode[x].path] = "dir"
      BY <1>0 DEF Fits, BaseInodes
    <2>1. CASE e = d
      <3>1. m.inode[x].path = p
        BY <1>0, <1>2, <2>1 DEF Fits, BaseInodes, b
      <3> QED BY <2>1, <3>1
    <2>2. CASE e # d
      <3>1. e \in Copies(N, O) /\ F[e] = O[e]
        BY <1>2, <2>2 DEF Copies
      <3> QED BY <1>0, <3>1 DEF Fits, BaseInodes
    <2> QED BY <2>1, <2>2
  <1>7. \A q \in AnyPath : WalkIn(E, q) = d => q = p
    BY PathUnique
  <1>8. Origins(E, N, F, m)
    <2>1. Origins(E, N, O, m)
      BY <1>0 DEF Fits
    <2>2. \A e \in Copies(N, O) : F[e] = O[e] /\ e # d
      BY <1>2 DEF Copies
    <2>3. ASSUME NEW e \in Copies(N, O), O[e] = b
          PROVE  Alike(N, e, d) /\ ~Dir(N, e)
      <3>1. (Dir(N, e) <=> Base[p] = "dir") /\ (Dir(N, e) => WalkIn(E, p) = e)
        BY <2>1, <2>3 DEF Origins, b
      <3> QED BY <2>2, <3>1 DEF Alike
    <2>4. ASSUME NEW e \in Copies(N, F)
          PROVE  /\ F[e] \in Nat /\ F[e] < m.nextSrc
                 /\ \A q \in DOMAIN m.src : m.src[q] = F[e] =>
                       ((Dir(N, e) <=> Base[q] = "dir") /\ (Dir(N, e) => WalkIn(E, q) = e))
                 /\ ~Dir(N, e) => <<"base", F[e]>> \in DOMAIN m.rev
                 /\ Dir(N, e) => \A q \in Named : WalkIn(E, q) = e => (q \in DOMAIN Base /\ Base[q] = "dir")
      <3>1. CASE e = d
        <4>1. F[e] \in Nat /\ F[e] < m.nextSrc
          BY <1>1, <1>2, <3>1
        <4>2. \A q \in DOMAIN m.src : m.src[q] = F[e] => q = p
          BY <1>2, <1>3, <3>1
        <4>3. ~Dir(N, e) => <<"base", F[e]>> \in DOMAIN m.rev
          BY <1>2, <3>1 DEF b
        <4>4. \A q \in Named : q \in AnyPath
          BY DEF Named, AnyPath
        <4> QED BY <1>1, <1>7, <3>1, <4>1, <4>2, <4>3, <4>4
      <3>2. CASE e # d
        <4>1. e \in Copies(N, O) /\ F[e] = O[e]
          BY <1>2, <2>2, <3>2
        <4> QED BY <2>1, <4>1 DEF Origins
      <3> QED BY <3>1, <3>2
    <2>5. ASSUME NEW e \in Copies(N, F), NEW f \in Copies(N, F), F[e] = F[f]
          PROVE  Alike(N, e, f) /\ (Dir(N, e) => e = f)
      <3>1. CASE e = d /\ f = d
        BY <3>1 DEF Alike
      <3>2. CASE e = d /\ f # d
        BY <1>2, <2>2, <2>3, <2>5, <3>2 DEF Alike
      <3>3. CASE e # d /\ f = d
        BY <1>2, <2>2, <2>3, <2>5, <3>3 DEF Alike
      <3>4. CASE e # d /\ f # d
        <4>1. e \in Copies(N, O) /\ f \in Copies(N, O) /\ O[e] = O[f]
          BY <1>2, <2>2, <2>5, <3>4
        <4> QED BY <2>1, <4>1 DEF Origins
      <3> QED BY <3>1, <3>2, <3>3, <3>4
    <2> QED BY <2>4, <2>5 DEF Origins
  <1>9. CacheFits(E, N, F, None, dc, m)
    <2> SUFFICES ASSUME NEW q \in DOMAIN dc PROVE q \in AnyPath /\ dc[q] \in DOMAIN m.inode /\ CachedFits(E, N, F, None, m, dc[q], q)
      BY DEF CacheFits
    <2>1. q \in AnyPath /\ dc[q] \in DOMAIN m.inode /\ CachedFits(E, N, O, d, m, dc[q], q)
      BY <1>0 DEF CacheFits
    <2>2. ASSUME m.inode[dc[q]].layer = "base"
          PROVE  CopyKnown(E, N, F, None, q, m.inode[dc[q]].ino)
      <3>1. q \in DOMAIN m.src /\ m.src[q] = m.inode[dc[q]].ino /\ CopyKnown(E, N, O, d, q, m.inode[dc[q]].ino)
        BY <2>1, <2>2 DEF CachedFits
      <3>2. CASE WalkIn(E, q) = d
        <4>1. q = p
          BY <1>7, <2>1, <3>2
        <4> QED BY <1>2, <3>1, <3>2, <4>1 DEF CopyKnown, b
      <3>3. CASE WalkIn(E, q) # d
        BY <1>2, <3>1, <3>3 DEF CopyKnown
      <3> QED BY <3>2, <3>3
    <2>3. ASSUME NEW l \in DOMAIN m.rev, l[1] = "base", m.rev[l] = dc[q], NEW e \in Copies(N, F), Dir(N, e), F[e] = l[2]
          PROVE  WalkIn(E, q) = e
      <3>1. CASE e = d
        <4>1. p = q
          BY <1>2, <2>1, <2>3, <3>1 DEF CachedFits, b
        <4> QED BY <3>1, <4>1
      <3>2. CASE e # d
        <4>1. e \in Copies(N, O) /\ O[e] = l[2]
          BY <1>2, <2>3, <3>2 DEF Copies
        <4> QED BY <2>1, <2>3, <4>1 DEF CachedFits
      <3> QED BY <3>1, <3>2
    <2> QED BY <2>1, <2>2, <2>3 DEF CachedFits
  <1> QED BY <1>0, <1>5, <1>6, <1>8, <1>9 DEF Good, Fits, F, b

LEMMA WithoutOrigin ==
    ASSUME NEW E, NEW N, NEW O, NEW nd, NEW d, NEW dc, NEW m, Good(E, N, O, nd, d, dc, m),
           EntTyped(E, N), Tree(E, N),
           d # None, NEW p \in AnyPath, WalkIn(E, p) = d, p \notin DOMAIN Base
    PROVE  Good(E, N, O, nd, None, dc, m)
PROOF
  <1>0. MemTyped(m) /\ Fits(E, N, O, nd, m) /\ CacheFits(E, N, O, d, dc, m)
    BY DEF Good
  <1>1. ASSUME NEW q \in DOMAIN dc PROVE CachedFits(E, N, O, None, m, dc[q], q)
    <2>1. q \in AnyPath /\ dc[q] \in DOMAIN m.inode /\ CachedFits(E, N, O, d, m, dc[q], q)
      BY <1>0 DEF CacheFits
    <2>2. m.inode[dc[q]].layer = "base" => q \in DOMAIN Base
      BY <1>0, <2>1 DEF CachedFits, MemTyped
    <2>3. WalkIn(E, q) = d => q = p
      BY <2>1, PathUnique
    <2> QED BY <2>1, <2>2, <2>3 DEF CachedFits, CopyKnown
  <1> QED BY <1>0, <1>1 DEF Good, CacheFits

\* The parent that was made in the delta takes the place of the base one.
LEMMA Promoted ==
    ASSUME NEW E, NEW N, NEW O, NEW nd, NEW mk, NEW dc, NEW m, Good(E, N, O, nd, mk, dc, m),
           EntTyped(E, N), Tree(E, N),
           NEW p \in AnyPath, NEW d \in Nat, d < nd, Dir(N, d), d \in DOMAIN O, WalkIn(E, p) = d, d # None,
           p \in DOMAIN Base, Base[p] = "dir"
    PROVE  /\ Good(E, N, O, nd, mk, dc, PromoteToDelta(m, p, d))
           /\ \A y \in DOMAIN m.inode : IsDir(N, m, y) => IsDir(N, PromoteToDelta(m, p, d), y)
           /\ \A y \in DOMAIN m.inode : /\ y \in DOMAIN PromoteToDelta(m, p, d).inode
                                        /\ \/ PromoteToDelta(m, p, d).inode[y] = m.inode[y]
                                           \/ PromoteToDelta(m, p, d).inode[y].layer = "delta" /\ m.inode[y].path = p
           /\ \A q \in DOMAIN m.src : q # p /\ <<"base", m.src[q]>> \in DOMAIN m.rev =>
                 <<"base", m.src[q]>> \in DOMAIN PromoteToDelta(m, p, d).rev
           /\ PromoteToDelta(m, p, d).src = m.src
PROOF
  <1> DEFINE k == PromoteToDelta(m, p, d)
             x == m.path[p]
             b == <<"base", m.inode[x].ino>>
  <1>0. MemTyped(m) /\ Fits(E, N, O, nd, m) /\ CacheFits(E, N, O, mk, dc, m)
    BY DEF Good
  <1>1. CASE p \notin DOMAIN m.path \/ m.inode[m.path[p]].layer # "base"
    BY <1>1 DEF PromoteToDelta
  <1>2. CASE p \in DOMAIN m.path /\ m.inode[m.path[p]].layer = "base"
    <2>1. x \in DOMAIN m.inode /\ m.inode[x].path = p /\ m.inode[x].layer = "base"
      BY <1>0, <1>2 DEF MemTyped
    <2>2. /\ k.inode = [m.inode EXCEPT ![x] = [layer |-> "delta", ino |-> d, path |-> @.path]]
          /\ k.rev = Add(Drop(m.rev, {b}), <<"delta", d>>, x)
          /\ k.src = m.src /\ k.nextSrc = m.nextSrc /\ k.next = m.next
      BY <1>0, <1>2 DEF PromoteToDelta, MemTyped, IsMem
    <2>3. MemTyped(k)
      BY <1>0, PromoteTyped
    <2> HIDE DEF k, x, b
    <2>4. /\ DOMAIN k.rev = (DOMAIN m.rev \ {b}) \cup {<<"delta", d>>} /\ k.rev[<<"delta", d>>] = x
          /\ \A l \in DOMAIN m.rev \ {b} : l # <<"delta", d>> => k.rev[l] = m.rev[l]
      BY <2>2 DEF Add, Drop
    <2>5. /\ DOMAIN k.inode = DOMAIN m.inode
          /\ k.inode[x] = [layer |-> "delta", ino |-> d, path |-> p]
          /\ \A y \in DOMAIN m.inode : y # x => k.inode[y] = m.inode[y]
      BY <2>1, <2>2
    <2>6. Becomes(m, k, x, d, p, {b})
      BY <2>2, <2>3, <2>4, <2>5 DEF Becomes
    <2>7. b \in DOMAIN m.rev /\ m.rev[b] = x /\ b[1] = "base" /\ b[2] = m.inode[x].ino
      BY <1>0, <2>1 DEF Fits, BaseInodes, b
    <2>8. ASSUME NEW y \in DOMAIN m.inode, y # x, m.inode[y].layer = "base"
          PROVE  <<"base", m.inode[y].ino>> \notin {b}
      BY <1>0, <2>7, <2>8 DEF Fits, BaseInodes
    <2>9. ASSUME NEW e \in Copies(N, O), ~Dir(N, e)
          PROVE  <<"base", O[e]>> \notin {b}
      <3>1. O[e] # m.inode[x].ino
        BY <1>0, <2>1, <2>9 DEF Fits, BaseInodes
      <3> QED BY <3>1 DEF b
    <2>10. \A l \in DOMAIN m.rev \ {b} : ~(l[1] = "base" /\ m.rev[l] = x)
      BY <1>0, <2>7 DEF Fits, BaseKeys
    <2>11. \A l \in DOMAIN m.rev : ~(l[1] = "delta" /\ m.rev[l] = x)
      BY <1>0, <2>1 DEF Fits, DeltaKeys
    <2>12. ASSUME NEW q \in DOMAIN dc, dc[q] = x PROVE p = q
      BY <1>0, <2>1, <2>12 DEF CacheFits, CachedFits
    <2>13. d \in DOMAIN N
      BY DEF Dir
    <2>14. /\ Good(E, N, O, nd, mk, dc, k)
           /\ \A y \in DOMAIN m.inode : (y = x => Dir(N, d)) /\ IsDir(N, m, y) => IsDir(N, k, y)
      BY <2>1, <2>6, <2>8, <2>9, <2>10, <2>11, <2>12, <2>13, GoesToDelta
    <2>15. ASSUME NEW q \in DOMAIN m.src, q # p, <<"base", m.src[q]>> \in DOMAIN m.rev
           PROVE  <<"base", m.src[q]>> \in DOMAIN k.rev
      <3>1. m.src[q] # m.inode[x].ino
        BY <1>0, <2>1, <2>15 DEF Fits, BaseInodes
      <3> QED BY <2>4, <2>15, <3>1 DEF b
    <2>16. ASSUME NEW y \in DOMAIN m.inode
           PROVE  y \in DOMAIN k.inode /\ (k.inode[y] = m.inode[y] \/ (k.inode[y].layer = "delta" /\ m.inode[y].path = p))
      <3>1. k.inode[x].layer = "delta"
        BY <2>5
      <3>2. CASE y = x
        BY <2>1, <2>5, <3>1, <3>2
      <3>3. CASE y # x
        BY <2>5, <3>3
      <3> QED BY <3>2, <3>3
    <2> QED BY <2>2, <2>14, <2>15, <2>16 DEF k
  <1> QED BY <1>1, <1>2

\* The tree of the delta changes: no directory moves, and new inodes have new numbers.
LEMMA TreeChanges ==
    ASSUME NEW E, NEW N, NEW O, NEW nd \in Nat, NEW mk, NEW dc, NEW m, Good(E, N, O, nd, mk, dc, m),
           NEW F, NEW M, NEW ne \in Nat, nd <= ne, NEW ml,
           \A d \in DOMAIN M : \/ d \in DOMAIN N /\ (Dir(M, d) <=> Dir(N, d))
                               \/ d \in Nat /\ nd <= d,
           \A q \in AnyPath : \A d \in DOMAIN N : Dir(M, d) => (WalkIn(F, q) = d <=> WalkIn(E, q) = d),
           \A d \in DOMAIN O : d \in Nat /\ d < nd,
           \A p \in DOMAIN dc : m.inode[dc[p]].layer = "base" => CopyKnown(F, M, O, ml, p, m.inode[dc[p]].ino)
    PROVE  /\ Good(F, M, O, ne, ml, dc, m)
           /\ \A y \in DOMAIN m.inode : IsDir(N, m, y) =>
                 (IsDir(M, m, y) \/ (m.inode[y].layer = "delta" /\ m.inode[y].ino \notin DOMAIN M))
PROOF
  <1>0. MemTyped(m) /\ Fits(E, N, O, nd, m) /\ CacheFits(E, N, O, mk, dc, m)
    BY DEF Good
  <1>1. \A d \in Nat : d < nd /\ d \in DOMAIN M => d \in DOMAIN N /\ (Dir(M, d) <=> Dir(N, d))
    OBVIOUS
  <1>2. \A d \in Nat : d < nd /\ Dir(M, d) => Dir(N, d) /\ d \in DOMAIN N
    BY <1>1 DEF Dir
  <1>3. \A d \in Copies(M, O) : d \in Copies(N, O) /\ d \in Nat /\ d < nd /\ (Dir(M, d) <=> Dir(N, d))
    BY <1>1 DEF Copies
  <1>4. \A x \in DOMAIN m.inode : m.inode[x].ino \in Nat /\ m.inode[x].path \in AnyPath /\ m.inode[x].layer \in {"delta", "base"}
    BY <1>0 DEF MemTyped, Info
  <1>5. \A x \in DOMAIN m.inode : m.inode[x].layer = "delta" => m.inode[x].ino < nd
    BY <1>0 DEF Fits, DeltaInodes
  <1>6. ASSUME NEW b, NEW d \in Nat, d < nd, d \in DOMAIN M, OfKind(N, O, m, b, d)
        PROVE  OfKind(M, O, m, b, d)
    BY <1>1, <1>3, <1>6 DEF OfKind, Alike
  <1>7. \A l \in DOMAIN m.rev : m.rev[l] \in DOMAIN m.inode
    BY <1>0 DEF MemTyped
  <1>8. \A l \in DOMAIN m.rev : l[1] = "delta" => l[2] \in Nat /\ l[2] < nd
    BY <1>0 DEF Fits, DeltaKeys
  <1>9. DeltaKeys(M, ne, m)
    <2> SUFFICES ASSUME NEW l \in DOMAIN m.rev, l[1] = "delta"
                 PROVE  LET i == m.inode[m.rev[l]] IN
                        /\ i.layer = "delta" /\ l[2] \in Nat /\ l[2] < ne
                        /\ Dir(M, l[2]) => i.ino = l[2]
                        /\ l[2] \in DOMAIN M /\ Dir(M, i.ino) => i.ino = l[2]
      BY DEF DeltaKeys
    <2>1. LET i == m.inode[m.rev[l]] IN
                        /\ i.layer = "delta"
                        /\ Dir(N, l[2]) => i.ino = l[2]
                        /\ l[2] \in DOMAIN N /\ Dir(N, i.ino) => i.ino = l[2]
      BY <1>0 DEF Fits, DeltaKeys
    <2>2. l[2] \in Nat /\ l[2] < nd /\ l[2] < ne
      BY <1>8
    <2>3. m.inode[m.rev[l]].ino \in Nat /\ m.inode[m.rev[l]].ino < nd
      BY <1>4, <1>5, <1>7, <2>1
    <2> QED BY <1>1, <1>2, <2>1, <2>2, <2>3
  <1>10. BaseKeys(M, O, m)
    <2> SUFFICES ASSUME NEW l \in DOMAIN m.rev, l[1] = "base"
                 PROVE  LET i == m.inode[m.rev[l]] IN
                        /\ l[2] \in Nat /\ l[2] < m.nextSrc
                        /\ i.layer = "base" => i.ino = l[2]
                        /\ i.layer = "delta" /\ Dir(M, i.ino) => i.ino \in DOMAIN O /\ O[i.ino] = l[2]
                        /\ i.layer = "delta" /\ i.ino \in DOMAIN M => OfKind(M, O, m, l[2], i.ino)
                        /\ \A j \in DOMAIN m.rev : m.rev[j] = m.rev[l] =>
                              /\ j[1] = "base" => j = l
                              /\ j[1] = "delta" /\ j[2] \in DOMAIN M => OfKind(M, O, m, l[2], j[2])
      BY DEF BaseKeys
    <2>1. LET i == m.inode[m.rev[l]] IN
                        /\ l[2] \in Nat /\ l[2] < m.nextSrc
                        /\ i.layer = "base" => i.ino = l[2]
                        /\ i.layer = "delta" /\ Dir(N, i.ino) => i.ino \in DOMAIN O /\ O[i.ino] = l[2]
                        /\ i.layer = "delta" /\ i.ino \in DOMAIN N => OfKind(N, O, m, l[2], i.ino)
                        /\ \A j \in DOMAIN m.rev : m.rev[j] = m.rev[l] =>
                              /\ j[1] = "base" => j = l
                              /\ j[1] = "delta" /\ j[2] \in DOMAIN N => OfKind(N, O, m, l[2], j[2])
      BY <1>0 DEF Fits, BaseKeys
    <2>2. m.inode[m.rev[l]].ino \in Nat /\ (m.inode[m.rev[l]].layer = "delta" => m.inode[m.rev[l]].ino < nd)
      BY <1>4, <1>5, <1>7
    <2>3. ASSUME NEW j \in DOMAIN m.rev, m.rev[j] = m.rev[l], j[1] = "delta", j[2] \in DOMAIN M
          PROVE  OfKind(M, O, m, l[2], j[2])
      <3>1. j[2] \in Nat /\ j[2] < nd /\ j[2] \in DOMAIN N
        BY <1>1, <1>8, <2>3
      <3> QED BY <1>6, <2>1, <2>3, <3>1
    <2>4. ASSUME m.inode[m.rev[l]].layer = "delta", m.inode[m.rev[l]].ino \in DOMAIN M
          PROVE  OfKind(M, O, m, l[2], m.inode[m.rev[l]].ino)
      <3>1. m.inode[m.rev[l]].ino \in DOMAIN N
        BY <1>1, <2>2, <2>4
      <3> QED BY <1>6, <2>1, <2>2, <2>4, <3>1
    <2> QED BY <1>2, <2>1, <2>2, <2>3, <2>4
  <1>11. DeltaInodes(E, N, nd, m)
    BY <1>0 DEF Fits
  <1>12. DeltaInodes(F, M, ne, m)
    <2> SUFFICES ASSUME NEW x \in DOMAIN m.inode, m.inode[x].layer = "delta"
                 PROVE  m.inode[x].ino < ne /\ (Dir(M, m.inode[x].ino) => WalkIn(F, m.inode[x].path) = m.inode[x].ino)
      BY DEF DeltaInodes
    <2>1. m.inode[x].ino \in Nat /\ m.inode[x].ino < nd /\ m.inode[x].path \in AnyPath
      BY <1>4, <1>5
    <2>2. Dir(N, m.inode[x].ino) => WalkIn(E, m.inode[x].path) = m.inode[x].ino
      BY <1>11 DEF DeltaInodes
    <2> QED BY <1>2, <2>1, <2>2
  <1>13. BaseInodes(M, O, m)
    BY <1>0, <1>3 DEF Fits, BaseInodes
  <1>14. Origins(F, M, O, m)
    <2>1. \A q \in DOMAIN m.src : q \in AnyPath
      BY <1>0, BaseTypes DEF MemTyped
    <2>2. \A q \in Named : q \in AnyPath
      BY DEF Named, AnyPath
    <2>3. \A d \in Copies(M, O) : d \in DOMAIN N
      BY <1>3 DEF Copies
    <2>4. \A d \in Copies(M, O) : Dir(M, d) => \A q \in AnyPath : (WalkIn(F, q) = d <=> WalkIn(E, q) = d)
      BY <2>3
    <2>5. Origins(E, N, O, m)
      BY <1>0 DEF Fits
    <2> QED BY <1>3, <2>1, <2>2, <2>4, <2>5 DEF Origins, Alike
  <1>15. \A x \in DOMAIN m.inode : IsDir(M, m, x) => IsDir(N, m, x)
    BY <1>2, <1>4, <1>5 DEF IsDir
  <1>16. CacheFits(F, M, O, ml, dc, m)
    <2> SUFFICES ASSUME NEW q \in DOMAIN dc PROVE q \in AnyPath /\ dc[q] \in DOMAIN m.inode /\ CachedFits(F, M, O, ml, m, dc[q], q)
      BY DEF CacheFits
    <2>1. q \in AnyPath /\ dc[q] \in DOMAIN m.inode /\ CachedFits(E, N, O, mk, m, dc[q], q)
      BY <1>0 DEF CacheFits
    <2>2. \A d \in Copies(M, O) : Dir(M, d) => Dir(N, d) /\ d \in Copies(N, O) /\ (WalkIn(F, q) = d <=> WalkIn(E, q) = d)
      BY <1>3, <2>1 DEF Copies
    <2> QED BY <1>15, <2>1, <2>2 DEF CachedFits
  <1>17. Numbers(m)
    BY <1>0 DEF Fits
  <1>18. \A y \in DOMAIN m.inode : IsDir(N, m, y) =>
                 (IsDir(M, m, y) \/ (m.inode[y].layer = "delta" /\ m.inode[y].ino \notin DOMAIN M))
    BY <1>1, <1>4, <1>5 DEF IsDir
  <1> QED BY <1>0, <1>9, <1>10, <1>12, <1>13, <1>14, <1>16, <1>17, <1>18 DEF Good, Fits
=============================================================================
