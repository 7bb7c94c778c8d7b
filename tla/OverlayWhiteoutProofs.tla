------------------------ MODULE OverlayWhiteoutProofs ------------------------
(***************************************************************************)
(* WhiteoutHidesBaseOnly, step by step: a handler's plan clears a whiteout *)
(* and makes the parents before it makes the entry below them, and writes  *)
(* a whiteout only where it has left no entry, for any names, any base     *)
(* tree of depth two and any bounds, whatever statement fails.             *)
(***************************************************************************)
EXTENDS OverlayProofs

-----------------------------------------------------------------------------
(* What a lookup finds in a cached directory.                              *)

LEMMA DeltaEnts == DeltaTyped => EntTyped(ent, node) /\ \A d \in DOMAIN node : d \in Nat /\ d < nextDelta
BY DEF DeltaTyped, EntTyped, None

\* The number of a base path that has one.
LEMMA SrcIs ==
    ASSUME NEW m, MemTyped(m), Numbers(m), NEW p \in DOMAIN m.src
    PROVE  SrcPath(m, m.src[p]) = p /\ p \in DOMAIN Base /\ p \in AnyPath
PROOF
  <1>1. m.src[p] >= 2 /\ p \in DOMAIN Base /\ m.src[p] \in Nat
    BY DEF MemTyped
  <1>2. \A q \in DOMAIN m.src : m.src[q] = m.src[p] => q = p
    BY DEF Numbers
  <1>3. m.src[p] # 1
    BY <1>1
  <1> QED BY <1>1, <1>2, <1>3, BaseTypes DEF SrcPath

\* A cached directory is resolved to the delta directory at its path.
LEMMA ResolveIs ==
    ASSUME DeltaTyped, NEW mk, NEW dc, NEW m, Good(ent, node, origin, nextDelta, mk, dc, m),
           NEW A \in DOMAIN dc, IsDir(node, m, dc[A]), mk = None \/ Dir(node, mk)
    PROVE  /\ A \in AnyPath /\ dc[A] \in DOMAIN m.inode /\ m.inode[dc[A]].path = A
           /\ ResolveDeltaParent(m, dc[A]) = WalkIn(ent, A)
           /\ WalkIn(ent, A) # None => Dir(node, WalkIn(ent, A))
           /\ m.inode[dc[A]].layer = "delta" => WalkIn(ent, A) # None
           /\ m.inode[dc[A]].layer \in {"delta", "base"}
           /\ m.inode[dc[A]].layer = "base" =>
                A \in DOMAIN m.src /\ m.src[A] = m.inode[dc[A]].ino /\ SrcPath(m, m.inode[dc[A]].ino) = A /\ Base[A] = "dir"
PROOF
  <1> DEFINE x == dc[A]
             i == m.inode[x]
  <1>1. MemTyped(m) /\ Fits(ent, node, origin, nextDelta, m) /\ CacheFits(ent, node, origin, mk, dc, m)
    BY DEF Good
  <1>2. A \in AnyPath /\ x \in DOMAIN m.inode /\ CachedFits(ent, node, origin, mk, m, x, A)
    BY <1>1 DEF CacheFits
  <1>3. i.path = A /\ i.layer \in {"delta", "base"}
    BY <1>1, <1>2 DEF CachedFits, MemTyped, Info
  <1>4. None \notin DOMAIN node
    BY DeltaEnts DEF EntTyped
  <1>5. CASE i.layer = "delta"
    <2>1. Dir(node, i.ino) /\ WalkIn(ent, i.path) = i.ino
      BY <1>1, <1>2, <1>5 DEF IsDir, Fits, DeltaInodes
    <2> QED BY <1>2, <1>3, <1>4, <1>5, <2>1 DEF ResolveDeltaParent, Dir
  <1>6. CASE i.layer = "base"
    <2>1. A \in DOMAIN m.src /\ m.src[A] = i.ino
      BY <1>2, <1>6 DEF CachedFits
    <2>2. Base[A] = "dir"
      BY <1>1, <1>6, <2>1 DEF IsDir, Fits, Numbers
    <2>3. SrcPath(m, i.ino) = A
      BY <1>1, <2>1, SrcIs DEF Fits
    <2>4. WalkIn(ent, A) # None => Dir(node, WalkIn(ent, A))
      BY <1>2, <1>6, <2>2 DEF CachedFits, CopyKnown
    <2>5. ResolveDeltaParent(m, x) = WalkIn(ent, A)
      <3>1. ResolveDeltaParent(m, x) = IF WalkIn(ent, A) # None /\ node[WalkIn(ent, A)].kind = "dir" THEN WalkIn(ent, A) ELSE None
        BY <1>3, <1>6, WalkIsIn DEF ResolveDeltaParent
      <3> QED BY <2>4, <3>1 DEF Dir
    <2> QED BY <1>2, <1>3, <1>6, <2>1, <2>2, <2>3, <2>4, <2>5
  <1> QED BY <1>3, <1>5, <1>6

\* The kind the kernel is told is the kind an inode has.
LEMMA KindIsDir ==
    ASSUME NEW E, NEW N, NEW O, NEW nd, NEW mk, NEW dc, NEW m, Good(E, N, O, nd, mk, dc, m), N = node,
           NEW p \in DOMAIN dc
    PROVE  Kind(m, dc[p]) = "dir" <=> IsDir(node, m, dc[p])
PROOF
  <1> DEFINE x == dc[p]
             i == m.inode[x]
  <1>1. MemTyped(m) /\ Fits(E, N, O, nd, m) /\ CacheFits(E, N, O, mk, dc, m)
    BY DEF Good
  <1>2. x \in DOMAIN m.inode /\ CachedFits(E, N, O, mk, m, x, p) /\ i.layer \in {"delta", "base"}
    BY <1>1 DEF CacheFits, MemTyped, Info
  <1>3. CASE i.layer = "delta"
    BY <1>3 DEF Kind, IsDir, Dir
  <1>4. CASE i.layer = "base"
    <2>1. p \in DOMAIN m.src /\ m.src[p] = i.ino
      BY <1>2, <1>4 DEF CachedFits
    <2>2. SrcPath(m, i.ino) = p /\ p \in DOMAIN Base
      BY <1>1, <2>1, SrcIs DEF Fits
    <2>3. \A q \in DOMAIN m.src : m.src[q] = i.ino => q = p
      BY <1>1, <2>1 DEF Fits, Numbers
    <2> QED BY <1>4, <2>1, <2>2, <2>3 DEF Kind, IsDir
  <1> QED BY <1>2, <1>3, <1>4

\* An inode that the maps have for the delta inode at a path may be cached there.
LEMMA FitsAtDelta ==
    ASSUME NEW E, NEW N, NEW O, NEW nd, NEW mk, NEW dc, NEW m, Good(E, N, O, nd, mk, dc, m), EntTyped(E, N), Tree(E, N),
           NEW p \in AnyPath, NEW d \in DOMAIN N, WalkIn(E, p) = d,
           <<"delta", d>> \in DOMAIN m.rev, NEW x, x = m.rev[<<"delta", d>>]
    PROVE  /\ x \in DOMAIN m.inode /\ m.inode[x].layer = "delta" /\ CachedFits(E, N, O, mk, m, x, p)
           /\ IsDir(N, m, x) => Dir(N, d)
PROOF
  <1> DEFINE i == m.inode[x]
             k == <<"delta", d>>
  <1>1. MemTyped(m) /\ Fits(E, N, O, nd, m)
    BY DEF Good
  <1>2. k[1] = "delta" /\ k[2] = d /\ k \in DOMAIN m.rev /\ m.rev[k] = x
    OBVIOUS
  <1> HIDE DEF k
  <1>3. x \in DOMAIN m.inode
    BY <1>1, <1>2 DEF MemTyped
  <1>4. i.layer = "delta" /\ (Dir(N, d) => i.ino = d) /\ (Dir(N, i.ino) => i.ino = d)
    BY <1>1, <1>2 DEF Fits, DeltaKeys
  <1>5. d # None
    BY DEF EntTyped
  <1>6. \A q \in AnyPath : WalkIn(E, q) = d => q = p
    BY <1>5, PathUnique
  <1>7. IsDir(N, m, x) => Dir(N, d) /\ i.ino = d
    BY <1>4 DEF IsDir
  <1>8. ASSUME IsDir(N, m, x) PROVE i.path = p
    <2>1. i.path \in AnyPath
      BY <1>1, <1>3 DEF MemTyped, Info
    <2>2. WalkIn(E, i.path) = d
      BY <1>1, <1>3, <1>4, <1>7, <1>8 DEF Fits, DeltaInodes
    <2> QED BY <1>6, <2>1, <2>2
  <1>9. ASSUME NEW l \in DOMAIN m.rev, l[1] = "base", m.rev[l] = x
        PROVE  /\ \A e \in Copies(N, O) : Dir(N, e) /\ O[e] = l[2] => WalkIn(E, p) = e
               /\ \A q \in DOMAIN m.src : m.src[q] = l[2] /\ Base[q] = "dir" => q = p
    <2>1. BaseKeys(N, O, m)
      BY <1>1 DEF Fits
    <2>2. OfKind(N, O, m, l[2], d)
      BY <1>2, <1>9, <2>1 DEF BaseKeys
    <2>3. Dir(N, d) => d \in DOMAIN O /\ O[d] = l[2]
      BY <1>4, <1>9, <2>1 DEF BaseKeys
    <2>4. ASSUME NEW e \in Copies(N, O), Dir(N, e), O[e] = l[2] PROVE e = d
      <3>1. Dir(N, d)
        BY <2>2, <2>4 DEF OfKind, Alike
      <3>2. d \in Copies(N, O) /\ O[d] = O[e]
        BY <2>3, <2>4, <3>1 DEF Copies
      <3> QED BY <1>1, <2>4, <3>2 DEF Fits, Origins
    <2>5. ASSUME NEW q \in DOMAIN m.src, m.src[q] = l[2], Base[q] = "dir" PROVE q = p
      <3>1. Dir(N, d)
        BY <2>2, <2>5 DEF OfKind
      <3>2. d \in Copies(N, O) /\ O[d] = m.src[q]
        BY <2>3, <2>5, <3>1 DEF Copies
      <3>3. WalkIn(E, q) = d
        BY <1>1, <3>1, <3>2 DEF Fits, Origins
      <3>4. q \in AnyPath
        BY <1>1, BaseTypes DEF MemTyped
      <3> QED BY <1>6, <3>3, <3>4
    <2> QED BY <2>4, <2>5
  <1>10. CachedFits(E, N, O, mk, m, x, p)
    BY <1>4, <1>8, <1>9 DEF CachedFits
  <1> QED BY <1>3, <1>4, <1>7, <1>10

\* An inode that the maps have for a base path may be cached there.
LEMMA FitsAtBase ==
    ASSUME NEW E, NEW N, NEW O, NEW nd, NEW mk, NEW dc, NEW m, Good(E, N, O, nd, mk, dc, m), EntTyped(E, N), N = node,
           NEW p \in DOMAIN m.src, WalkIn(E, p) = None,
           <<"base", m.src[p]>> \in DOMAIN m.rev, NEW x, x = m.rev[<<"base", m.src[p]>>]
    PROVE  /\ x \in DOMAIN m.inode /\ CachedFits(E, N, O, mk, m, x, p)
           /\ Kind(m, x) = "dir" => Base[p] = "dir"
           /\ p \in DOMAIN dc /\ m.inode[dc[p]].layer = "base" => x = dc[p] /\ (Base[p] = "dir" => Kind(m, x) = "dir")
PROOF
  <1> DEFINE u == m.src[p]
             i == m.inode[x]
             k == <<"base", u>>
  <1>1. MemTyped(m) /\ Fits(E, N, O, nd, m) /\ CacheFits(E, N, O, mk, dc, m)
    BY DEF Good
  <1>2. k[1] = "base" /\ k[2] = u /\ k \in DOMAIN m.rev /\ m.rev[k] = x
    OBVIOUS
  <1>3. x \in DOMAIN m.inode /\ i.layer \in {"delta", "base"}
    BY <1>1 DEF MemTyped, Info
  <1>4. SrcPath(m, u) = p /\ p \in DOMAIN Base /\ p \in AnyPath
    BY <1>1, SrcIs DEF Fits
  <1>5. \A q \in DOMAIN m.src : m.src[q] = u => q = p
    BY <1>1 DEF Fits, Numbers
  <1>6. ASSUME NEW d \in Copies(N, O), O[d] = u, Dir(N, d) PROVE FALSE
    <2>1. WalkIn(E, p) = d
      BY <1>1, <1>6 DEF Fits, Origins
    <2> QED BY <1>6, <2>1 DEF Dir, EntTyped
  <1> HIDE DEF k, u
  <1>7. i.layer = "base" => i.ino = u
    BY <1>1, <1>2 DEF Fits, BaseKeys
  <1>8. i.layer = "delta" => ~Dir(N, i.ino)
    <2> SUFFICES ASSUME i.layer = "delta", Dir(N, i.ino) PROVE FALSE
      OBVIOUS
    <2>1. i.ino \in DOMAIN O /\ O[i.ino] = u
      BY <1>1, <1>2 DEF Fits, BaseKeys
    <2>2. i.ino \in Copies(N, O)
      BY <2>1 DEF Dir, Copies
    <2> QED BY <1>6, <2>1, <2>2
  <1>9. i.layer = "base" => i.path = p
    BY <1>1, <1>3, <1>7 DEF Fits, BaseInodes, u
  <1>10. IsDir(N, m, x) => i.layer = "base"
    BY <1>3, <1>8 DEF IsDir
  <1>11. \A l \in DOMAIN m.rev : l[1] = "base" /\ m.rev[l] = x => l[2] = u
    BY <1>1, <1>2 DEF Fits, BaseKeys
  <1>12. CachedFits(E, N, O, mk, m, x, p)
    <2>1. CopyKnown(E, N, O, mk, p, i.ino)
      BY DEF CopyKnown
    <2> QED BY <1>5, <1>6, <1>7, <1>9, <1>10, <1>11, <2>1 DEF CachedFits, u
  <1>13. Kind(m, x) = "dir" => Base[p] = "dir"
    <2>1. CASE i.layer = "delta"
      BY <1>8, <2>1 DEF Kind, Dir
    <2>2. CASE i.layer = "base"
      BY <1>4, <1>7, <2>2 DEF Kind, u
    <2> QED BY <1>3, <2>1, <2>2
  <1>14. ASSUME p \in DOMAIN dc, m.inode[dc[p]].layer = "base"
         PROVE  x = dc[p] /\ (Base[p] = "dir" => Kind(m, x) = "dir")
    <2>1. dc[p] \in DOMAIN m.inode /\ m.inode[dc[p]].ino = u
      BY <1>1, <1>14 DEF CacheFits, CachedFits, u
    <2>2. x = dc[p]
      BY <1>1, <1>2, <1>14, <2>1 DEF Fits, BaseInodes, k
    <2> QED BY <1>4, <1>7, <1>14, <2>2 DEF Kind, u
  <1> QED BY <1>3, <1>12, <1>13, <1>14

\* A base path that has a number may become an inode.
LEMMA FreshBase ==
    ASSUME NEW E, NEW N, NEW O, NEW nd, NEW mk, NEW dc, NEW m, Good(E, N, O, nd, mk, dc, m), NEW p \in DOMAIN m.src
    PROVE  m.src[p] \in Nat /\ p # <<>> /\ p \in AnyPath /\ Fresh(E, N, O, nd, m, "base", m.src[p], p)
PROOF
  <1>1. MemTyped(m) /\ Fits(E, N, O, nd, m)
    BY DEF Good
  <1>2. m.src[p] \in Nat /\ m.src[p] < m.nextSrc /\ p \in DOMAIN Base
    BY <1>1 DEF MemTyped
  <1>3. p # <<>> /\ p \in AnyPath
    BY <1>2, BaseTypes DEF Named
  <1>4. \A q \in DOMAIN m.src : m.src[q] = m.src[p] => p = q
    BY <1>1 DEF Fits, Numbers
  <1>5. \A d \in Copies(N, O) : O[d] = m.src[p] => (Dir(N, d) <=> Base[p] = "dir")
    BY <1>1 DEF Fits, Origins
  <1> QED BY <1>2, <1>3, <1>4, <1>5 DEF Fresh

\* What whiteouts there are hides a base path by the path itself or by its parent.
LEMMA HiddenBy ==
    ASSUME NEW p \in AnyPath, p # <<>>
    PROVE  /\ p \in whiteouts => IsWhiteout(p)
           /\ IsWhiteout(p) /\ Len(p) <= 2 => p \in whiteouts \/ (Front(p) \in whiteouts /\ Front(p) # <<>>)
PROOF
  <1>1. Len(p) \in Nat /\ Len(p) >= 1 /\ p \in Seq(Names)
    BY DEF AnyPath
  <1>2. SubSeq(p, 1, Len(p)) = p /\ Len(p) \in 1..Len(p)
    BY <1>1
  <1>3. Front(p) = SubSeq(p, 1, Len(p) - 1)
    BY DEF Front
  <1>4. p \in whiteouts => IsWhiteout(p)
    BY <1>2 DEF IsWhiteout
  <1>5. ASSUME IsWhiteout(p), Len(p) <= 2 PROVE p \in whiteouts \/ (Front(p) \in whiteouts /\ Front(p) # <<>>)
    <2>1. PICK j \in 1..Len(p) : SubSeq(p, 1, j) \in whiteouts
      BY <1>5 DEF IsWhiteout
    <2>2. CASE j = Len(p)
      BY <1>2, <2>1, <2>2
    <2>3. CASE j # Len(p)
      <3>1. j = 1 /\ Len(p) - 1 = 1
        <4> DEFINE k == Len(p)
        <4>1. k \in Nat /\ k >= 1 /\ k <= 2 /\ j \in 1..k /\ j # k
          BY <1>1, <1>5, <2>3
        <4> HIDE DEF k
        <4>2. j = 1 /\ k - 1 = 1
          BY <4>1
        <4> QED BY <4>2 DEF k
      <3>2. SubSeq(p, 1, 1) # <<>>
        BY <1>1
      <3> QED BY <1>3, <2>1, <3>1, <3>2
    <2> QED BY <2>2, <2>3
  <1> QED BY <1>4, <1>5

LEMMA MoreBase ==
    ASSUME NEW E, NEW N, NEW O, NEW nd, NEW mk, NEW dc, NEW m, Good(E, N, O, nd, mk, dc, m), NEW p \in DOMAIN m.src,
           NEW k, k = GetOrCreate(m, "base", m.src[p], p)
    PROVE  /\ Good(E, N, O, nd, mk, dc, k)
           /\ \A x \in DOMAIN m.inode : IsDir(N, m, x) => IsDir(N, k, x)
PROOF
  <1> DEFINE u == m.src[p]
             layer == "base"
  <1>1. u \in Nat /\ p # <<>> /\ p \in AnyPath /\ Fresh(E, N, O, nd, m, layer, u, p)
    BY FreshBase
  <1>2. k = GetOrCreate(m, layer, u, p) /\ layer \in {"delta", "base"}
    OBVIOUS
  <1> HIDE DEF u, layer
  <1>3. layer = "base" => p # <<>>
    BY <1>1
  <1>4. <<layer, u>> \notin DOMAIN m.rev => Fresh(E, N, O, nd, m, layer, u, p)
    BY <1>1
  <1>5. u \in Nat /\ p \in AnyPath
    BY <1>1
  <1> QED BY <1>2, <1>3, <1>4, <1>5, MoreInodes

\* What a lookup leaves of the maps m, and of what it finds at p.
LooksUp(dc, m, p, r) ==
    /\ Good(ent, node, origin, nextDelta, None, dc, r.m)
    /\ \A y \in DOMAIN m.inode : IsDir(node, m, y) => IsDir(node, r.m, y)
    /\ DOMAIN m.rev \subseteq DOMAIN r.m.rev
    /\ Extends(m, r.m)
    /\ r.ino # None =>
         /\ r.ino \in DOMAIN r.m.inode /\ ~IsWhiteout(p)
         /\ CachedFits(ent, node, origin, None, r.m, r.ino, p)
         /\ Kind(r.m, r.ino) = "dir" =>
              IF WalkIn(ent, p) = None THEN p \in DOMAIN Base /\ Base[p] = "dir" ELSE Dir(node, WalkIn(ent, p))
    /\ p \in DOMAIN dc /\ m.inode[dc[p]].layer = "base" /\ ~IsWhiteout(p) =>
         /\ r.ino # None
         /\ r.m.inode[dc[p]].layer = "base" /\ Base[p] = "dir" /\ WalkIn(ent, p) = None => Kind(r.m, r.ino) = "dir"

\* A lookup in a cached directory keeps the maps good, and what it finds may be
\* cached under the name it looked for.
LEMMA LookGood ==
    ASSUME DeltaTyped, Tree(ent, node), NEW dc, NEW m, Good(ent, node, origin, nextDelta, None, dc, m),
           NEW A \in DOMAIN dc, IsDir(node, m, dc[A]), NEW n \in Names,
           NEW p, p = Append(A, n), NEW r, r = Look(m, dc[A], n)
    PROVE  LooksUp(dc, m, p, r)
PROOF
  <1> SUFFICES /\ Good(ent, node, origin, nextDelta, None, dc, r.m)
               /\ \A y \in DOMAIN m.inode : IsDir(node, m, y) => IsDir(node, r.m, y)
               /\ DOMAIN m.rev \subseteq DOMAIN r.m.rev
               /\ Extends(m, r.m)
               /\ r.ino # None =>
                    /\ r.ino \in DOMAIN r.m.inode /\ ~IsWhiteout(p)
                    /\ CachedFits(ent, node, origin, None, r.m, r.ino, p)
                    /\ Kind(r.m, r.ino) = "dir" =>
                         IF WalkIn(ent, p) = None THEN p \in DOMAIN Base /\ Base[p] = "dir" ELSE Dir(node, WalkIn(ent, p))
               /\ p \in DOMAIN dc /\ m.inode[dc[p]].layer = "base" /\ ~IsWhiteout(p) =>
                    /\ r.ino # None
                    /\ r.m.inode[dc[p]].layer = "base" /\ Base[p] = "dir" /\ WalkIn(ent, p) = None => Kind(r.m, r.ino) = "dir"
    BY DEF LooksUp
  <1> DEFINE x == dc[A]
             info == m.inode[x]
             dp == ResolveDeltaParent(m, x)
  <1>0. MemTyped(m) /\ Fits(ent, node, origin, nextDelta, m) /\ CacheFits(ent, node, origin, None, dc, m)
    BY DEF Good
  <1>1. /\ A \in AnyPath /\ x \in DOMAIN m.inode /\ info.path = A /\ dp = WalkIn(ent, A)
        /\ dp # None => Dir(node, dp)
        /\ info.layer \in {"delta", "base"}
        /\ info.layer = "base" => SrcPath(m, info.ino) = A
    BY ResolveIs
  <1>2. EntTyped(ent, node) /\ \A d \in DOMAIN node : d \in Nat /\ d < nextDelta
    BY DeltaEnts
  <1>3. p \in AnyPath /\ p # <<>>
    BY <1>1, PathLonger DEF Named
  <1>4. Extends(m, r.m) /\ r.ino \in {None} \cup DOMAIN r.m.inode
    BY <1>0, <1>1, LookTyped
  <1>a. WalkIn(ent, p) = IF <<dp, n>> \in DOMAIN ent THEN ent[<<dp, n>>] ELSE None
    BY <1>1, WalkOn
  <1>5. CASE IsWhiteout(p)
    <2>1. r = [ino |-> None, m |-> m]
      BY <1>1, <1>5 DEF Look
    <2>2. r.ino = None /\ r.m = m
      BY <2>1
    <2> QED BY <1>4, <1>5, <2>2
  <1>6. CASE ~IsWhiteout(p) /\ dp # None /\ <<dp, n>> \in DOMAIN ent
    <2> DEFINE d == ent[<<dp, n>>]
               m1 == GetOrCreate(m, "delta", d, p)
    <2>1. d \in DOMAIN node /\ d \in Nat /\ d < nextDelta /\ d # None /\ WalkIn(ent, p) = d
      BY <1>2, <1>6, <1>a DEF EntTyped
    <2>2. Fresh(ent, node, origin, nextDelta, m, "delta", d, p)
      BY <2>1 DEF Fresh
    <2>3. /\ Good(ent, node, origin, nextDelta, None, dc, m1)
          /\ \A y \in DOMAIN m.inode : IsDir(node, m, y) => IsDir(node, m1, y)
      <3>1. m1 = GetOrCreate(m, "delta", d, p) /\ (<<"delta", d>> \notin DOMAIN m.rev => Fresh(ent, node, origin, nextDelta, m, "delta", d, p))
        BY <2>2
      <3>2. "delta" \in {"delta", "base"} /\ ("delta" = "base" => p # <<>>) /\ d \in Nat
        BY <2>1
      <3> HIDE DEF d, m1
      <3> QED BY <1>3, <3>1, <3>2, MoreInodes
    <2>4. MemTyped(m1) /\ Keeps(m, m1) /\ <<"delta", d>> \in DOMAIN m1.rev
      <3> HIDE DEF d
      <3> QED BY <1>0, <1>3, <2>1, GetOrCreateTyped
    <2>5. r = IF d \in DOMAIN origin /\ <<"base", origin[d]>> \in DOMAIN m1.rev
              THEN [ino |-> m1.rev[<<"base", origin[d]>>], m |-> RefreshMapping(m1, m1.rev[<<"base", origin[d]>>], d, p)]
              ELSE [ino |-> m1.rev[<<"delta", d>>], m |-> m1]
      BY <1>1, <1>6 DEF Look
    <2> HIDE DEF d, m1
    <2>6. /\ Good(ent, node, origin, nextDelta, None, dc, r.m)
          /\ \A y \in DOMAIN m.inode : IsDir(node, m, y) => IsDir(node, r.m, y)
          /\ DOMAIN m.rev \subseteq DOMAIN r.m.rev
          /\ <<"delta", d>> \in DOMAIN r.m.rev /\ r.ino = r.m.rev[<<"delta", d>>]
      <3>1. CASE d \in DOMAIN origin /\ <<"base", origin[d]>> \in DOMAIN m1.rev
        <4> DEFINE x1 == m1.rev[<<"base", origin[d]>>]
                   k == RefreshMapping(m1, x1, d, p)
        <4>1. r.ino = x1 /\ r.m = k
          BY <2>5, <3>1
        <4>2. x1 \in DOMAIN m1.inode
          BY <2>4, <3>1 DEF MemTyped
        <4> HIDE DEF x1
        <4>3. Becomes(m1, k, x1, d, p, {})
          BY <1>3, <2>1, <2>4, <4>2, RefreshIs
        <4>4. /\ Good(ent, node, origin, nextDelta, None, dc, k)
              /\ \A y \in DOMAIN m1.inode : IsDir(node, m1, y) => IsDir(node, k, y)
          BY <1>2, <1>3, <2>1, <2>3, <3>1, Refreshed DEF x1
        <4>5. \A y \in DOMAIN m.inode : y \in DOMAIN m1.inode
          BY <2>4 DEF Keeps
        <4>6. DOMAIN m.rev \subseteq DOMAIN m1.rev
          BY <2>4 DEF Keeps
        <4>7. DOMAIN k.rev = DOMAIN m1.rev \cup {<<"delta", d>>} /\ k.rev[<<"delta", d>>] = x1
          BY <4>3 DEF Becomes
        <4> HIDE DEF k
        <4> QED BY <2>3, <4>1, <4>4, <4>5, <4>6, <4>7
      <3>2. CASE ~(d \in DOMAIN origin /\ <<"base", origin[d]>> \in DOMAIN m1.rev)
        <4>1. r.ino = m1.rev[<<"delta", d>>] /\ r.m = m1
          BY <2>5, <3>2
        <4> QED BY <2>3, <2>4, <4>1 DEF Keeps
      <3> QED BY <3>1, <3>2
    <2>7. /\ r.ino \in DOMAIN r.m.inode /\ r.m.inode[r.ino].layer = "delta"
          /\ CachedFits(ent, node, origin, None, r.m, r.ino, p)
          /\ IsDir(node, r.m, r.ino) => Dir(node, d)
      BY <1>2, <1>3, <2>1, <2>6, FitsAtDelta
    <2>8. Kind(r.m, r.ino) = "dir" => Dir(node, d)
      BY <2>7 DEF Kind, IsDir, Dir
    <2>9. r.ino # None
      BY <2>6, <2>7 DEF Good, Fits, Numbers
    <2> QED BY <1>4, <1>6, <2>1, <2>6, <2>7, <2>8, <2>9
  <1>7. CASE ~IsWhiteout(p) /\ ~(dp # None /\ <<dp, n>> \in DOMAIN ent)
    <2> DEFINE m1 == IF info.layer = "base" THEN m ELSE BaseWalk(m, info.path)
               m2 == BaseLookup(m1, p)
               u == m2.src[p]
               m3 == GetOrCreate(m2, "base", u, p)
    <2>1. WalkIn(ent, p) = None
      <3>1. <<None, n>> \notin DOMAIN ent
        BY <1>2 DEF EntTyped
      <3> QED BY <1>7, <1>a, <3>1
    <2>2. r = IF p \in DOMAIN Base THEN [ino |-> m3.rev[<<"base", u>>], m |-> m3] ELSE [ino |-> None, m |-> m1]
      <3>1. Append(IF info.layer = "base" THEN SrcPath(m, info.ino) ELSE info.path, n) = p
        BY <1>1
      <3> QED BY <1>1, <1>7, <3>1 DEF Look
    <2>3. /\ Good(ent, node, origin, nextDelta, None, dc, m1) /\ \A y \in DOMAIN m.inode : IsDir(node, m, y) => IsDir(node, m1, y)
          /\ MemTyped(m1) /\ m1.inode = m.inode /\ m1.rev = m.rev
      <3>1. CASE info.layer = "base"
        BY <1>0, <3>1
      <3>2. CASE info.layer # "base"
        BY <1>0, <1>1, <3>2, MoreWalked, BaseWalkTyped
      <3> QED BY <3>1, <3>2
    <2> HIDE DEF m1
    <2>4. /\ Good(ent, node, origin, nextDelta, None, dc, m2) /\ \A y \in DOMAIN m.inode : IsDir(node, m1, y) => IsDir(node, m2, y)
          /\ m2.inode = m.inode /\ m2.rev = m.rev /\ (p \in DOMAIN Base => p \in DOMAIN m2.src)
      BY <2>3, MoreNumbers, BaseLookupTyped
    <2> HIDE DEF m2
    <2>5. CASE p \notin DOMAIN Base
      <3>1. r.ino = None /\ r.m = m1
        BY <2>2, <2>5
      <3>2. p \in DOMAIN dc => m.inode[dc[p]].layer # "base"
        BY <1>0, <2>5 DEF CacheFits, CachedFits, MemTyped
      <3> QED BY <1>4, <2>3, <3>1, <3>2
    <2>6. CASE p \in DOMAIN Base
      <3>1. r.ino = m3.rev[<<"base", u>>] /\ r.m = m3
        BY <2>2, <2>6
      <3>2. u \in Nat /\ Fresh(ent, node, origin, nextDelta, m2, "base", u, p)
        BY <2>4, <2>6, FreshBase
      <3>3. MemTyped(m2)
        BY <2>4 DEF Good
      <3>4. MemTyped(m3) /\ Keeps(m2, m3) /\ <<"base", u>> \in DOMAIN m3.rev /\ m3.src = m2.src
        <4> HIDE DEF u
        <4> QED BY <1>3, <3>2, <3>3, GetOrCreateTyped
      <3>5. Good(ent, node, origin, nextDelta, None, dc, m3) /\ \A y \in DOMAIN m2.inode : IsDir(node, m2, y) => IsDir(node, m3, y)
        BY <2>4, <2>6, MoreBase
      <3>6. u = m3.src[p] /\ p \in DOMAIN m3.src
        BY <2>4, <2>6, <3>4
      <3> HIDE DEF m3, u
      <3>7. /\ r.ino \in DOMAIN m3.inode /\ CachedFits(ent, node, origin, None, m3, r.ino, p)
            /\ Kind(m3, r.ino) = "dir" => Base[p] = "dir"
            /\ p \in DOMAIN dc /\ m3.inode[dc[p]].layer = "base" => r.ino = dc[p] /\ (Base[p] = "dir" => Kind(m3, r.ino) = "dir")
        BY <1>2, <2>1, <3>1, <3>4, <3>5, <3>6, FitsAtBase
      <3>8. r.ino # None
        BY <3>5, <3>7 DEF Good, Fits, Numbers
      <3>9. DOMAIN m.rev \subseteq DOMAIN m3.rev
        BY <2>4, <3>4 DEF Keeps
      <3> QED BY <1>4, <1>7, <2>1, <2>3, <2>4, <2>6, <3>1, <3>5, <3>7, <3>8, <3>9
    <2> QED BY <2>5, <2>6
  <1> QED BY <1>5, <1>6, <1>7

-----------------------------------------------------------------------------
(* What a handler still has to do, once a step of it is done.              *)

\* A name that is a directory to those who look it up.
AsDir(E, N, p) == IF WalkIn(E, p) = None THEN p \in DOMAIN Base /\ Base[p] = "dir" ELSE Dir(N, WalkIn(E, p))

LEMMA PlanRest ==
    ASSUME NEW c, NEW s, Todo(s), s # <<>>, Plan(c, s), NEW t, t = Tail(s)
    PROVE  /\ Plan(c, t) /\ StepAt(c, Head(s))
           /\ t # <<>> => Follows(Head(s), Head(t))
           /\ t = <<>> => Head(s).do \notin {"parent", "copy", "fill"}
           /\ \A k \in 1..Len(t) : Before(Head(s), t[k]) /\ StepOk(t[k]) /\ t[k] \in StepType
PROOF
  <1>1. /\ Todo(t) /\ Len(s) \in Nat /\ Len(s) >= 1 /\ s[1] = Head(s) /\ Len(t) = Len(s) - 1
        /\ \A k \in 1..Len(t) : t[k] = s[k + 1] /\ k + 1 \in 1..Len(s)
    BY TodoTail
  <1>2. t \in Seq(StepType) /\ 1 \in 1..Len(s)
    BY <1>1 DEF Todo
  <1>a. (t = <<>>) <=> (Len(t) = 0)
    BY ONLY <1>2
  <1>3. t # <<>> => Len(t) >= 1 /\ Head(t) = t[1]
    BY <1>2
  <1>4. \A k \in 1..Len(t) : StepAt(c, t[k])
    BY <1>1 DEF Plan
  <1>5. ASSUME NEW k \in 1..Len(t) - 1 PROVE Follows(t[k], t[k + 1])
    <2>1. k \in 1..Len(t) /\ k + 1 \in 1..Len(t) /\ k + 1 \in 1..Len(s) - 1
      BY <1>1
    <2>2. t[k] = s[k + 1] /\ t[k + 1] = s[(k + 1) + 1]
      BY <1>1, <2>1
    <2> QED BY <2>1, <2>2 DEF Plan
  <1>6. ASSUME NEW k \in 1..Len(t), NEW j \in 1..Len(t), k < j PROVE Before(t[k], t[j])
    <2>1. k + 1 \in 1..Len(s) /\ j + 1 \in 1..Len(s) /\ k + 1 < j + 1 /\ t[k] = s[k + 1] /\ t[j] = s[j + 1]
      BY <1>1, <1>6
    <2> QED BY <2>1 DEF Plan
  <1>7. t # <<>> => t[Len(t)].do \notin {"parent", "copy", "fill"}
    <2> SUFFICES ASSUME t # <<>> PROVE t[Len(t)].do \notin {"parent", "copy", "fill"}
      OBVIOUS
    <2>1. Len(t) \in 1..Len(t) /\ Len(t) + 1 = Len(s)
      BY <1>1, <1>3
    <2> QED BY <1>1, <2>1 DEF Plan
  <1>8. Plan(c, t)
    BY <1>4, <1>5, <1>6, <1>7 DEF Plan
  <1>9. t # <<>> => Follows(Head(s), Head(t))
    <2> SUFFICES ASSUME t # <<>> PROVE Follows(Head(s), Head(t))
      OBVIOUS
    <2>1. 1 \in 1..Len(s) - 1 /\ 1 \in 1..Len(t)
      BY <1>1, <1>3
    <2>2. Follows(s[1], s[1 + 1])
      BY <2>1 DEF Plan
    <2> QED BY <1>1, <1>3, <2>1, <2>2
  <1>10. t = <<>> => Head(s).do \notin {"parent", "copy", "fill"}
    <2> SUFFICES ASSUME t = <<>> PROVE Head(s).do \notin {"parent", "copy", "fill"}
      OBVIOUS
    <2>1. Len(t) = 0
      BY <1>a
    <2>2. Len(s) = 1
      BY ONLY <1>1, <2>1
    <2> QED BY <1>1, <2>2 DEF Plan
  <1>11. ASSUME NEW k \in 1..Len(t)
         PROVE  Before(Head(s), t[k]) /\ StepOk(t[k]) /\ t[k] \in StepType
    <2>1. 1 < k + 1 /\ k + 1 \in 1..Len(s) /\ t[k] = s[k + 1]
      BY <1>1
    <2>2. Before(s[1], s[k + 1])
      BY <1>2, <2>1 DEF Plan
    <2> QED BY <1>1, <2>1, <2>2 DEF Todo, StepOk
  <1> QED BY <1>1, <1>2, <1>8, <1>9, <1>10, <1>11 DEF Plan

LEMMA ClearedRest ==
    ASSUME NEW s, Todo(s), s # <<>>, NEW W, Cleared(W, s), NEW V, V \subseteq W, NEW t, t = Tail(s),
           Head(s).do = "clear" => Head(s).at \notin V
    PROVE  /\ Cleared(V, t)
           /\ Head(s).do \in {"parent", "create", "move", "copy"} => Head(s).at \notin W
PROOF
  <1>1. /\ Len(s) \in Nat /\ Len(s) >= 1 /\ s[1] = Head(s) /\ Len(t) = Len(s) - 1
        /\ \A k \in 1..Len(t) : t[k] = s[k + 1] /\ k + 1 \in 1..Len(s)
    BY TodoTail
  <1>2. ASSUME NEW k \in 1..Len(t), t[k].do \in {"parent", "create", "move", "copy"}, t[k].at \in V
        PROVE  \E j \in 1..k - 1 : t[j] = Step("clear", t[k].at)
    <2>1. t[k] = s[k + 1] /\ k + 1 \in 1..Len(s) /\ t[k].at \in W
      BY <1>1, <1>2
    <2>2. PICK j \in 1..(k + 1) - 1 : s[j] = Step("clear", t[k].at)
      BY <1>2, <2>1 DEF Cleared
    <2>3. j # 1
      BY <1>1, <1>2, <2>2 DEF Step
    <2>4. j - 1 \in 1..k - 1 /\ j - 1 \in 1..Len(t) /\ (j - 1) + 1 = j
      BY <1>1, <2>3
    <2>5. t[j - 1] = s[j]
      BY <1>1, <2>4
    <2> QED BY <2>2, <2>4, <2>5
  <1>3. Head(s).do \in {"parent", "create", "move", "copy"} => Head(s).at \notin W
    <2>1. 1 \in 1..Len(s) /\ 1..1 - 1 = {}
      BY <1>1
    <2> QED BY <1>1, <2>1 DEF Cleared
  <1> QED BY <1>2, <1>3 DEF Cleared

LEMMA ParentMadeRest ==
    ASSUME NEW s, Todo(s), s # <<>>, NEW E, NEW N, ParentMade(E, N, s), NEW F, NEW M, NEW t, t = Tail(s),
           Has(t, {"copy"}) => \A A \in AnyPath : Dir(N, WalkIn(E, A)) => Dir(M, WalkIn(F, A)),
           Head(s).do = "parent" => Dir(M, WalkIn(F, Head(s).at))
    PROVE  /\ ParentMade(F, M, t)
           /\ Head(s).do = "copy" => Dir(N, WalkIn(E, Front(Head(s).at)))
PROOF
  <1>1. /\ Len(s) \in Nat /\ Len(s) >= 1 /\ s[1] = Head(s) /\ Len(t) = Len(s) - 1
        /\ \A k \in 1..Len(t) : t[k] = s[k + 1] /\ k + 1 \in 1..Len(s)
        /\ Todo(t)
    BY TodoTail
  <1>2. ASSUME NEW k \in 1..Len(t), t[k].do = "copy"
        PROVE  \/ Dir(M, WalkIn(F, Front(t[k].at)))
               \/ \E j \in 1..k - 1 : t[j] = Step("parent", Front(t[k].at))
    <2> DEFINE A == Front(t[k].at)
    <2>1. t[k] = s[k + 1] /\ k + 1 \in 1..Len(s)
      BY <1>1
    <2>2. Has(t, {"copy"})
      BY <1>2 DEF Has
    <2>3. A \in AnyPath
      <3>1. StepOk(t[k])
        BY <1>1 DEF Todo
      <3>2. t[k].at \in Named
        BY <1>2, <3>1 DEF StepOk, StepType, Named, AnyPath
      <3> QED BY <3>2, PathParts
    <2>4. CASE Dir(N, WalkIn(E, A))
      BY <2>2, <2>3, <2>4
    <2>5. CASE ~Dir(N, WalkIn(E, A))
      <3>1. PICK j \in 1..(k + 1) - 1 : s[j] = Step("parent", A)
        BY <1>2, <2>1, <2>5 DEF ParentMade
      <3>2. CASE j = 1
        BY <1>1, <3>1, <3>2 DEF Step
      <3>3. CASE j # 1
        <4>1. j - 1 \in 1..k - 1 /\ j - 1 \in 1..Len(t) /\ (j - 1) + 1 = j
          BY <1>1, <3>3
        <4>2. t[j - 1] = s[j]
          BY <1>1, <4>1
        <4> QED BY <3>1, <4>1, <4>2
      <3> QED BY <3>2, <3>3
    <2> QED BY <2>4, <2>5
  <1>3. Head(s).do = "copy" => Dir(N, WalkIn(E, Front(Head(s).at)))
    <2>1. 1 \in 1..Len(s) /\ 1..1 - 1 = {}
      BY <1>1
    <2> QED BY <1>1, <2>1 DEF ParentMade
  <1> QED BY <1>2, <1>3 DEF ParentMade

LEMMA ParentDirsRest ==
    ASSUME NEW s, Todo(s), s # <<>>, NEW E, NEW mk, ParentsAreDirs(E, mk, s), NEW F, NEW ml, NEW t, t = Tail(s),
           Has(t, {"parent", "parent_origin"}) => \A A \in AnyPath : WalkIn(F, A) \in {None, ml} => WalkIn(E, A) \in {None, mk}
    PROVE  /\ ParentsAreDirs(F, ml, t)
           /\ Head(s).do \in {"parent", "parent_origin"} /\ Head(s).at \in DOMAIN Base /\ WalkIn(E, Head(s).at) \in {None, mk} =>
                Base[Head(s).at] = "dir"
PROOF
  <1>1. /\ Len(s) \in Nat /\ Len(s) >= 1 /\ s[1] = Head(s)
        /\ \A k \in 1..Len(t) : t[k] = s[k + 1] /\ k + 1 \in 1..Len(s)
        /\ Todo(t)
    BY TodoTail
  <1>2. 1 \in 1..Len(s)
    BY <1>1
  <1>3. ASSUME NEW k \in 1..Len(t), t[k].do \in {"parent", "parent_origin"}, t[k].at \in DOMAIN Base, WalkIn(F, t[k].at) \in {None, ml}
        PROVE  Base[t[k].at] = "dir"
    <2>1. Has(t, {"parent", "parent_origin"})
      BY <1>3 DEF Has
    <2>2. t[k].at \in AnyPath
      BY <1>3, BaseTypes
    <2>3. WalkIn(E, t[k].at) \in {None, mk}
      BY <1>3, <2>1, <2>2
    <2> QED BY <1>1, <1>3, <2>3 DEF ParentsAreDirs
  <1> QED BY <1>1, <1>2, <1>3 DEF ParentsAreDirs

\* What a step, after which t is left, must leave of what a copy or a whiteout relies on ...
SourceKept(m, c, b, did, F, k, t) ==
    /\ SrcGrows(m, k)
    /\ Has(t, {"copy", "fill", "origin"}) => <<"base", b>> \in DOMAIN k.rev
    /\ Has(t, {"copy"}) => WalkIn(F, c.p) = None
    /\ did \in {"remove", "move"} => WalkIn(F, c.p) = None

\* ... and of what the handler was handed.
HandsKept(E, N, dc, m, c, x, F, M, k, t) ==
    /\ \A z \in DOMAIN m.inode : IsDir(N, m, z) =>
           (IsDir(M, k, z) \/ ~(c.what \in {"file", "dir", "remove", "rename", "link"} /\ \E p \in DOMAIN dc : CachedDir(N, dc, m, z, p)))
    /\ \A z \in DOMAIN m.inode : k.inode[z].layer = "base" => m.inode[z].layer = "base"
    /\ \A z \in DOMAIN m.inode : m.inode[z].layer = "delta" => k.inode[z].layer = "delta"
    /\ Has(t, {"move"}) => (WalkIn(F, c.q) = None => WalkIn(E, c.q) = None)
    /\ Has(t, {"move"}) /\ c.q \in Named /\ ~IsPrefix(c.p, c.q) /\ AsDir(E, N, c.p) => AsDir(F, M, c.p)
    /\ Has(t, {"origin"}) /\ c.what \in {"modify", "open"} /\ c.p \in DOMAIN dc /\ dc[c.p] = x /\ m.inode[x].layer = "base" =>
           k.inode[x].layer = "base"

LEMMA SourceRest ==
    ASSUME NEW s, Todo(s), s # <<>>, NEW c, Plan(c, s), NEW E, NEW m, NEW b, Source(E, m, c, b, s), NEW F, NEW k, NEW t, t = Tail(s),
           SourceKept(m, c, b, Head(s).do, F, k, t)
    PROVE  /\ Source(F, k, c, b, t)
           /\ Head(s).do \in {"copy", "fill", "origin"} => c.p \in DOMAIN m.src /\ m.src[c.p] = b /\ <<"base", b>> \in DOMAIN m.rev
           /\ Head(s).do = "copy" \/ Has(t, {"copy"}) => WalkIn(E, c.p) = None
           /\ Head(s).do = "whiteout" => WalkIn(E, c.p) = None
           /\ Has(t, {"copy", "fill", "origin"}) => c.p \in DOMAIN m.src /\ m.src[c.p] = b /\ <<"base", b>> \in DOMAIN m.rev
PROOF
  <1>1. /\ \A S : Has(t, S) => Has(s, S)
        /\ \A S : Head(s).do \in S => Has(s, S)
    BY TailHas
  <1>2. t # <<>> /\ Head(t).do = "whiteout" => Head(s).do \in {"remove", "move"}
    BY PlanRest DEF Follows
  <1>3. Has(s, {"copy", "fill", "origin"}) => c.p \in DOMAIN m.src /\ m.src[c.p] = b /\ <<"base", b>> \in DOMAIN m.rev
    BY DEF Source
  <1>4. Has(s, {"copy"}) => WalkIn(E, c.p) = None
    BY DEF Source
  <1>5. Source(F, k, c, b, t)
    BY <1>1, <1>2, <1>3 DEF Source, SrcGrows, SourceKept
  <1> QED BY <1>1, <1>3, <1>4, <1>5 DEF Source

LEMMA HandsRest ==
    ASSUME NEW s, Todo(s), s # <<>>, NEW E, NEW N, NEW dc, NEW m, NEW c, NEW x, NEW y, Hands(E, N, dc, m, c, x, y, s), NEW F, NEW M, NEW k, NEW t, t = Tail(s),
           Head(s).do # "link",
           \A p \in DOMAIN dc : dc[p] \in DOMAIN m.inode,
           HandsKept(E, N, dc, m, c, x, F, M, k, t)
    PROVE  Hands(F, M, dc, k, c, x, y, t)
PROOF
  <1>1. /\ \A S : Has(t, S) => Has(s, S)
        /\ Has(s, {"link"}) => Has(t, {"link"})
    BY TailHas
  <1>2. ASSUME NEW z, NEW p, CachedDir(N, dc, m, z, p), c.what \in {"file", "dir", "remove", "rename", "link"}
        PROVE  CachedDir(M, dc, k, z, p)
    <2>1. p \in DOMAIN dc /\ dc[p] = z /\ z \in DOMAIN m.inode
      BY <1>2 DEF CachedDir
    <2> QED BY <1>2, <2>1 DEF CachedDir, HandsKept
  <1>3. c.what \in {"file", "dir", "remove", "rename"} => c.p \in Named /\ CachedDir(M, dc, k, x, Front(c.p))
    BY <1>2 DEF Hands
  <1>4. c.what \in {"link", "rename"} => c.q \in Named
    BY DEF Hands
  <1>5. c.what = "link" => CachedDir(M, dc, k, x, Front(c.q))
    BY <1>2 DEF Hands
  <1>6. c.what = "rename" => CachedDir(M, dc, k, y, Front(c.q)) /\ ~IsPrefix(c.p, c.q) /\ ~IsPrefix(c.q, c.p)
    BY <1>2 DEF Hands
  <1>7. ASSUME c.what = "rename", Has(t, {"move"}), c.q \in DOMAIN dc,
               k.inode[dc[c.q]].layer = "base", Base[c.q] = "dir", WalkIn(F, c.q) = None
        PROVE  AsDir(F, M, c.p)
    <2>1. m.inode[dc[c.q]].layer = "base" /\ WalkIn(E, c.q) = None /\ Has(s, {"move"})
      <3>1. dc[c.q] \in DOMAIN m.inode
        BY <1>7
      <3> QED BY <1>1, <1>7, <3>1 DEF HandsKept
    <2>2. AsDir(E, N, c.p)
      BY <1>7, <2>1 DEF Hands, AsDir
    <2> QED BY <1>4, <1>6, <1>7, <2>2 DEF HandsKept
  <1>8. Has(t, {"create"}) => /\ c.what \in {"file", "dir"}
                              /\ c.p \in DOMAIN dc => k.inode[dc[c.p]].layer = "delta"
    BY <1>1 DEF Hands, HandsKept
  <1>9. /\ Has(t, {"remove"}) => c.what = "remove"
        /\ Has(t, {"move"}) => c.what = "rename"
        /\ Has(t, {"whiteout"}) => c.what \in {"remove", "rename"}
        /\ Has(t, {"link"}) => c.what = "link"
        /\ c.what = "link" => Has(t, {"link"})
        /\ Has(t, {"touch"}) => c.what \in {"modify", "open"}
    BY <1>1 DEF Hands
  <1>10. c.what \in {"modify", "open"} =>
             c.p \in DOMAIN dc /\ dc[c.p] = x /\ (Has(t, {"origin"}) => k.inode[x].layer = "base")
    BY <1>1 DEF Hands, HandsKept
  <1> QED BY <1>3, <1>4, <1>5, <1>6, <1>7, <1>8, <1>9, <1>10 DEF Hands, AsDir

\* Nobody holds a base inode whose name is hidden, but the handler that hid it.
NoneHidden(W, dc, m) == \A p \in DOMAIN dc : m.inode[dc[p]].layer = "base" => p \notin W

LEMMA SeenIs ==
    /\ \A W, dc, m, c, s : Seen(W, dc, m, c, s) /\ (s # <<>> \/ c.what \notin {"remove", "rename"}) => NoneHidden(W, dc, m)
    /\ \A W, dc, m, c, s : NoneHidden(W, dc, m) => Seen(W, dc, m, c, s)
BY DEF Seen, NoneHidden

LEMMA HiddenKept ==
    ASSUME NEW W, NEW dc, NEW m, NoneHidden(W, dc, m), NEW V, V \subseteq W, NEW k,
           \A p \in DOMAIN dc : k.inode[dc[p]].layer = "base" => m.inode[dc[p]].layer = "base"
    PROVE  NoneHidden(V, dc, k)
BY DEF NoneHidden

\* No handler runs.
LEMMA Quiet ==
    ASSUME op' = NoOp, Tree(ent', node'), Good(ent', node', origin', nextDelta', None, dcache', mem'),
           Hidden(ent', whiteouts'), NoneHidden(whiteouts', dcache', mem')
    PROVE  Whole'
PROOF
  <1>1. /\ op'.todo = <<>> /\ op'.call.what = "idle" /\ op'.made = None
    BY Idles
  <1>2. Len(op'.todo) = 0 /\ 1..0 = {} /\ 1..0 - 1 = {}
    BY <1>1
  <1>3. \A S : ~Has(op'.todo, S)
    BY <1>1, NoneLeft
  <1>4. Seen(whiteouts, dcache, mem, op.call, op.todo)'
    BY SeenIs
  <1>5. Plan(op.call, op.todo)'
    BY <1>1, <1>2 DEF Plan
  <1>6. Cleared(whiteouts, op.todo)' /\ ParentMade(ent, node, op.todo)' /\ ParentsAreDirs(ent, op.made, op.todo)'
    BY <1>2 DEF Cleared, ParentMade, ParentsAreDirs
  <1>7. MadeFits(ent, node, origin, op.made, op.call, op.todo)'
    BY <1>1 DEF MadeFits
  <1>8. Source(ent, mem, op.call, op.src, op.todo)'
    BY <1>1, <1>3 DEF Source
  <1>9. Hands(ent, node, dcache, mem, op.call, op.x, op.y, op.todo)'
    BY <1>1, <1>3 DEF Hands
  <1> QED BY <1>1, <1>4, <1>5, <1>6, <1>7, <1>8, <1>9 DEF Whole

LEMMA Proceeds ==
    ASSUME OverlayInv, Whole, NEW v, Advanced(v),
           Tree(ent', node'), Good(ent', node', origin', nextDelta', v, dcache', mem'), Hidden(ent', whiteouts'),
           UNCHANGED dcache, whiteouts' \subseteq whiteouts, Head(op.todo).do = "clear" => At \notin whiteouts',
           Has(Rest, {"parent", "parent_origin"}) => \A A \in AnyPath : WalkIn(ent', A) \in {None, v} => WalkIn(ent, A) \in {None, op.made},
           Has(Rest, {"copy"}) => \A A \in AnyPath : Dir(node, WalkIn(ent, A)) => Dir(node', WalkIn(ent', A)),
           Head(op.todo).do = "parent" => Dir(node', WalkIn(ent', At)),
           MadeFits(ent', node', origin', v, op.call, Rest),
           SourceKept(mem, op.call, op.src, Head(op.todo).do, ent', mem', Rest),
           Head(op.todo).do # "link",
           HandsKept(ent, node, dcache, mem, op.call, op.x, ent', node', mem', Rest)
    PROVE  Whole'
PROOF
  <1> DEFINE s == op.todo
             t == Rest
             c == op.call
  <1>1. s # <<>> /\ Todo(s) /\ t = Tail(s) /\ \A p \in DOMAIN dcache : dcache[p] \in DOMAIN mem.inode
    BY DEF Advanced, OverlayInv, OpTyped, Rest, Kernel
  <1>2. /\ op'.call = c /\ op'.x = op.x /\ op'.y = op.y /\ op'.src = op.src /\ op'.todo = t /\ op'.made = v /\ dcache' = dcache
    BY DEF Advanced
  <1>3. At = Head(s).at
    BY DEF At
  <1> HIDE DEF Rest
  <1>4. NoneHidden(whiteouts, dcache, mem)
    BY <1>1, SeenIs DEF Whole
  <1>5. NoneHidden(whiteouts', dcache, mem')
    <2>1. \A p \in DOMAIN dcache : mem'.inode[dcache[p]].layer = "base" => mem.inode[dcache[p]].layer = "base"
      BY <1>1 DEF HandsKept
    <2> QED BY <1>4, <2>1, HiddenKept
  <1>6. Seen(whiteouts', dcache, mem', c, t)
    BY <1>5, SeenIs
  <1>7. Plan(c, t)
    BY <1>1, PlanRest DEF Whole
  <1>8. Cleared(whiteouts', t)
    BY <1>1, <1>3, ClearedRest DEF Whole
  <1>9. ParentMade(ent', node', t)
    BY <1>1, <1>3, ParentMadeRest DEF Whole
  <1>10. ParentsAreDirs(ent', v, t)
    BY <1>1, ParentDirsRest DEF Whole
  <1>11. Source(ent', mem', c, op.src, t)
    BY <1>1, SourceRest DEF Whole
  <1>12. Hands(ent', node', dcache, mem', c, op.x, op.y, t)
    <2>1. Hands(ent, node, dcache, mem, c, op.x, op.y, s)
      BY DEF Whole
    <2> HIDE DEF s, t
    <2> QED BY <1>1, <2>1, HandsRest DEF s, t
  <1> QED BY <1>2, <1>6, <1>7, <1>8, <1>9, <1>10, <1>11, <1>12 DEF Whole

-----------------------------------------------------------------------------
(* The steps of a handler.                                                 *)

\* What holds when a step is about to be done.
LEMMA Stands ==
    ASSUME OverlayInv, Whole, NEW s, Doing(s)
    PROVE  /\ op.todo # <<>> /\ ~Ready /\ Head(op.todo).do = s /\ At = Head(op.todo).at /\ OpTyped /\ Todo(op.todo) /\ Rest = Tail(op.todo)
           /\ DeltaTyped /\ MemTyped(mem) /\ EntTyped(ent, node) /\ \A d \in DOMAIN node : d \in Nat /\ d < nextDelta
           /\ \A d \in DOMAIN origin : d \in Nat /\ d < nextDelta
           /\ \A p \in DOMAIN dcache : p \in AnyPath /\ dcache[p] \in DOMAIN mem.inode
           /\ s # "touch" => At \in Named /\ At \in AnyPath /\ Last(At) \in Names /\ Front(At) \in AnyPath /\ At = Append(Front(At), Last(At))
           /\ s \notin {"parent_origin", "fill", "origin"} => op.made = None
           /\ s \in {"fill", "origin"} => op.made # None
           /\ StepAt(op.call, Head(op.todo))
           /\ Rest # <<>> => Follows(Head(op.todo), Head(Rest)) /\ StepAt(op.call, Head(Rest))
           /\ s \in {"parent", "copy", "fill"} => Rest # <<>>
           /\ NoneHidden(whiteouts, dcache, mem)
           /\ s \in {"parent", "create", "move", "copy"} => At \notin whiteouts
           /\ s \notin {"copy", "fill"} => \A E, N, O : MadeFits(E, N, O, None, op.call, Rest)
PROOF
  <1>1. /\ op.todo # <<>> /\ ~Ready /\ Head(op.todo).do = s /\ At = Head(op.todo).at /\ OpTyped /\ DeltaTyped /\ MemTyped(mem)
        /\ s # "touch" => At \in Named /\ At \in AnyPath /\ Last(At) \in Names /\ Front(At) \in AnyPath
    BY Running
  <1>2. Todo(op.todo) /\ Rest = Tail(op.todo)
    BY <1>1 DEF OpTyped, Rest
  <1>3. s # "touch" => At = Append(Front(At), Last(At))
    BY <1>1, PathParts
  <1>4. EntTyped(ent, node) /\ \A d \in DOMAIN node : d \in Nat /\ d < nextDelta
    BY <1>1, DeltaEnts
  <1>5. \A d \in DOMAIN origin : d \in Nat /\ d < nextDelta
    BY <1>1 DEF DeltaTyped
  <1>6. \A p \in DOMAIN dcache : p \in AnyPath /\ dcache[p] \in DOMAIN mem.inode
    BY DEF Whole, Good, CacheFits
  <1>7. /\ s \notin {"parent_origin", "fill", "origin"} => op.made = None
        /\ s \in {"fill", "origin"} => op.made # None
    BY <1>1 DEF Whole, MadeFits
  <1> HIDE DEF Rest
  <1>8. /\ StepAt(op.call, Head(op.todo)) /\ Plan(op.call, Rest)
        /\ Rest # <<>> => Follows(Head(op.todo), Head(Rest))
        /\ s \in {"parent", "copy", "fill"} => Rest # <<>>
    BY <1>1, <1>2, PlanRest DEF Whole
  <1>9. NoneHidden(whiteouts, dcache, mem)
    BY <1>1, SeenIs DEF Whole
  <1>10. s \in {"parent", "create", "move", "copy"} => At \notin whiteouts
    <2>1. Cleared(whiteouts, op.todo)
      BY DEF Whole
    <2>2. s # "clear" => (s \in {"parent", "create", "move", "copy"} => At \notin whiteouts)
      BY <1>1, <1>2, <2>1, ClearedRest
    <2> QED BY <2>2
  <1>11. s \notin {"copy", "fill"} => \A E, N, O : MadeFits(E, N, O, None, op.call, Rest)
    BY <1>1, <1>8 DEF MadeFits, Follows
  <1>12. Rest # <<>> => StepAt(op.call, Head(Rest))
    <2> SUFFICES ASSUME Rest # <<>> PROVE StepAt(op.call, Head(Rest))
      OBVIOUS
    <2>1. Todo(Rest)
      BY <1>1, <1>2, TodoTail
    <2>2. Rest \in Seq(StepType)
      BY <2>1 DEF Todo
    <2>3. 1 \in 1..Len(Rest) /\ Head(Rest) = Rest[1]
      BY <2>2
    <2> QED BY <1>8, <2>3 DEF Plan
  <1> QED BY <1>1, <1>2, <1>3, <1>4, <1>5, <1>6, <1>7, <1>8, <1>9, <1>10, <1>11, <1>12

\* What is left to do once a step is done.
LEMMA LeftOver ==
    ASSUME OverlayInv, Whole, NEW s, Doing(s)
    PROVE  /\ Has(Rest, {"copy", "fill", "origin"}) =>
                op.call.p \in DOMAIN mem.src /\ mem.src[op.call.p] = op.src /\ <<"base", op.src>> \in DOMAIN mem.rev
           /\ Has(Rest, {"copy"}) => WalkIn(ent, op.call.p) = None
           /\ s \in {"parent", "parent_origin"} /\ Has(Rest, {"copy", "fill", "origin"}) => At # op.call.p
           /\ s \in {"copy", "origin"} => ~Has(Rest, {s})
           /\ s \in {"remove", "move", "whiteout"} => ~Has(Rest, {"clear", "parent", "parent_origin", "copy", "fill", "origin", "create", "link", "remove", "move", "touch"})
           /\ s = "whiteout" => Rest = <<>>
           /\ s \in {"copy", "fill", "origin"} =>
                op.call.p \in DOMAIN mem.src /\ mem.src[op.call.p] = op.src /\ <<"base", op.src>> \in DOMAIN mem.rev
           /\ s \in {"copy", "whiteout"} => WalkIn(ent, op.call.p) = None
PROOF
  <1>1. op.todo # <<>> /\ Head(op.todo).do = s /\ At = Head(op.todo).at /\ Todo(op.todo) /\ Rest = Tail(op.todo)
    BY Stands
  <1>2. Plan(op.call, op.todo) /\ Source(ent, mem, op.call, op.src, op.todo)
    BY DEF Whole
  <1> HIDE DEF Rest
  <1>3. /\ \A S : Has(Rest, S) => Has(op.todo, S)
        /\ \A S : Head(op.todo).do \in S => Has(op.todo, S)
        /\ \A S : s \in {"remove", "move", "whiteout"} /\ "whiteout" \notin S => ~Has(Rest, S)
    BY <1>1, TailHas
  <1>4. /\ Plan(op.call, Rest) /\ (Rest # <<>> => Follows(Head(op.todo), Head(Rest)))
        /\ \A k \in 1..Len(Rest) : Before(Head(op.todo), Rest[k])
    BY <1>1, <1>2, PlanRest
  <1>5. \A k \in 1..Len(Rest) : StepAt(op.call, Rest[k])
    BY <1>4 DEF Plan
  <1>6. s \in {"parent", "parent_origin"} /\ Has(Rest, {"copy", "fill", "origin"}) => At # op.call.p
    BY <1>1, <1>4, <1>5 DEF Has, Before, StepAt
  <1>7. s \in {"copy", "origin"} => ~Has(Rest, {s})
    BY <1>1, <1>4 DEF Has, Before
  <1>8. ASSUME s = "whiteout", Rest # <<>> PROVE FALSE
    <2>1. Todo(Rest)
      BY <1>1, TodoTail
    <2>2. Rest \in Seq(StepType)
      BY <2>1 DEF Todo
    <2>3. 1 \in 1..Len(Rest) /\ Head(Rest) = Rest[1]
      BY <1>8, <2>2
    <2>4. Has(Rest, {Head(Rest).do})
      BY <2>3 DEF Has
    <2>5. Head(Rest).do = "whiteout"
      BY <1>3, <1>8, <2>4
    <2> QED BY <1>1, <1>4, <1>8, <2>5 DEF Follows
  <1>9. Has(op.todo, {"copy", "fill", "origin"}) =>
            op.call.p \in DOMAIN mem.src /\ mem.src[op.call.p] = op.src /\ <<"base", op.src>> \in DOMAIN mem.rev
    BY <1>2 DEF Source
  <1>10. Has(op.todo, {"copy"}) => WalkIn(ent, op.call.p) = None
    BY <1>2 DEF Source
  <1>11. s = "whiteout" => WalkIn(ent, op.call.p) = None
    BY <1>1, <1>2 DEF Source
  <1> QED BY <1>1, <1>3, <1>6, <1>7, <1>8, <1>9, <1>10, <1>11

LEMMA KeptSame ==
    /\ \A E, N, dc, m, c, x, t : HandsKept(E, N, dc, m, c, x, E, N, m, t)
    /\ \A m : SrcGrows(m, m)
BY DEF HandsKept, SrcGrows

LEMMA RemoveWhiteoutSound == ASSUME OverlayInv, Whole, RemoveWhiteout PROVE Whole'
PROOF
  <1>1. /\ Doing("clear") /\ Advance /\ whiteouts' = whiteouts \ {At}
        /\ UNCHANGED <<ent, node, nextDelta, origin, mem, answer, dcache, session, stale>>
    BY DEF RemoveWhiteout
  <1>2. /\ op.todo # <<>> /\ ~Ready /\ Head(op.todo).do = "clear" /\ OpTyped /\ op.made = None
        /\ MadeFits(ent, node, origin, None, op.call, Rest)
    BY <1>1, Stands
  <1>3. Advanced(op.made)
    BY <1>1, <1>2, AdvanceIs
  <1>4. /\ Has(Rest, {"copy", "fill", "origin"}) => <<"base", op.src>> \in DOMAIN mem.rev
        /\ Has(Rest, {"copy"}) => WalkIn(ent, op.call.p) = None
    BY <1>1, LeftOver
  <1> HIDE DEF Rest, At
  <1>5. /\ Tree(ent', node') /\ Good(ent', node', origin', nextDelta', op.made, dcache', mem') /\ Hidden(ent', whiteouts')
        /\ UNCHANGED dcache /\ whiteouts' \subseteq whiteouts /\ At \notin whiteouts'
        /\ MadeFits(ent', node', origin', op.made, op.call, Rest)
    BY <1>1, <1>2 DEF Whole, Hidden
  <1>6. SourceKept(mem, op.call, op.src, Head(op.todo).do, ent', mem', Rest)
    BY <1>1, <1>2, <1>4, KeptSame DEF SourceKept
  <1>7. HandsKept(ent, node, dcache, mem, op.call, op.x, ent', node', mem', Rest)
    BY <1>1, KeptSame
  <1> QED BY <1>1, <1>2, <1>3, <1>5, <1>6, <1>7, Proceeds

\* Inodes change, but which there are and which are directories does not.
LEMMA SameDirs ==
    ASSUME NEW E, NEW N, NEW O, NEW nd \in Nat, NEW mk, NEW dc, NEW m, Good(E, N, O, nd, mk, dc, m), Tree(E, N),
           NEW M, DOMAIN M = DOMAIN N, \A d \in DOMAIN N : M[d].kind = N[d].kind,
           \A d \in DOMAIN O : d \in Nat /\ d < nd
    PROVE  /\ Good(E, M, O, nd, mk, dc, m) /\ Tree(E, M)
           /\ \A c, x, t : HandsKept(E, N, dc, m, c, x, E, M, m, t)
           /\ \A d : Dir(M, d) <=> Dir(N, d)
PROOF
  <1>1. \A d : Dir(M, d) <=> Dir(N, d)
    BY DEF Dir
  <1>2. \A p \in DOMAIN dc : m.inode[dc[p]].layer = "base" => CopyKnown(E, M, O, mk, p, m.inode[dc[p]].ino)
    <2>1. \A p \in DOMAIN dc : m.inode[dc[p]].layer = "base" => CopyKnown(E, N, O, mk, p, m.inode[dc[p]].ino)
      BY DEF Good, CacheFits, CachedFits
    <2> QED BY <1>1, <2>1 DEF CopyKnown
  <1>3. /\ \A d \in DOMAIN M : d \in DOMAIN N /\ (Dir(M, d) <=> Dir(N, d))
        /\ \A q \in AnyPath : \A d \in DOMAIN N : Dir(M, d) => (WalkIn(E, q) = d <=> WalkIn(E, q) = d)
        /\ nd <= nd
    BY <1>1
  <1>4. Good(E, M, O, nd, mk, dc, m)
    BY <1>2, <1>3, TreeChanges
  <1>5. Tree(E, M)
    BY <1>1 DEF Tree
  <1>6. \A z : IsDir(N, m, z) <=> IsDir(M, m, z)
    BY <1>1 DEF IsDir
  <1>7. \A p : AsDir(E, N, p) <=> AsDir(E, M, p)
    BY <1>1 DEF AsDir
  <1>8. \A c, x, t : HandsKept(E, N, dc, m, c, x, E, M, m, t)
    BY <1>6, <1>7 DEF HandsKept
  <1> QED BY <1>1, <1>4, <1>5, <1>8

LEMMA FillSound == ASSUME OverlayInv, Whole, Fill PROVE Whole'
PROOF
  <1>1. /\ Doing("fill") /\ Advance /\ node' = [node EXCEPT ![op.made].from = SrcPath(mem, op.src)]
        /\ UNCHANGED <<ent, nextDelta, whiteouts, origin, mem, answer, dcache, session, stale>>
    BY DEF Fill
  <1>2. /\ op.todo # <<>> /\ ~Ready /\ Head(op.todo).do = "fill" /\ OpTyped /\ op.made # None /\ DeltaTyped
        /\ At = Head(op.todo).at /\ StepAt(op.call, Head(op.todo)) /\ Rest # <<>>
        /\ Follows(Head(op.todo), Head(Rest)) /\ StepAt(op.call, Head(Rest))
        /\ \A d \in DOMAIN origin : d \in Nat /\ d < nextDelta
    BY <1>1, Stands
  <1>3. Advanced(op.made)
    BY <1>1, <1>2, AdvanceIs
  <1>4. /\ Has(Rest, {"copy", "fill", "origin"}) => <<"base", op.src>> \in DOMAIN mem.rev
        /\ Has(Rest, {"copy"}) => WalkIn(ent, op.call.p) = None
    BY <1>1, LeftOver
  <1> HIDE DEF Rest, At
  <1>5. DOMAIN node' = DOMAIN node /\ \A d \in DOMAIN node : node'[d].kind = node[d].kind
    <2>1. \A d \in DOMAIN node : DOMAIN node[d] = {"kind", "from", "mod"}
      BY <1>2 DEF DeltaTyped, NodeType
    <2>2. DOMAIN node' = DOMAIN node /\ \A d \in DOMAIN node : d # op.made => node'[d] = node[d]
      BY <1>1
    <2>3. op.made \in DOMAIN node => node'[op.made] = [node[op.made] EXCEPT !.from = SrcPath(mem, op.src)]
      BY <1>1
    <2>4. op.made \in DOMAIN node => node'[op.made].kind = node[op.made].kind
      BY <2>1, <2>3
    <2> QED BY <2>2, <2>4
  <1>6. nextDelta \in Nat
    BY <1>2, BoundsAssumption DEF DeltaTyped
  <1>7. /\ Good(ent, node', origin, nextDelta, op.made, dcache, mem) /\ Tree(ent, node')
        /\ \A c, x, t : HandsKept(ent, node, dcache, mem, c, x, ent, node', mem, t)
        /\ \A d : Dir(node', d) <=> Dir(node, d)
    BY <1>2, <1>5, <1>6, SameDirs DEF Whole
  <1>8. MadeFits(ent, node', origin, op.made, op.call, Rest)
    <2>1. Head(Rest).do = "origin" /\ Head(Rest).at = At
      BY <1>2 DEF Follows, StepAt
    <2>2. /\ WalkIn(ent, At) = op.made /\ op.made \in DOMAIN node /\ op.made \notin DOMAIN origin
          /\ Dir(node, op.made) <=> Base[op.call.p] = "dir"
      BY <1>2 DEF Whole, MadeFits
    <2> QED BY <1>2, <1>5, <1>7, <2>1, <2>2 DEF MadeFits
  <1>9. SourceKept(mem, op.call, op.src, Head(op.todo).do, ent', mem', Rest)
    BY <1>1, <1>2, <1>4, KeptSame DEF SourceKept
  <1>10. HandsKept(ent, node, dcache, mem, op.call, op.x, ent', node', mem', Rest)
    BY <1>1, <1>7
  <1>11. /\ Tree(ent', node') /\ Good(ent', node', origin', nextDelta', op.made, dcache', mem') /\ Hidden(ent', whiteouts')
         /\ UNCHANGED dcache /\ whiteouts' \subseteq whiteouts
         /\ MadeFits(ent', node', origin', op.made, op.call, Rest)
    BY <1>1, <1>7, <1>8 DEF Whole
  <1>12. \A A \in AnyPath : /\ Dir(node, WalkIn(ent, A)) => Dir(node', WalkIn(ent', A))
                            /\ WalkIn(ent', A) \in {None, op.made} => WalkIn(ent, A) \in {None, op.made}
    BY <1>1, <1>7
  <1> QED BY <1>2, <1>3, <1>9, <1>10, <1>11, <1>12, Proceeds

LEMMA Stops ==
    ASSUME OverlayInv, Whole, NEW s, Doing(s), NEW a, Return(a), op.made = None,
           UNCHANGED <<ent, node, nextDelta, whiteouts, origin, mem, dcache>>
    PROVE  Whole'
PROOF
  <1>1. op' = NoOp /\ NoneHidden(whiteouts, dcache, mem)
    BY Stands DEF Return
  <1> QED BY <1>1, Quiet DEF Whole

LEMMA TouchSound == ASSUME OverlayInv, Whole, Touch PROVE Whole'
PROOF
  <1> DEFINE d == mem.inode[op.x].ino
  <1>1. /\ Doing("touch") /\ UNCHANGED <<ent, nextDelta, whiteouts, origin, mem, dcache, session, stale>>
        /\ \/ Return("error") /\ UNCHANGED node
           \/ /\ node' = IF op.call.what = "modify" THEN [node EXCEPT ![d].mod = TRUE] ELSE node
              /\ Advance
    BY DEF Touch
  <1>2. /\ op.todo # <<>> /\ ~Ready /\ Head(op.todo).do = "touch" /\ OpTyped /\ op.made = None /\ DeltaTyped
        /\ \A e \in DOMAIN origin : e \in Nat /\ e < nextDelta
        /\ MadeFits(ent, node', origin, None, op.call, Rest)
    BY <1>1, Stands
  <1>3. CASE Return("error") /\ UNCHANGED node
    BY <1>1, <1>2, <1>3, Stops
  <1>4. CASE node' = (IF op.call.what = "modify" THEN [node EXCEPT ![d].mod = TRUE] ELSE node) /\ Advance
    <2>1. Advanced(op.made)
      BY <1>2, <1>4, AdvanceIs
    <2>2. /\ Has(Rest, {"copy", "fill", "origin"}) => <<"base", op.src>> \in DOMAIN mem.rev
          /\ Has(Rest, {"copy"}) => WalkIn(ent, op.call.p) = None
      BY <1>1, LeftOver
    <2> HIDE DEF Rest, At, d
    <2>3. DOMAIN node' = DOMAIN node /\ \A e \in DOMAIN node : node'[e].kind = node[e].kind
      <3>1. \A e \in DOMAIN node : DOMAIN node[e] = {"kind", "from", "mod"}
        BY <1>2 DEF DeltaTyped, NodeType
      <3>2. DOMAIN node' = DOMAIN node /\ \A e \in DOMAIN node : e # d => node'[e] = node[e]
        BY <1>4
      <3>3. d \in DOMAIN node => node'[d] = [node[d] EXCEPT !.mod = TRUE] \/ node'[d] = node[d]
        BY <1>4
      <3>4. d \in DOMAIN node => node'[d].kind = node[d].kind
        BY <3>1, <3>3
      <3> QED BY <3>2, <3>4
    <2>4. nextDelta \in Nat
      BY <1>2, BoundsAssumption DEF DeltaTyped
    <2>5. /\ Good(ent, node', origin, nextDelta, op.made, dcache, mem) /\ Tree(ent, node')
          /\ \A c, x, t : HandsKept(ent, node, dcache, mem, c, x, ent, node', mem, t)
          /\ \A e : Dir(node', e) <=> Dir(node, e)
      BY <1>2, <2>3, <2>4, SameDirs DEF Whole
    <2>6. SourceKept(mem, op.call, op.src, Head(op.todo).do, ent', mem', Rest)
      BY <1>1, <1>2, <2>2, KeptSame DEF SourceKept
    <2>7. HandsKept(ent, node, dcache, mem, op.call, op.x, ent', node', mem', Rest)
      BY <1>1, <2>5
    <2>8. /\ Tree(ent', node') /\ Good(ent', node', origin', nextDelta', op.made, dcache', mem') /\ Hidden(ent', whiteouts')
          /\ UNCHANGED dcache /\ whiteouts' \subseteq whiteouts
          /\ MadeFits(ent', node', origin', op.made, op.call, Rest)
      BY <1>1, <1>2, <2>5 DEF Whole
    <2>9. \A A \in AnyPath : /\ Dir(node, WalkIn(ent, A)) => Dir(node', WalkIn(ent', A))
                             /\ WalkIn(ent', A) \in {None, op.made} => WalkIn(ent, A) \in {None, op.made}
      BY <1>1, <2>5
    <2> QED BY <1>2, <2>1, <2>6, <2>7, <2>8, <2>9, Proceeds
  <1> QED BY <1>1, <1>3, <1>4

-----------------------------------------------------------------------------
(* The steps that record where a copy came from.                           *)

\* The inode a handler just made, at the name its step is about.
LEMMA JustMade ==
    ASSUME OverlayInv, Whole, NEW s, Doing(s), op.made # None
    PROVE  /\ WalkIn(ent, At) = op.made /\ op.made \in DOMAIN node /\ op.made \notin DOMAIN origin
           /\ op.made \in Nat /\ op.made < nextDelta /\ s \in {"parent_origin", "fill", "origin"}
           /\ s = "parent_origin" => Dir(node, op.made) /\ (At \in DOMAIN Base => At \in DOMAIN mem.src /\ Base[At] = "dir")
           /\ s # "parent_origin" => At = op.call.p /\ (Dir(node, op.made) <=> Base[op.call.p] = "dir")
PROOF
  <1>1. /\ op.todo # <<>> /\ Head(op.todo).do = s /\ At = Head(op.todo).at /\ Todo(op.todo) /\ StepAt(op.call, Head(op.todo))
    BY Stands
  <1>2. op.made \in Nat /\ op.made < nextDelta /\ Handed
    BY Running
  <1>3. /\ WalkIn(ent, At) = op.made /\ op.made \in DOMAIN node /\ op.made \notin DOMAIN origin
        /\ s \in {"parent_origin", "fill", "origin"}
        /\ s = "parent_origin" => Dir(node, op.made)
        /\ s # "parent_origin" => (Dir(node, op.made) <=> Base[op.call.p] = "dir")
    BY <1>1 DEF Whole, MadeFits
  <1>4. s = "parent_origin" /\ At \in DOMAIN Base => At \in DOMAIN mem.src
    BY <1>1, <1>2 DEF Handed
  <1>5. ParentsAreDirs(ent, op.made, op.todo)
    BY DEF Whole
  <1>6. s = "parent_origin" /\ At \in DOMAIN Base => Base[At] = "dir"
    BY <1>1, <1>3, <1>5, ParentDirsRest
  <1>7. s \in {"fill", "origin"} => At = op.call.p
    BY <1>1 DEF StepAt
  <1> QED BY <1>2, <1>3, <1>4, <1>6, <1>7

LEMMA ParentOriginSound == ASSUME OverlayInv, Whole, ParentOrigin PROVE Whole'
PROOF
  <1>1. /\ Doing("parent_origin") /\ op' = [op EXCEPT !.todo = Rest, !.made = None]
        /\ UNCHANGED <<ent, node, nextDelta, whiteouts, answer, dcache, session, stale>>
        /\ IF op.made # None /\ At \in DOMAIN Base
           THEN origin' = Add(origin, op.made, mem.src[At]) /\ mem' = PromoteToDelta(mem, At, op.made)
           ELSE UNCHANGED <<origin, mem>>
    BY DEF ParentOrigin
  <1>2. /\ op.todo # <<>> /\ ~Ready /\ Head(op.todo).do = "parent_origin" /\ OpTyped /\ At \in AnyPath
        /\ EntTyped(ent, node)
        /\ \A E, N, O : MadeFits(E, N, O, None, op.call, Rest)
    BY <1>1, Stands
  <1>3. Advanced(None)
    BY <1>1, <1>2, AdvanceIs
  <1>4. /\ Has(Rest, {"copy", "fill", "origin"}) =>
             op.call.p \in DOMAIN mem.src /\ mem.src[op.call.p] = op.src /\ <<"base", op.src>> \in DOMAIN mem.rev /\ At # op.call.p
        /\ Has(Rest, {"copy"}) => WalkIn(ent, op.call.p) = None
        /\ Has(Rest, {"origin"}) => Has(Rest, {"copy", "fill", "origin"})
    BY <1>1, LeftOver DEF Has
  <1> HIDE DEF Rest, At
  <1>5. Good(ent, node, origin, nextDelta, op.made, dcache, mem) /\ Tree(ent, node) /\ Hidden(ent, whiteouts)
    BY DEF Whole
  <1>6. ASSUME Good(ent, node, origin', nextDelta, None, dcache, mem'),
               SourceKept(mem, op.call, op.src, Head(op.todo).do, ent', mem', Rest),
               HandsKept(ent, node, dcache, mem, op.call, op.x, ent', node', mem', Rest)
        PROVE  Whole'
    BY <1>1, <1>2, <1>3, <1>5, <1>6, Proceeds
  <1>7. CASE op.made # None /\ At \in DOMAIN Base
    <2>1. /\ WalkIn(ent, At) = op.made /\ op.made \in DOMAIN node /\ op.made \notin DOMAIN origin
          /\ op.made \in Nat /\ op.made < nextDelta /\ Dir(node, op.made) /\ At \in DOMAIN mem.src /\ Base[At] = "dir"
      BY <1>1, <1>7, JustMade
    <2>2. Good(ent, node, origin', nextDelta, None, dcache, mem)
      BY <1>1, <1>2, <1>5, <1>7, <2>1, WithOrigin
    <2>3. op.made \in DOMAIN origin'
      BY <1>1, <1>7 DEF Add
    <2> DEFINE k == PromoteToDelta(mem, At, op.made)
    <2>4. /\ Good(ent, node, origin', nextDelta, None, dcache, k)
          /\ \A y \in DOMAIN mem.inode : IsDir(node, mem, y) => IsDir(node, k, y)
          /\ \A y \in DOMAIN mem.inode : /\ y \in DOMAIN k.inode
                                         /\ \/ k.inode[y] = mem.inode[y]
                                            \/ k.inode[y].layer = "delta" /\ mem.inode[y].path = At
          /\ \A q \in DOMAIN mem.src : q # At /\ <<"base", mem.src[q]>> \in DOMAIN mem.rev =>
                <<"base", mem.src[q]>> \in DOMAIN k.rev
          /\ k.src = mem.src
      BY <1>2, <1>5, <1>7, <2>1, <2>2, <2>3, Promoted
    <2>5. mem' = k
      BY <1>1, <1>7
    <2> HIDE DEF k
    <2>6. SourceKept(mem, op.call, op.src, Head(op.todo).do, ent', mem', Rest)
      BY <1>1, <1>2, <1>4, <2>4, <2>5 DEF SourceKept, SrcGrows
    <2>7. op.call.p \in DOMAIN dcache /\ dcache[op.call.p] = op.x /\ mem.inode[op.x].layer = "base" =>
             op.x \in DOMAIN mem.inode /\ mem.inode[op.x].path = op.call.p
      BY <1>5 DEF Good, CacheFits, CachedFits
    <2>8. HandsKept(ent, node, dcache, mem, op.call, op.x, ent', node', mem', Rest)
      <3>1. \A z \in DOMAIN mem.inode : k.inode[z].layer = "base" => mem.inode[z].layer = "base"
        BY <2>4
      <3>2. \A z \in DOMAIN mem.inode : mem.inode[z].layer = "delta" => k.inode[z].layer = "delta"
        BY <2>4
      <3>3. Has(Rest, {"origin"}) /\ op.call.p \in DOMAIN dcache /\ dcache[op.call.p] = op.x /\ mem.inode[op.x].layer = "base" =>
              k.inode[op.x].layer = "base"
        BY <1>4, <2>4, <2>7
      <3>4. UNCHANGED <<ent, node>>
        BY <1>1
      <3> QED BY <2>4, <2>5, <3>1, <3>2, <3>3, <3>4 DEF HandsKept
    <2> QED BY <1>6, <2>4, <2>5, <2>6, <2>8
  <1>8. CASE ~(op.made # None /\ At \in DOMAIN Base)
    <2>1. UNCHANGED <<origin, mem>>
      BY <1>1, <1>8
    <2>2. Good(ent, node, origin', nextDelta, None, dcache, mem')
      <3>1. CASE op.made = None
        BY <1>5, <2>1, <3>1
      <3>2. CASE op.made # None
        <4>1. WalkIn(ent, At) = op.made /\ At \notin DOMAIN Base
          BY <1>1, <1>8, <3>2, JustMade
        <4>2. Good(ent, node, origin, nextDelta, None, dcache, mem)
          BY <1>2, <1>5, <3>2, <4>1, WithoutOrigin
        <4> QED BY <2>1, <4>2
      <3> QED BY <3>1, <3>2
    <2>3. SourceKept(mem, op.call, op.src, Head(op.todo).do, ent', mem', Rest)
      BY <1>1, <1>2, <1>4, <2>1, KeptSame DEF SourceKept
    <2>4. HandsKept(ent, node, dcache, mem, op.call, op.x, ent', node', mem', Rest)
      BY <1>1, <2>1, KeptSame
    <2> QED BY <1>6, <2>2, <2>3, <2>4
  <1> QED BY <1>7, <1>8

LEMMA AddOriginSound == ASSUME OverlayInv, Whole, AddOrigin PROVE Whole'
PROOF
  <1>1. /\ Doing("origin") /\ op' = [op EXCEPT !.todo = Rest, !.made = None]
        /\ origin' = Add(origin, op.made, op.src)
        /\ mem' = IF op.call.what \in {"modify", "open"} THEN UpdateMapping(mem, op.x, op.made) ELSE mem
        /\ UNCHANGED <<ent, node, nextDelta, whiteouts, answer, dcache, session>>
    BY DEF AddOrigin
  <1>2. /\ op.todo # <<>> /\ ~Ready /\ Head(op.todo).do = "origin" /\ OpTyped /\ At \in AnyPath /\ op.made # None
        /\ EntTyped(ent, node) /\ MemTyped(mem) /\ Todo(op.todo)
        /\ \A E, N, O : MadeFits(E, N, O, None, op.call, Rest)
    BY <1>1, Stands
  <1>3. Advanced(None)
    BY <1>1, <1>2, AdvanceIs
  <1>4. /\ op.call.p \in DOMAIN mem.src /\ mem.src[op.call.p] = op.src /\ <<"base", op.src>> \in DOMAIN mem.rev
        /\ Has(Rest, {"copy"}) => WalkIn(ent, op.call.p) = None
        /\ ~Has(Rest, {"origin"})
    BY <1>1, LeftOver
  <1>5. Has(op.todo, {"origin"})
    BY <1>2, TailHas
  <1> HIDE DEF Rest, At
  <1>6. Good(ent, node, origin, nextDelta, op.made, dcache, mem) /\ Tree(ent, node) /\ Hidden(ent, whiteouts)
    BY DEF Whole
  <1>7. /\ WalkIn(ent, At) = op.made /\ op.made \in DOMAIN node /\ op.made \notin DOMAIN origin
        /\ op.made \in Nat /\ op.made < nextDelta /\ At = op.call.p /\ (Dir(node, op.made) <=> Base[op.call.p] = "dir")
    BY <1>1, <1>2, JustMade
  <1>8. Good(ent, node, origin', nextDelta, None, dcache, mem)
    BY <1>1, <1>2, <1>4, <1>6, <1>7, WithOrigin
  <1>9. ASSUME Good(ent, node, origin', nextDelta, None, dcache, mem'),
               SourceKept(mem, op.call, op.src, Head(op.todo).do, ent', mem', Rest),
               HandsKept(ent, node, dcache, mem, op.call, op.x, ent', node', mem', Rest)
        PROVE  Whole'
    BY <1>1, <1>2, <1>3, <1>6, <1>9, Proceeds
  <1>10. CASE op.call.what \in {"modify", "open"}
    <2>1. op.call.p \in DOMAIN dcache /\ dcache[op.call.p] = op.x /\ mem.inode[op.x].layer = "base"
      BY <1>5, <1>10 DEF Whole, Hands
    <2>2. op.x \in DOMAIN mem.inode /\ mem.inode[op.x].path = op.call.p
      BY <1>6, <2>1 DEF Good, CacheFits, CachedFits
    <2> DEFINE k == UpdateMapping(mem, op.x, op.made)
    <2>3. /\ Good(ent, node, origin', nextDelta, None, dcache, k)
          /\ \A y \in DOMAIN mem.inode : IsDir(node, mem, y) => IsDir(node, k, y)
      BY <1>2, <1>7, <1>8, <2>1, <2>2, Updated
    <2>4. /\ SrcGrows(mem, k)
          /\ \A y \in DOMAIN mem.inode : y # op.x => k.inode[y] = mem.inode[y]
          /\ k.inode[op.x].layer = "delta"
      <3>1. op.x \in DOMAIN mem.inode /\ op.made \in Nat /\ MemTyped(mem)
        BY <1>2, <1>7, <2>2
      <3>2. k.inode[op.x] = [layer |-> "delta", ino |-> op.made, path |-> mem.inode[op.x].path]
        BY <3>1, UpdateTyped
      <3>3. SrcGrows(mem, k) /\ \A y \in DOMAIN mem.inode : y # op.x => k.inode[y] = mem.inode[y]
        BY <3>1, UpdateTyped
      <3> QED BY <3>2, <3>3
    <2>5. DOMAIN mem.rev \subseteq DOMAIN k.rev
      BY <1>2 DEF UpdateMapping, Add, MemTyped, IsMem
    <2>6. mem' = k
      BY <1>1, <1>10
    <2> HIDE DEF k
    <2>7. SourceKept(mem, op.call, op.src, Head(op.todo).do, ent', mem', Rest)
      BY <1>1, <1>2, <1>4, <2>4, <2>5, <2>6 DEF SourceKept
    <2>8. HandsKept(ent, node, dcache, mem, op.call, op.x, ent', node', mem', Rest)
      <3>1. UNCHANGED <<ent, node>>
        BY <1>1
      <3>2. \A z \in DOMAIN mem.inode : k.inode[z].layer = "base" => mem.inode[z].layer = "base"
        BY <2>4
      <3>3. \A z \in DOMAIN mem.inode : mem.inode[z].layer = "delta" => k.inode[z].layer = "delta"
        BY <2>4
      <3> QED BY <1>4, <2>3, <2>6, <3>1, <3>2, <3>3 DEF HandsKept
    <2> QED BY <1>9, <2>3, <2>6, <2>7, <2>8
  <1>11. CASE op.call.what \notin {"modify", "open"}
    <2>1. UNCHANGED mem
      BY <1>1, <1>11
    <2>2. SourceKept(mem, op.call, op.src, Head(op.todo).do, ent', mem', Rest)
      BY <1>1, <1>2, <1>4, <2>1, KeptSame DEF SourceKept
    <2>3. HandsKept(ent, node, dcache, mem, op.call, op.x, ent', node', mem', Rest)
      BY <1>1, <2>1, KeptSame
    <2> QED BY <1>8, <1>9, <2>1, <2>2, <2>3
  <1> QED BY <1>10, <1>11

-----------------------------------------------------------------------------
(* The steps that add a name with a new inode.                             *)

\* p gets the next inode, a directory if b.
Leaf(p, b) ==
    /\ Tree(ent', node') /\ nextDelta' = nextDelta + 1
    /\ \A q \in AnyPath : WalkIn(ent', q) = IF q = p THEN nextDelta ELSE WalkIn(ent, q)
    /\ \A q \in AnyPath : WalkIn(ent, q) \in {None} \cup DOMAIN node
    /\ WalkIn(ent, p) = None /\ None \notin DOMAIN node /\ p \in AnyPath
    /\ nextDelta \in Nat /\ nextDelta # None /\ nextDelta \notin DOMAIN node
    /\ DOMAIN node' = DOMAIN node \cup {nextDelta}
    /\ \A d \in DOMAIN node : Dir(node', d) <=> Dir(node, d)
    /\ Dir(node', nextDelta) <=> b

LEMMA NewLeaf ==
    ASSUME DeltaTyped, Tree(ent, node), NEW A \in AnyPath, NEW n \in Names, Dir(node, WalkIn(ent, A)),
           <<WalkIn(ent, A), n>> \notin DOMAIN ent, NEW v \in NodeType, NewNode(WalkIn(ent, A), n, v)
    PROVE  Leaf(Append(A, n), v.kind = "dir")
PROOF
  <1> DEFINE dir == WalkIn(ent, A)
             p == Append(A, n)
  <1>1. /\ EntTyped(ent, node) /\ \A d \in DOMAIN node : d \in Nat /\ d < nextDelta
        /\ nextDelta \in Nat /\ nextDelta # None /\ nextDelta \notin DOMAIN node
    <2>1. EntTyped(ent, node) /\ \A d \in DOMAIN node : d \in Nat /\ d < nextDelta
      BY DeltaEnts
    <2>2. nextDelta \in Nat /\ nextDelta >= 2
      BY BoundsAssumption DEF DeltaTyped
    <2> QED BY <2>1, <2>2 DEF None
  <1>2. /\ ent' = Add(ent, <<dir, n>>, nextDelta) /\ node' = Add(node, nextDelta, v) /\ nextDelta' = nextDelta + 1
    BY DEF NewNode
  <1>3. dir \in DOMAIN node
    BY DEF Dir
  <1>4. \A e \in DOMAIN ent : e[1] # nextDelta /\ ent[e] # nextDelta
    BY <1>1 DEF EntTyped
  <1>5. \A q \in AnyPath : WalkIn(ent', q) = IF q = p THEN nextDelta ELSE WalkIn(ent, q)
    <2>1. dir # None /\ nextDelta # dir
      BY <1>1, <1>3 DEF EntTyped
    <2> QED BY <1>1, <1>2, <1>4, <2>1, AddLeaf
  <1>6. WalkIn(ent, p) = None
    BY WalkOn
  <1>7. /\ DOMAIN node' = DOMAIN node \cup {nextDelta}
        /\ \A d \in DOMAIN node : node'[d] = node[d]
        /\ node'[nextDelta] = v
    BY <1>1, <1>2 DEF Add
  <1>8. /\ \A d \in DOMAIN node : Dir(node', d) <=> Dir(node, d)
        /\ Dir(node', nextDelta) <=> v.kind = "dir"
    BY <1>7 DEF Dir
  <1>9. /\ DOMAIN ent' = DOMAIN ent \cup {<<dir, n>>} /\ ent'[<<dir, n>>] = nextDelta
        /\ \A e \in DOMAIN ent : ent'[e] = ent[e]
    BY <1>2 DEF Add
  <1>10. Tree(ent', node')
    <2>1. \A e, f \in DOMAIN ent' : ent'[e] = ent'[f] => e = f
      <3>1. \A e, f \in DOMAIN ent : ent[e] = ent[f] => e = f
        BY DEF Tree
      <3> QED BY <1>4, <1>9, <3>1
    <2>2. \A e \in DOMAIN ent' : Dir(node', e[1])
      <3>1. \A e \in DOMAIN ent : Dir(node, e[1]) /\ e[1] \in DOMAIN node
        BY DEF Tree, Dir
      <3> QED BY <1>3, <1>8, <1>9, <3>1
    <2> QED BY <2>1, <2>2 DEF Tree
  <1>11. \A q \in AnyPath : WalkIn(ent, q) \in {None} \cup DOMAIN node
    <2>1. 1 \in DOMAIN node /\ \A e \in DOMAIN ent : ent[e] \in DOMAIN node \ {1}
      BY DEF DeltaTyped
    <2> QED BY <2>1, WalkTyped
  <1>12. p \in AnyPath /\ None \notin DOMAIN node
    BY <1>1, PathLonger DEF EntTyped
  <1> QED BY <1>1, <1>2, <1>5, <1>6, <1>7, <1>8, <1>10, <1>11, <1>12 DEF Leaf

LEMMA LeafHidden ==
    ASSUME NEW p, NEW b, Leaf(p, b), NEW W, Hidden(ent, W), p \notin W
    PROVE  Hidden(ent', W)
BY DEF Leaf, Hidden

LEMMA LeafFits ==
    ASSUME NEW p, NEW b, Leaf(p, b), NEW dc, NEW m, Good(ent, node, origin, nextDelta, None, dc, m),
           \A d \in DOMAIN origin : d \in Nat /\ d < nextDelta, NEW ml,
           ml = nextDelta \/ (ml = None /\ \A q \in DOMAIN dc : m.inode[dc[q]].layer = "base" => q # p)
    PROVE  /\ Good(ent', node', origin, nextDelta', ml, dc, m)
           /\ \A y \in DOMAIN m.inode : IsDir(node, m, y) => IsDir(node', m, y)
PROOF
  <1>1. /\ nextDelta \in Nat /\ nextDelta' \in Nat /\ nextDelta <= nextDelta'
        /\ \A d \in DOMAIN node' : \/ d \in DOMAIN node /\ (Dir(node', d) <=> Dir(node, d))
                                   \/ d \in Nat /\ nextDelta <= d
    BY DEF Leaf
  <1>2. \A q \in AnyPath : \A d \in DOMAIN node : Dir(node', d) => (WalkIn(ent', q) = d <=> WalkIn(ent, q) = d)
    BY DEF Leaf
  <1>3. ASSUME NEW q \in DOMAIN dc, m.inode[dc[q]].layer = "base"
        PROVE  CopyKnown(ent', node', origin, ml, q, m.inode[dc[q]].ino)
    <2>1. q \in AnyPath /\ CopyKnown(ent, node, origin, None, q, m.inode[dc[q]].ino)
      BY <1>3 DEF Good, CacheFits, CachedFits
    <2>2. CASE q = p
      <3>1. ml = nextDelta /\ WalkIn(ent', q) = nextDelta
        BY <1>3, <2>1, <2>2 DEF Leaf
      <3> QED BY <3>1 DEF CopyKnown
    <2>3. CASE q # p
      <3>1. WalkIn(ent', q) = WalkIn(ent, q) /\ WalkIn(ent, q) \in {None} \cup DOMAIN node
        BY <2>1, <2>3 DEF Leaf
      <3>2. WalkIn(ent, q) # None => (Dir(node', WalkIn(ent, q)) <=> Dir(node, WalkIn(ent, q)))
        BY <3>1 DEF Leaf
      <3> QED BY <2>1, <3>1, <3>2 DEF CopyKnown
    <2> QED BY <2>2, <2>3
  <1>4. /\ Good(ent', node', origin, nextDelta', ml, dc, m)
        /\ \A y \in DOMAIN m.inode : IsDir(node, m, y) =>
              (IsDir(node', m, y) \/ (m.inode[y].layer = "delta" /\ m.inode[y].ino \notin DOMAIN node'))
    BY <1>1, <1>2, <1>3, TreeChanges
  <1>5. \A y \in DOMAIN m.inode : IsDir(node, m, y) /\ m.inode[y].layer = "delta" => m.inode[y].ino \in DOMAIN node'
    BY DEF IsDir, Dir, Leaf
  <1> QED BY <1>4, <1>5

LEMMA LeafHands ==
    ASSUME NEW p, NEW b, Leaf(p, b), NEW E, E = ent, NEW N, N = node, NEW dc, NEW m, NEW k, k.inode = m.inode,
           \A y \in DOMAIN m.inode : IsDir(node, m, y) => IsDir(node', k, y),
           NEW c, NEW x, NEW t, Has(t, {"move"}) => c.p \in AnyPath /\ c.q \in AnyPath,
           Has(t, {"move"}) /\ c.p = p /\ Base[p] = "dir" => b
    PROVE  HandsKept(E, N, dc, m, c, x, ent', node', k, t)
PROOF
  <1>1. Has(t, {"move"}) => (WalkIn(ent', c.q) = None => WalkIn(ent, c.q) = None)
    BY DEF Leaf
  <1>2. ASSUME Has(t, {"move"}), AsDir(ent, node, c.p) PROVE AsDir(ent', node', c.p)
    <2>1. CASE c.p = p
      <3>1. Base[p] = "dir" /\ WalkIn(ent', c.p) = nextDelta /\ nextDelta # None
        BY <1>2, <2>1 DEF AsDir, Leaf
      <3>2. b
        BY <1>2, <2>1, <3>1
      <3>3. Dir(node', nextDelta)
        BY <3>2 DEF Leaf
      <3> QED BY <3>1, <3>3 DEF AsDir
    <2>2. CASE c.p # p
      <3>1. WalkIn(ent', c.p) = WalkIn(ent, c.p) /\ WalkIn(ent, c.p) \in {None} \cup DOMAIN node
        BY <1>2, <2>2 DEF Leaf
      <3>2. WalkIn(ent, c.p) # None => (Dir(node', WalkIn(ent, c.p)) <=> Dir(node, WalkIn(ent, c.p)))
        BY <3>1 DEF Leaf
      <3> QED BY <1>2, <3>1, <3>2 DEF AsDir
    <2> QED BY <2>1, <2>2
  <1> QED BY <1>1, <1>2 DEF HandsKept

\* What a rename is about are names below the root.
LEMMA RenameNames ==
    ASSUME OverlayInv, Whole, NEW s, Doing(s), Has(Rest, {"move"})
    PROVE  op.call.p \in AnyPath /\ op.call.q \in AnyPath /\ op.call.what = "rename"
PROOF
  <1>1. op.todo # <<>> /\ Todo(op.todo) /\ Rest = Tail(op.todo)
    BY Stands
  <1> HIDE DEF Rest
  <1>2. Has(op.todo, {"move"})
    BY <1>1, TailHas
  <1>3. op.call.what = "rename" /\ op.call.p \in Named /\ op.call.q \in Named
    BY <1>2 DEF Whole, Hands
  <1> QED BY <1>3 DEF Named, AnyPath

\* No walk that ends nowhere or at what was made did not end nowhere before.
LEMMA LeafWalks ==
    ASSUME NEW p, NEW b, Leaf(p, b), NEW v \in {None, nextDelta}
    PROVE  \A A \in AnyPath : /\ WalkIn(ent', A) \in {None, v} => WalkIn(ent, A) = None
                              /\ Dir(node, WalkIn(ent, A)) => Dir(node', WalkIn(ent', A))
PROOF
  <1> SUFFICES ASSUME NEW A \in AnyPath
               PROVE  /\ WalkIn(ent', A) \in {None, v} => WalkIn(ent, A) = None
                      /\ Dir(node, WalkIn(ent, A)) => Dir(node', WalkIn(ent', A))
    OBVIOUS
  <1>1. CASE A = p
    <2>1. WalkIn(ent, A) = None /\ None \notin DOMAIN node
      BY <1>1 DEF Leaf
    <2> QED BY <2>1 DEF Dir
  <1>2. CASE A # p
    <2>1. WalkIn(ent', A) = WalkIn(ent, A) /\ WalkIn(ent, A) \in {None} \cup DOMAIN node /\ nextDelta \notin DOMAIN node /\ nextDelta # None
      BY <1>2 DEF Leaf
    <2>2. Dir(node, WalkIn(ent, A)) => Dir(node', WalkIn(ent, A))
      BY DEF Leaf, Dir
    <2> QED BY <2>1, <2>2
  <1> QED BY <1>1, <1>2

LEMMA EnsureParentSound == ASSUME OverlayInv, Whole, EnsureParent PROVE Whole'
PROOF
  <1> DEFINE m == BaseWalk(mem, At)
  <1>1. /\ Doing("parent") /\ mem' = m
        /\ IF DeltaWalk(At) # None
           THEN /\ IF node[DeltaWalk(At)].kind = "dir" THEN Advance /\ UNCHANGED answer ELSE Return("error")
                /\ UNCHANGED <<ent, node, nextDelta>>
           ELSE /\ NewNode(1, Last(At), [kind |-> "dir", from |-> <<>>, mod |-> FALSE])
                /\ op' = [op EXCEPT !.todo = Rest, !.made = nextDelta]
                /\ UNCHANGED answer
        /\ UNCHANGED <<whiteouts, origin, dcache, session, stale>>
    BY DEF EnsureParent
  <1>2. /\ op.todo # <<>> /\ ~Ready /\ Head(op.todo).do = "parent" /\ OpTyped /\ op.made = None /\ DeltaTyped
        /\ At = Head(op.todo).at /\ StepAt(op.call, Head(op.todo)) /\ Rest # <<>>
        /\ Follows(Head(op.todo), Head(Rest)) /\ MemTyped(mem)
        /\ \A d \in DOMAIN origin : d \in Nat /\ d < nextDelta
        /\ At \in AnyPath /\ Last(At) \in Names /\ Front(At) \in AnyPath /\ At = Append(Front(At), Last(At)) /\ At \in Named
        /\ NoneHidden(whiteouts, dcache, mem) /\ At \notin whiteouts
        /\ \A p \in DOMAIN dcache : dcache[p] \in DOMAIN mem.inode
        /\ \A E, N, O : MadeFits(E, N, O, None, op.call, Rest)
    BY <1>1, Stands
  <1>3. DeltaWalk(At) = WalkIn(ent, At)
    BY WalkIsIn
  <1>4. /\ Has(Rest, {"copy", "fill", "origin"}) => <<"base", op.src>> \in DOMAIN mem.rev /\ op.call.p \in DOMAIN mem.src /\ At # op.call.p
        /\ Has(Rest, {"copy"}) => WalkIn(ent, op.call.p) = None /\ Has(Rest, {"copy", "fill", "origin"})
    BY <1>1, LeftOver DEF Has
  <1>5. Has(Rest, {"move"}) => op.call.p \in AnyPath /\ op.call.q \in AnyPath
    BY <1>1, RenameNames
  <1>6. /\ Advance => Advanced(None)
        /\ op' = [op EXCEPT !.todo = Rest, !.made = nextDelta] => Advanced(nextDelta)
    BY <1>2, AdvanceIs
  <1>7. Len(At) = 1
    BY <1>2 DEF StepAt
  <1>8. Follows(Head(op.todo), Head(Rest)) => Head(Rest) = Step("parent_origin", At)
    BY <1>2 DEF Follows
  <1> HIDE DEF Rest, At
  <1>9. Good(ent, node, origin, nextDelta, None, dcache, mem) /\ Tree(ent, node) /\ Hidden(ent, whiteouts)
    BY <1>2 DEF Whole
  <1>10. /\ Good(ent, node, origin, nextDelta, None, dcache, m)
         /\ \A y \in DOMAIN mem.inode : IsDir(node, mem, y) => IsDir(node, m, y)
    BY <1>2, <1>9, MoreWalked
  <1>11. m.inode = mem.inode /\ m.rev = mem.rev /\ SrcGrows(mem, m)
    BY <1>2, BaseWalkTyped DEF Keeps
  <1> HIDE DEF m
  <1>12. CASE DeltaWalk(At) # None /\ node[DeltaWalk(At)].kind # "dir"
    <2>1. op' = NoOp /\ UNCHANGED <<ent, node, nextDelta, whiteouts, origin, dcache>>
      BY <1>1, <1>12 DEF Return
    <2>2. NoneHidden(whiteouts, dcache, m)
      BY <1>2, <1>11 DEF NoneHidden
    <2> QED BY <1>1, <1>9, <1>10, <2>1, <2>2, Quiet
  <1>13. CASE DeltaWalk(At) # None /\ node[DeltaWalk(At)].kind = "dir"
    <2>1. Advanced(None) /\ UNCHANGED <<ent, node, nextDelta, whiteouts, origin, dcache>>
      BY <1>1, <1>6, <1>13
    <2>2. Dir(node', WalkIn(ent', At))
      <3>1. DeltaWalk(At) \in {None} \cup DOMAIN node
        BY <1>2, WalkEnds
      <3> QED BY <1>3, <1>13, <2>1, <3>1 DEF Dir
    <2>3. SourceKept(mem, op.call, op.src, Head(op.todo).do, ent', mem', Rest)
      BY <1>1, <1>2, <1>4, <1>11, <2>1 DEF SourceKept
    <2>4. HandsKept(ent, node, dcache, mem, op.call, op.x, ent', node', mem', Rest)
      BY <1>1, <1>10, <1>11, <2>1 DEF HandsKept
    <2> QED BY <1>1, <1>2, <1>9, <1>10, <2>1, <2>2, <2>3, <2>4, Proceeds
  <1>14. CASE DeltaWalk(At) = None
    <2> DEFINE v == [kind |-> "dir", from |-> <<>>, mod |-> FALSE]
    <2>1. /\ Advanced(nextDelta) /\ NewNode(1, Last(At), v)
          /\ UNCHANGED <<whiteouts, origin, dcache>>
      BY <1>1, <1>6, <1>14
    <2>2. At = Append(<<>>, Last(At)) /\ <<>> \in AnyPath
      <3>1. Front(At) = <<>>
        <4>1. Len(Front(At)) = 0 /\ Front(At) \in Seq(Names)
          BY <1>2, <1>7, PathParts DEF AnyPath
        <4> QED BY <4>1
      <3> QED BY <1>2, <3>1
    <2>3. WalkIn(ent, <<>>) = 1 /\ Dir(node, 1) /\ v \in NodeType
      BY <1>2, WalkStart DEF DeltaTyped, Dir, NodeType
    <2>4. <<1, Last(At)>> \notin DOMAIN ent
      <3>1. EntTyped(ent, node)
        BY <1>2, DeltaEnts
      <3>2. WalkIn(ent, At) = IF <<1, Last(At)>> \in DOMAIN ent THEN ent[<<1, Last(At)>>] ELSE None
        <4> DEFINE n == Last(At)
        <4>1. n \in Names /\ <<>> \in AnyPath
          BY <1>2, <2>2
        <4> HIDE DEF n
        <4>2. WalkIn(ent, Append(<<>>, n)) = IF <<WalkIn(ent, <<>>), n>> \in DOMAIN ent THEN ent[<<WalkIn(ent, <<>>), n>>] ELSE None
          BY <4>1, WalkOn
        <4>3. WalkIn(ent, Append(<<>>, n)) = IF <<1, n>> \in DOMAIN ent THEN ent[<<1, n>>] ELSE None
          BY <2>3, <4>2
        <4>4. At = Append(<<>>, n)
          BY <2>2 DEF n
        <4> QED BY <4>3, <4>4 DEF n
      <3> QED BY <1>3, <1>14, <3>1, <3>2 DEF EntTyped
    <2>5. Leaf(At, TRUE)
      <3>1. Leaf(Append(<<>>, Last(At)), v.kind = "dir")
        BY <1>2, <1>9, <2>1, <2>2, <2>3, <2>4, NewLeaf
      <3>2. (v.kind = "dir") = TRUE
        OBVIOUS
      <3> QED BY <2>2, <3>1, <3>2
    <2> HIDE DEF v
    <2>6. /\ Good(ent', node', origin, nextDelta', nextDelta, dcache, m)
          /\ \A y \in DOMAIN m.inode : IsDir(node, m, y) => IsDir(node', m, y)
      BY <1>2, <1>10, <2>5, LeafFits
    <2>7. HandsKept(ent, node, dcache, mem, op.call, op.x, ent', node', mem', Rest)
      BY <1>1, <1>5, <1>10, <1>11, <2>5, <2>6, LeafHands
    <2>8. /\ WalkIn(ent', At) = nextDelta /\ Dir(node', nextDelta) /\ nextDelta \in DOMAIN node' /\ nextDelta \notin DOMAIN origin
          /\ nextDelta # None /\ Tree(ent', node')
      <3>1. nextDelta \in Nat
        BY <2>5 DEF Leaf
      <3> QED BY <1>2, <2>5, <3>1 DEF Leaf
    <2>9. MadeFits(ent', node', origin', nextDelta, op.call, Rest)
      <3>1. Head(Rest).do = "parent_origin" /\ Head(Rest).at = At
        BY <1>2, <1>8 DEF Step
      <3> QED BY <1>2, <2>1, <2>8, <3>1 DEF MadeFits
    <2>10. Has(Rest, {"copy"}) => WalkIn(ent', op.call.p) = None
      <3> SUFFICES ASSUME Has(Rest, {"copy"}) PROVE WalkIn(ent', op.call.p) = None
        OBVIOUS
      <3>1. op.call.p \in DOMAIN Base /\ op.call.p # At /\ WalkIn(ent, op.call.p) = None
        BY <1>2, <1>4 DEF MemTyped
      <3> QED BY <2>5, <3>1, BaseTypes DEF Leaf
    <2>11. SourceKept(mem, op.call, op.src, Head(op.todo).do, ent', mem', Rest)
      BY <1>1, <1>2, <1>4, <1>11, <2>10 DEF SourceKept
    <2>12. Hidden(ent', whiteouts)
      BY <1>2, <1>9, <2>5, LeafHidden
    <2>13. \A A \in AnyPath : /\ WalkIn(ent', A) \in {None, nextDelta} => WalkIn(ent, A) \in {None, op.made}
                              /\ Dir(node, WalkIn(ent, A)) => Dir(node', WalkIn(ent', A))
      BY <2>5, LeafWalks
    <2>14. Good(ent', node', origin', nextDelta', nextDelta, dcache', mem')
      BY <1>1, <2>1, <2>6
    <2> QED BY <1>2, <2>1, <2>7, <2>8, <2>9, <2>11, <2>12, <2>13, <2>14, Proceeds
  <1> QED BY <1>12, <1>13, <1>14

LEMMA MoreDelta ==
    ASSUME NEW E, NEW N, NEW O, NEW nd, NEW mk, NEW dc, NEW m, Good(E, N, O, nd, mk, dc, m), NEW u \in Nat, NEW p \in AnyPath,
           Fresh(E, N, O, nd, m, "delta", u, p), NEW k, k = GetOrCreate(m, "delta", u, p)
    PROVE  /\ Good(E, N, O, nd, mk, dc, k)
           /\ \A x \in DOMAIN m.inode : IsDir(N, m, x) => IsDir(N, k, x)
PROOF
  <1> DEFINE layer == "delta"
  <1>1. k = GetOrCreate(m, layer, u, p) /\ layer \in {"delta", "base"} /\ layer # "base"
    OBVIOUS
  <1>2. <<layer, u>> \notin DOMAIN m.rev => Fresh(E, N, O, nd, m, layer, u, p)
    OBVIOUS
  <1> HIDE DEF layer
  <1>3. layer = "base" => p # <<>>
    BY <1>1
  <1> QED BY <1>1, <1>2, <1>3, MoreInodes

LEMMA CopySound == ASSUME OverlayInv, Whole, Copy PROVE Whole'
PROOF
  <1> DEFINE f == SrcPath(mem, op.src)
             v == [kind |-> Base[f], mod |-> FALSE, from |-> IF Base[f] = "symlink" THEN f ELSE <<>>]
             dir == DeltaWalk(Front(At))
  <1>1. /\ Doing("copy")
        /\ IF f \notin DOMAIN Base \/ dir = None
           THEN Return("error") /\ UNCHANGED <<ent, node, nextDelta>>
           ELSE /\ NewNode(dir, Last(At), v)
                /\ op' = [op EXCEPT !.todo = Rest, !.made = nextDelta]
        /\ UNCHANGED <<whiteouts, origin, mem, dcache, session, stale>>
    BY DEF Copy
  <1>2. /\ op.todo # <<>> /\ ~Ready /\ Head(op.todo).do = "copy" /\ OpTyped /\ op.made = None /\ DeltaTyped
        /\ At = Head(op.todo).at /\ StepAt(op.call, Head(op.todo)) /\ Rest # <<>>
        /\ Follows(Head(op.todo), Head(Rest)) /\ StepAt(op.call, Head(Rest)) /\ MemTyped(mem) /\ Todo(op.todo)
        /\ \A d \in DOMAIN origin : d \in Nat /\ d < nextDelta
        /\ At \in AnyPath /\ Last(At) \in Names /\ Front(At) \in AnyPath /\ At = Append(Front(At), Last(At)) /\ At \in Named
        /\ At \notin whiteouts
    BY <1>1, Stands
  <1>3. dir = WalkIn(ent, Front(At))
    BY WalkIsIn
  <1>4. /\ op.call.p \in DOMAIN mem.src /\ mem.src[op.call.p] = op.src /\ <<"base", op.src>> \in DOMAIN mem.rev
        /\ ~Has(Rest, {"copy"}) /\ WalkIn(ent, op.call.p) = None
    BY <1>1, LeftOver
  <1>5. Has(Rest, {"move"}) => op.call.p \in AnyPath /\ op.call.q \in AnyPath
    BY <1>1, RenameNames
  <1>6. op' = [op EXCEPT !.todo = Rest, !.made = nextDelta] => Advanced(nextDelta)
    BY <1>2, AdvanceIs
  <1>7. At = op.call.p
    BY <1>2 DEF StepAt
  <1>8. Dir(node, WalkIn(ent, Front(At)))
    <2>1. ParentMade(ent, node, op.todo)
      BY DEF Whole
    <2>2. Dir(node, WalkIn(ent, Front(Head(op.todo).at)))
      <3> DEFINE s == op.todo
                 t == Tail(s)
      <3>1. Todo(s) /\ s # <<>> /\ ParentMade(ent, node, s) /\ Head(s).do = "copy"
        BY <1>2, <2>1
      <3>2. \A A \in AnyPath : Dir(node, WalkIn(ent, A)) => Dir(node, WalkIn(ent, A))
        OBVIOUS
      <3> HIDE DEF s
      <3>3. Head(s).do = "copy" => Dir(node, WalkIn(ent, Front(Head(s).at)))
        BY <3>1, <3>2, ParentMadeRest
      <3> QED BY <3>1, <3>3 DEF s
    <2> QED BY <1>2, <2>2
  <1>9. Head(Rest).do \in {"fill", "origin"} /\ Head(Rest).at = At
    BY <1>2, <1>7 DEF Follows, StepAt
  <1> HIDE DEF Rest, At
  <1>10. Good(ent, node, origin, nextDelta, None, dcache, mem) /\ Tree(ent, node) /\ Hidden(ent, whiteouts)
    BY <1>2 DEF Whole
  <1>11. f = At /\ At \in DOMAIN Base /\ Base[At] \in {"dir", "file", "symlink"}
    <2>1. MemTyped(mem) /\ Numbers(mem)
      BY <1>10 DEF Good, Fits
    <2> QED BY <1>4, <1>7, <2>1, SrcIs, BaseTypes
  <1>12. CASE f \notin DOMAIN Base \/ dir = None
    BY <1>1, <1>2, <1>12, Stops
  <1>13. CASE ~(f \notin DOMAIN Base \/ dir = None)
    <2>1. Advanced(nextDelta) /\ NewNode(WalkIn(ent, Front(At)), Last(At), v)
      BY <1>1, <1>3, <1>6, <1>13
    <2>2. v \in NodeType /\ v.kind = Base[At]
      BY <1>11 DEF NodeType
    <2>3. <<WalkIn(ent, Front(At)), Last(At)>> \notin DOMAIN ent
      <3> DEFINE A == Front(At)
                 n == Last(At)
      <3>1. A \in AnyPath /\ n \in Names /\ At = Append(A, n) /\ WalkIn(ent, At) = None
        BY <1>2, <1>4, <1>7
      <3>2. EntTyped(ent, node)
        BY <1>2, DeltaEnts
      <3> HIDE DEF A, n
      <3>3. WalkIn(ent, Append(A, n)) = IF <<WalkIn(ent, A), n>> \in DOMAIN ent THEN ent[<<WalkIn(ent, A), n>>] ELSE None
        BY <3>1, WalkOn
      <3>4. <<WalkIn(ent, A), n>> \notin DOMAIN ent
        BY <3>1, <3>2, <3>3 DEF EntTyped
      <3> QED BY <3>4 DEF A, n
    <2> HIDE DEF v, f, dir
    <2>4. Leaf(At, v.kind = "dir")
      <3> DEFINE A == Front(At)
                 n == Last(At)
      <3>1. /\ A \in AnyPath /\ n \in Names /\ Dir(node, WalkIn(ent, A)) /\ <<WalkIn(ent, A), n>> \notin DOMAIN ent
            /\ NewNode(WalkIn(ent, A), n, v) /\ At = Append(A, n)
        BY <1>2, <1>8, <2>1, <2>3
      <3> HIDE DEF A, n
      <3>2. Leaf(Append(A, n), v.kind = "dir")
        BY <1>2, <1>10, <2>2, <3>1, NewLeaf
      <3> QED BY <3>1, <3>2
    <2> DEFINE b == v.kind = "dir"
    <2>5. b <=> Base[At] = "dir"
      BY <2>2
    <2>6. Leaf(At, b)
      BY <2>4
    <2> HIDE DEF b
    <2>7. /\ Good(ent', node', origin, nextDelta', nextDelta, dcache, mem)
          /\ \A y \in DOMAIN mem.inode : IsDir(node, mem, y) => IsDir(node', mem, y)
      BY <1>2, <1>10, <2>6, LeafFits
    <2>8. HandsKept(ent, node, dcache, mem, op.call, op.x, ent', node', mem', Rest)
      BY <1>1, <1>5, <1>7, <2>5, <2>6, <2>7, LeafHands
    <2>9. /\ WalkIn(ent', At) = nextDelta /\ (Dir(node', nextDelta) <=> b) /\ nextDelta \in DOMAIN node' /\ nextDelta \notin DOMAIN origin
          /\ nextDelta # None /\ Tree(ent', node')
      <3>1. nextDelta \in Nat
        BY <2>6 DEF Leaf
      <3> QED BY <1>2, <2>6, <3>1 DEF Leaf
    <2>10. MadeFits(ent', node', origin', nextDelta, op.call, Rest)
      <3>1. origin' = origin /\ (Dir(node', nextDelta) <=> Base[op.call.p] = "dir")
        BY <1>1, <1>7, <2>5, <2>9
      <3> QED BY <1>2, <1>9, <2>9, <3>1 DEF MadeFits
    <2>11. SourceKept(mem, op.call, op.src, Head(op.todo).do, ent', mem', Rest)
      BY <1>1, <1>2, <1>4, KeptSame DEF SourceKept
    <2>12. Hidden(ent', whiteouts)
      BY <1>2, <1>10, <2>6, LeafHidden
    <2>13. \A A \in AnyPath : /\ WalkIn(ent', A) \in {None, nextDelta} => WalkIn(ent, A) \in {None, op.made}
                              /\ Dir(node, WalkIn(ent, A)) => Dir(node', WalkIn(ent', A))
      BY <2>6, LeafWalks
    <2>14. Good(ent', node', origin', nextDelta', nextDelta, dcache', mem')
      BY <1>1, <2>7
    <2> QED BY <1>1, <1>2, <2>1, <2>8, <2>9, <2>10, <2>11, <2>12, <2>13, <2>14, Proceeds
  <1> QED BY <1>12, <1>13

LEMMA MakeSound == ASSUME OverlayInv, Whole, Make PROVE Whole'
PROOF
  <1> DEFINE dir == ResolveDeltaParent(mem, op.x)
             v == [kind |-> op.call.what, from |-> <<>>, mod |-> FALSE]
             A == Front(op.call.p)
             k == GetOrCreate(mem, "delta", nextDelta, At)
  <1>1. /\ Doing("create")
        /\ IF dir = None \/ <<dir, Last(At)>> \in DOMAIN ent
           THEN Return("error") /\ UNCHANGED <<ent, node, nextDelta, mem>>
           ELSE NewNode(dir, Last(At), v) /\ mem' = k /\ Advance
        /\ UNCHANGED <<whiteouts, origin, dcache, session, stale>>
    BY DEF Make
  <1>2. /\ op.todo # <<>> /\ ~Ready /\ Head(op.todo).do = "create" /\ OpTyped /\ op.made = None /\ DeltaTyped
        /\ At = Head(op.todo).at /\ StepAt(op.call, Head(op.todo)) /\ MemTyped(mem) /\ Todo(op.todo)
        /\ \A d \in DOMAIN origin : d \in Nat /\ d < nextDelta
        /\ At \in AnyPath /\ Last(At) \in Names /\ Front(At) \in AnyPath /\ At = Append(Front(At), Last(At)) /\ At \in Named
        /\ At \notin whiteouts
        /\ \A p \in DOMAIN dcache : p \in AnyPath /\ dcache[p] \in DOMAIN mem.inode
        /\ \A E, N, O : MadeFits(E, N, O, None, op.call, Rest)
    BY <1>1, Stands
  <1>3. Rest = <<>>
    BY <1>1, JoinsNext
  <1>4. \A S : ~Has(Rest, S)
    BY <1>3, NoneLeft
  <1>5. Advance => Advanced(None)
    BY <1>2, AdvanceIs
  <1>6. /\ op.call.what \in {"file", "dir"} /\ At = op.call.p /\ CachedDir(node, dcache, mem, op.x, A)
        /\ op.call.p \in DOMAIN dcache => mem.inode[dcache[op.call.p]].layer = "delta"
    <2>1. Has(op.todo, {"create"})
      BY <1>2, TailHas
    <2>2. /\ op.call.what \in {"file", "dir"} /\ CachedDir(node, dcache, mem, op.x, Front(op.call.p))
          /\ op.call.p \in DOMAIN dcache => mem.inode[dcache[op.call.p]].layer = "delta"
      BY <2>1 DEF Whole, Hands
    <2> QED BY <1>2, <2>2 DEF StepAt, Target
  <1> HIDE DEF Rest, At
  <1>7. Good(ent, node, origin, nextDelta, None, dcache, mem) /\ Tree(ent, node) /\ Hidden(ent, whiteouts)
    BY <1>2 DEF Whole
  <1>8. dir = WalkIn(ent, A) /\ (WalkIn(ent, A) # None => Dir(node, WalkIn(ent, A)))
    BY <1>2, <1>6, <1>7, ResolveIs DEF CachedDir
  <1>9. CASE dir = None \/ <<dir, Last(At)>> \in DOMAIN ent
    BY <1>1, <1>2, <1>9, Stops
  <1>10. CASE ~(dir = None \/ <<dir, Last(At)>> \in DOMAIN ent)
    <2> DEFINE n == Last(At)
    <2>1. /\ A \in AnyPath /\ n \in Names /\ Dir(node, WalkIn(ent, A)) /\ <<WalkIn(ent, A), n>> \notin DOMAIN ent
          /\ NewNode(WalkIn(ent, A), n, v) /\ At = Append(A, n) /\ v \in NodeType /\ v.kind = op.call.what
      <3>1. v \in NodeType
        BY <1>6 DEF NodeType
      <3> QED BY <1>1, <1>2, <1>6, <1>8, <1>10, <3>1
    <2> HIDE DEF v, A, n, dir
    <2>2. Leaf(At, v.kind = "dir")
      <3>1. Leaf(Append(A, n), v.kind = "dir")
        BY <1>2, <1>7, <2>1, NewLeaf
      <3> QED BY <2>1, <3>1
    <2> DEFINE b == v.kind = "dir"
    <2>3. Leaf(At, b)
      BY <2>2
    <2> HIDE DEF b
    <2>4. /\ Good(ent', node', origin, nextDelta', None, dcache, mem)
          /\ \A y \in DOMAIN mem.inode : IsDir(node, mem, y) => IsDir(node', mem, y)
      <3>1. \A q \in DOMAIN dcache : mem.inode[dcache[q]].layer = "base" => q # At
        BY <1>6
      <3> QED BY <1>2, <1>7, <2>3, <3>1, LeafFits
    <2>5. Fresh(ent', node', origin, nextDelta', mem, "delta", nextDelta, At)
      <3>1. nextDelta < nextDelta' /\ WalkIn(ent', At) = nextDelta
        BY <1>2, <2>3 DEF Leaf
      <3> QED BY <3>1 DEF Fresh
    <2>6. /\ Good(ent', node', origin, nextDelta', None, dcache, k)
          /\ \A y \in DOMAIN mem.inode : IsDir(node', mem, y) => IsDir(node', k, y)
      <3>1. nextDelta \in Nat /\ At \in AnyPath
        BY <2>3 DEF Leaf
      <3> QED BY <2>4, <2>5, <3>1, MoreDelta
    <2>7. Keeps(mem, k)
      <3> DEFINE layer == "delta"
      <3>1. layer \in {"delta", "base"} /\ nextDelta \in Nat /\ layer # "base" /\ k = GetOrCreate(mem, layer, nextDelta, At)
        BY <2>3 DEF Leaf
      <3> HIDE DEF layer, k
      <3> QED BY <1>2, <3>1, GetOrCreateTyped
    <2>8. mem' = k /\ Advanced(None)
      BY <1>1, <1>5, <1>10 DEF dir
    <2> HIDE DEF k
    <2>9. HandsKept(ent, node, dcache, mem, op.call, op.x, ent', node', mem', Rest)
      <3>1. \A z \in DOMAIN mem.inode : k.inode[z] = mem.inode[z] /\ (IsDir(node, mem, z) => IsDir(node', k, z))
        BY <2>4, <2>6, <2>7 DEF Keeps
      <3> QED BY <1>4, <2>8, <3>1 DEF HandsKept
    <2>10. SourceKept(mem, op.call, op.src, Head(op.todo).do, ent', mem', Rest)
      BY <1>2, <1>4, <2>7, <2>8 DEF SourceKept, Keeps
    <2>11. Hidden(ent', whiteouts)
      BY <1>2, <1>7, <2>3, LeafHidden
    <2>12. Tree(ent', node')
      BY <2>3 DEF Leaf
    <2>13. Good(ent', node', origin', nextDelta', None, dcache', mem')
      BY <1>1, <2>6, <2>8
    <2> QED BY <1>1, <1>2, <1>4, <2>8, <2>9, <2>10, <2>11, <2>12, <2>13, Proceeds
  <1> QED BY <1>9, <1>10

-----------------------------------------------------------------------------
(* The steps after which only whiteouts are left to write.                 *)

LEMMA EndsWith ==
    ASSUME OverlayInv, Whole, NEW s, Doing(s), s \in {"remove", "move"}, Advanced(None),
           Tree(ent', node'), Good(ent', node', origin', nextDelta', None, dcache', mem'), Hidden(ent', whiteouts'),
           UNCHANGED <<dcache, mem, whiteouts>>,
           Hands(ent', node', dcache, mem, op.call, op.x, op.y, Rest), WalkIn(ent', op.call.p) = None
    PROVE  Whole'
PROOF
  <1> DEFINE t == Rest
             c == op.call
  <1>1. /\ op'.call = c /\ op'.x = op.x /\ op'.y = op.y /\ op'.src = op.src /\ op'.todo = t /\ op'.made = None
    BY DEF Advanced
  <1>2. op.todo # <<>> /\ Todo(op.todo) /\ Rest = Tail(op.todo) /\ NoneHidden(whiteouts, dcache, mem) /\ Plan(c, op.todo)
        /\ MadeFits(ent', node', origin', None, c, t)
    BY Stands DEF Whole
  <1>3. /\ ~Has(t, {"clear", "parent", "parent_origin", "copy", "fill", "origin", "create", "link", "remove", "move", "touch"})
    BY LeftOver
  <1>4. \A k \in 1..Len(t) : t[k].do \notin {"clear", "parent", "parent_origin", "copy", "fill", "origin", "create", "link", "remove", "move", "touch"}
    BY <1>3 DEF Has
  <1> HIDE DEF Rest
  <1>5. Plan(c, t)
    BY <1>2, PlanRest
  <1>6. Seen(whiteouts', dcache', mem', c, t)
    BY <1>2, SeenIs
  <1>7. Cleared(whiteouts', t)
    BY <1>4 DEF Cleared
  <1>8. ParentMade(ent', node', t)
    BY <1>4 DEF ParentMade
  <1>9. ParentsAreDirs(ent', None, t)
    BY <1>4 DEF ParentsAreDirs
  <1>10. Source(ent', mem', c, op.src, t)
    <2>1. ~Has(t, {"copy", "fill", "origin"}) /\ ~Has(t, {"copy"})
      BY <1>4 DEF Has
    <2> QED BY <2>1 DEF Source
  <1>11. Hands(ent', node', dcache', mem', c, op.x, op.y, t)
    OBVIOUS
  <1> QED BY <1>1, <1>2, <1>5, <1>6, <1>7, <1>8, <1>9, <1>10, <1>11 DEF Whole

\* What a handler that ends with whiteouts goes on relying on.
LEMMA HandsEnd ==
    ASSUME OverlayInv, Whole, NEW s, Doing(s), s \in {"remove", "move"}, NEW F, NEW M,
           CachedDir(M, dcache, mem, op.x, Front(op.call.p)),
           s = "move" => CachedDir(M, dcache, mem, op.y, Front(op.call.q))
    PROVE  Hands(F, M, dcache, mem, op.call, op.x, op.y, Rest)
PROOF
  <1> DEFINE t == Rest
             c == op.call
  <1>1. op.todo # <<>> /\ Todo(op.todo) /\ Head(op.todo).do = s
    BY Stands
  <1>2. Has(op.todo, {s})
    BY <1>1, TailHas
  <1>3. ~Has(t, {"clear", "parent", "parent_origin", "copy", "fill", "origin", "create", "link", "remove", "move", "touch"})
    BY LeftOver
  <1>4. ~Has(t, {"create"}) /\ ~Has(t, {"remove"}) /\ ~Has(t, {"move"}) /\ ~Has(t, {"link"}) /\ ~Has(t, {"origin"}) /\ ~Has(t, {"touch"})
    BY <1>3 DEF Has
  <1> HIDE DEF Rest
  <1>5. Hands(ent, node, dcache, mem, c, op.x, op.y, op.todo)
    BY DEF Whole
  <1>6. c.what = IF s = "remove" THEN "remove" ELSE "rename"
    BY <1>2, <1>5 DEF Hands
  <1>7. c.p \in Named /\ (c.what = "rename" => c.q \in Named /\ ~IsPrefix(c.p, c.q) /\ ~IsPrefix(c.q, c.p))
    BY <1>5, <1>6 DEF Hands
  <1> HIDE DEF c, t
  <1> QED BY <1>4, <1>6, <1>7 DEF Hands, c, t

\* The last name of an inode without entries leaves the delta.
Gone(p, d) ==
    /\ Tree(ent', node')
    /\ \A q \in AnyPath : WalkIn(ent', q) = IF q = p THEN None ELSE WalkIn(ent, q)
    /\ WalkIn(ent, p) = d /\ d # None /\ p \in AnyPath /\ None \notin DOMAIN node
    /\ DOMAIN node' = DOMAIN node \ {d} /\ \A x \in DOMAIN node' : node'[x] = node[x]
    /\ \A q \in AnyPath : WalkIn(ent, q) \in {None} \cup DOMAIN node /\ (WalkIn(ent, q) = d => q = p)

LEMMA NameGone ==
    ASSUME DeltaTyped, Tree(ent, node), NEW A \in AnyPath, NEW n \in Names, NEW e, e = <<WalkIn(ent, A), n>>,
           e \in DOMAIN ent, \A f \in DOMAIN ent : f[1] # ent[e],
           ent' = Drop(ent, {e}), Unbind(e, ent')
    PROVE  Gone(Append(A, n), ent[e])
PROOF
  <1> DEFINE d == ent[e]
             p == Append(A, n)
  <1>1. EntTyped(ent, node) /\ p \in AnyPath
    BY DeltaEnts, PathLonger
  <1>2. \A q \in AnyPath : WalkIn(ent', q) = IF q = p THEN None ELSE WalkIn(ent, q)
    BY <1>1, DropLeaf
  <1>3. WalkIn(ent, p) = d
    BY WalkOn
  <1>4. d # None /\ None \notin DOMAIN node
    BY <1>1 DEF EntTyped
  <1>5. DOMAIN ent' = DOMAIN ent \ {e} /\ \A f \in DOMAIN ent' : ent'[f] = ent[f]
    BY DEF Drop
  <1>6. \A f, g \in DOMAIN ent : ent[f] = ent[g] => f = g
    BY DEF Tree
  <1>7. node' = Drop(node, {d})
    BY <1>5, <1>6 DEF Unbind
  <1>8. DOMAIN node' = DOMAIN node \ {d} /\ \A x \in DOMAIN node' : node'[x] = node[x]
    BY <1>7 DEF Drop
  <1>9. Tree(ent', node')
    <2>1. \A f, g \in DOMAIN ent' : ent'[f] = ent'[g] => f = g
      BY <1>5, <1>6
    <2>2. \A f \in DOMAIN ent' : Dir(node', f[1])
      <3> SUFFICES ASSUME NEW f \in DOMAIN ent' PROVE Dir(node', f[1])
        OBVIOUS
      <3>1. f[1] \in DOMAIN node /\ node[f[1]].kind = "dir" /\ f[1] # d
        BY <1>5 DEF Tree, Dir
      <3>2. f[1] \in DOMAIN node' /\ node'[f[1]] = node[f[1]]
        BY <1>8, <3>1
      <3> QED BY <3>1, <3>2 DEF Dir
    <2> QED BY <2>1, <2>2 DEF Tree
  <1>10. \A q \in AnyPath : WalkIn(ent, q) \in {None} \cup DOMAIN node
    <2>1. 1 \in DOMAIN node /\ \A f \in DOMAIN ent : ent[f] \in DOMAIN node \ {1}
      BY DEF DeltaTyped
    <2> QED BY <2>1, WalkTyped
  <1>11. \A q \in AnyPath : WalkIn(ent, q) = d => q = p
    BY <1>1, <1>3, <1>4, PathUnique
  <1> QED BY <1>1, <1>2, <1>3, <1>4, <1>8, <1>9, <1>10, <1>11 DEF Gone

LEMMA GoneFits ==
    ASSUME NEW p, NEW d, Gone(p, d), NEW dc, NEW m, Good(ent, node, origin, nextDelta, None, dc, m), nextDelta \in Nat,
           \A x \in DOMAIN origin : x \in Nat /\ x < nextDelta
    PROVE  Good(ent', node', origin, nextDelta, None, dc, m)
PROOF
  <1>1. \A x \in DOMAIN node' : x \in DOMAIN node /\ (Dir(node', x) <=> Dir(node, x))
    BY DEF Gone, Dir
  <1>2. \A q \in AnyPath : \A x \in DOMAIN node : Dir(node', x) => (WalkIn(ent', q) = x <=> WalkIn(ent, q) = x)
    <2> SUFFICES ASSUME NEW q \in AnyPath, NEW x \in DOMAIN node, Dir(node', x)
                 PROVE  WalkIn(ent', q) = x <=> WalkIn(ent, q) = x
      OBVIOUS
    <2>1. x # d
      BY DEF Gone, Dir
    <2>2. CASE q # p
      BY <2>2 DEF Gone
    <2>3. CASE q = p
      <3>1. WalkIn(ent', q) = None /\ WalkIn(ent, q) = d
        BY <2>3 DEF Gone
      <3>2. x # None
        BY DEF Gone
      <3> QED BY <2>1, <3>1, <3>2
    <2> QED BY <2>2, <2>3
  <1>3. ASSUME NEW q \in DOMAIN dc, m.inode[dc[q]].layer = "base"
        PROVE  CopyKnown(ent', node', origin, None, q, m.inode[dc[q]].ino)
    <2>1. q \in AnyPath /\ CopyKnown(ent, node, origin, None, q, m.inode[dc[q]].ino)
      BY <1>3 DEF Good, CacheFits, CachedFits
    <2>2. CASE q = p
      <3>1. WalkIn(ent', q) = None
        BY <2>1, <2>2 DEF Gone
      <3> QED BY <3>1 DEF CopyKnown
    <2>3. CASE q # p
      <3>1. /\ WalkIn(ent', q) = WalkIn(ent, q)
            /\ WalkIn(ent, q) \in {None} \cup DOMAIN node /\ WalkIn(ent, q) # d
        BY <2>1, <2>3 DEF Gone
      <3>2. WalkIn(ent, q) # None => WalkIn(ent, q) \in DOMAIN node'
        BY <3>1 DEF Gone
      <3>3. WalkIn(ent, q) # None => (Dir(node', WalkIn(ent, q)) <=> Dir(node, WalkIn(ent, q)))
        BY <1>1, <3>2
      <3> QED BY <2>1, <3>1, <3>3 DEF CopyKnown
    <2> QED BY <2>2, <2>3
  <1> QED BY <1>1, <1>2, <1>3, TreeChanges

\* The directory, at A, that a removal, a rename or its whiteout works in.
LEMMA WorksIn ==
    ASSUME OverlayInv, Whole, NEW s, Doing(s), s \in {"remove", "move", "whiteout"}, NEW A, A = Front(op.call.p)
    PROVE  /\ op.call.what \in {"remove", "rename"} /\ op.call.p \in Named /\ CachedDir(node, dcache, mem, op.x, A)
           /\ s = "remove" => op.call.what = "remove"
           /\ s = "move" => op.call.what = "rename"
           /\ A \in AnyPath /\ Last(op.call.p) \in Names /\ op.call.p = Append(A, Last(op.call.p)) /\ op.call.p \in AnyPath
           /\ s \in {"remove", "whiteout"} => At = op.call.p
           /\ s = "move" => At = op.call.q
           /\ A \in DOMAIN dcache /\ dcache[A] = op.x /\ IsDir(node, mem, op.x)
           /\ ResolveDeltaParent(mem, op.x) = WalkIn(ent, A)
           /\ WalkIn(ent, A) # None => Dir(node, WalkIn(ent, A))
           /\ Good(ent, node, origin, nextDelta, None, dcache, mem) /\ Tree(ent, node) /\ DeltaTyped
PROOF
  <1>1. /\ op.todo # <<>> /\ Todo(op.todo) /\ Head(op.todo).do = s /\ op.made = None /\ DeltaTyped /\ At = Head(op.todo).at
        /\ StepAt(op.call, Head(op.todo))
    BY Stands
  <1>2. Has(op.todo, {s})
    BY <1>1, TailHas
  <1>3. /\ op.call.what \in {"remove", "rename"} /\ op.call.p \in Named /\ CachedDir(node, dcache, mem, op.x, A)
        /\ s = "remove" => op.call.what = "remove"
        /\ s = "move" => op.call.what = "rename"
    BY <1>2 DEF Whole, Hands
  <1>4. A \in AnyPath /\ Last(op.call.p) \in Names /\ op.call.p = Append(A, Last(op.call.p)) /\ op.call.p \in AnyPath
    BY <1>3, PathParts DEF Named, AnyPath
  <1>5. /\ s \in {"remove", "whiteout"} => At = op.call.p
        /\ s = "move" => At = op.call.q
    BY <1>1, <1>3 DEF StepAt, Target
  <1>6. Good(ent, node, origin, nextDelta, None, dcache, mem) /\ Tree(ent, node)
    BY <1>1 DEF Whole
  <1>7. A \in DOMAIN dcache /\ dcache[A] = op.x /\ IsDir(node, mem, op.x)
    BY <1>3 DEF CachedDir
  <1>8. /\ ResolveDeltaParent(mem, op.x) = WalkIn(ent, A)
        /\ WalkIn(ent, A) # None => Dir(node, WalkIn(ent, A))
    BY <1>1, <1>6, <1>7, ResolveIs
  <1> QED BY <1>1, <1>3, <1>4, <1>5, <1>6, <1>7, <1>8

LEMMA RemoveDeltaSound == ASSUME OverlayInv, Whole, RemoveDelta PROVE Whole'
PROOF
  <1> DEFINE p == op.call.p
             A == Front(p)
             n == Last(p)
             e == <<WalkIn(ent, A), n>>
  <1>1. Doing("remove")
    BY DEF RemoveDelta
  <1>2. /\ op.call.what = "remove" /\ p \in Named /\ CachedDir(node, dcache, mem, op.x, A)
        /\ A \in AnyPath /\ n \in Names /\ p = Append(A, n) /\ p \in AnyPath /\ At = p
        /\ A \in DOMAIN dcache /\ dcache[A] = op.x /\ IsDir(node, mem, op.x)
        /\ ResolveDeltaParent(mem, op.x) = WalkIn(ent, A)
        /\ WalkIn(ent, A) # None => Dir(node, WalkIn(ent, A))
        /\ Good(ent, node, origin, nextDelta, None, dcache, mem) /\ Tree(ent, node) /\ DeltaTyped
    BY <1>1, WorksIn
  <1>3. /\ op.todo # <<>> /\ ~Ready /\ OpTyped /\ op.made = None /\ nextDelta \in Nat
        /\ \A d \in DOMAIN origin : d \in Nat /\ d < nextDelta
    <2>1. nextDelta \in Nat
      BY <1>2, BoundsAssumption DEF DeltaTyped
    <2> QED BY <1>1, <2>1, Stands
  <1>4. /\ IF e \notin DOMAIN ent THEN Advance /\ UNCHANGED <<ent, node, answer>>
           ELSE IF HasEntries(ent[e]) THEN Return("error") /\ UNCHANGED <<ent, node>>
           ELSE ent' = Drop(ent, {e}) /\ Unbind(e, ent') /\ Advance /\ UNCHANGED answer
        /\ UNCHANGED <<nextDelta, whiteouts, origin, mem, dcache, session, stale>>
    BY <1>2 DEF RemoveDelta
  <1>5. Advance => Advanced(None)
    BY <1>3, AdvanceIs
  <1>6. Hidden(ent, whiteouts)
    BY DEF Whole
  <1>7. \A F, M : CachedDir(M, dcache, mem, op.x, A) => Hands(F, M, dcache, mem, op.call, op.x, op.y, Rest)
    BY <1>1, HandsEnd
  <1>8. WalkIn(ent, p) = IF e \in DOMAIN ent THEN ent[e] ELSE None
    <2> HIDE DEF p, A, n
    <2> QED BY <1>2, WalkOn
  <1> HIDE DEF p, A, n, Rest, At
  <1>9. CASE e \in DOMAIN ent /\ HasEntries(ent[e])
    BY <1>1, <1>3, <1>4, <1>9, Stops
  <1>10. CASE e \notin DOMAIN ent
    <2>1. Advanced(None) /\ UNCHANGED <<ent, node, nextDelta, whiteouts, origin, mem, dcache>>
      BY <1>4, <1>5, <1>10
    <2>2. WalkIn(ent', op.call.p) = None
      BY <1>8, <1>10, <2>1 DEF p
    <2>3. Hands(ent', node', dcache, mem, op.call, op.x, op.y, Rest)
      BY <1>2, <1>7, <2>1
    <2>4. /\ Tree(ent', node') /\ Good(ent', node', origin', nextDelta', None, dcache', mem') /\ Hidden(ent', whiteouts')
      BY <1>2, <1>6, <2>1
    <2> QED BY <1>1, <2>1, <2>2, <2>3, <2>4, EndsWith
  <1>11. CASE e \in DOMAIN ent /\ ~HasEntries(ent[e])
    <2> DEFINE d == ent[e]
    <2>1. /\ ent' = Drop(ent, {e}) /\ Unbind(e, ent') /\ Advanced(None)
          /\ UNCHANGED <<nextDelta, whiteouts, origin, mem, dcache>>
      BY <1>4, <1>5, <1>11
    <2>2. \A f \in DOMAIN ent : f[1] # d
      BY <1>11 DEF HasEntries
    <2>3. Gone(Append(A, n), d)
      BY <1>2, <1>11, <2>1, <2>2, NameGone
    <2>4. Gone(p, d)
      BY <1>2, <2>3
    <2>5. WalkIn(ent, A) # d
      BY <1>11, <2>2
    <2> HIDE DEF d, e
    <2>6. Good(ent', node', origin', nextDelta', None, dcache', mem')
      <3>1. Good(ent', node', origin, nextDelta, None, dcache, mem)
        BY <1>2, <1>3, <2>4, GoneFits
      <3> QED BY <2>1, <3>1
    <2>7. Hidden(ent', whiteouts')
      BY <1>6, <2>1, <2>4 DEF Hidden, Gone
    <2>8. CachedDir(node', dcache, mem, op.x, A)
      <3>1. op.x \in DOMAIN mem.inode /\ mem.inode[op.x].path = A
        BY <1>2, ResolveIs
      <3>2. CASE mem.inode[op.x].layer = "delta"
        <4>1. Dir(node, mem.inode[op.x].ino)
          BY <1>2, <3>2 DEF IsDir
        <4>2. WalkIn(ent, A) = mem.inode[op.x].ino
          BY <1>2, <3>1, <3>2, <4>1 DEF Good, Fits, DeltaInodes
        <4>3. Dir(node', mem.inode[op.x].ino)
          BY <2>4, <2>5, <4>1, <4>2 DEF Gone, Dir
        <4> QED BY <1>2, <3>2, <4>3 DEF CachedDir, IsDir
      <3>3. CASE mem.inode[op.x].layer # "delta"
        BY <1>2, <3>3 DEF CachedDir, IsDir
      <3> QED BY <3>2, <3>3
    <2>9. Hands(ent', node', dcache, mem, op.call, op.x, op.y, Rest)
      BY <1>7, <2>8
    <2>10. WalkIn(ent', op.call.p) = None /\ Tree(ent', node')
      <3>1. WalkIn(ent', p) = None /\ Tree(ent', node')
        BY <2>4 DEF Gone
      <3> QED BY <3>1 DEF p
    <2> QED BY <1>1, <2>1, <2>6, <2>7, <2>9, <2>10, EndsWith
  <1> QED BY <1>9, <1>10, <1>11

LEMMA CreateWhiteoutSound == ASSUME OverlayInv, Whole, CreateWhiteout PROVE Whole'
PROOF
  <1> DEFINE p == op.call.p
             A == Front(p)
             n == Last(p)
             r == Look(mem, op.x, n)
             c == op.call
  <1>1. Doing("whiteout") /\ Advance
    BY DEF CreateWhiteout
  <1>2. /\ c.what \in {"remove", "rename"} /\ p \in Named /\ CachedDir(node, dcache, mem, op.x, A)
        /\ A \in AnyPath /\ n \in Names /\ p = Append(A, n) /\ p \in AnyPath /\ At = p
        /\ A \in DOMAIN dcache /\ dcache[A] = op.x /\ IsDir(node, mem, op.x)
        /\ Good(ent, node, origin, nextDelta, None, dcache, mem) /\ Tree(ent, node) /\ DeltaTyped
    BY <1>1, WorksIn
  <1>3. /\ op.todo # <<>> /\ ~Ready /\ OpTyped /\ op.made = None /\ NoneHidden(whiteouts, dcache, mem)
        /\ \A q \in DOMAIN dcache : dcache[q] \in DOMAIN mem.inode
    BY <1>1, Stands
  <1>4. /\ whiteouts' \subseteq whiteouts \cup {p} /\ mem' = r.m
        /\ UNCHANGED <<ent, node, nextDelta, origin, answer, dcache, session, stale>>
    BY <1>2 DEF CreateWhiteout
  <1>5. Rest = <<>> /\ WalkIn(ent, p) = None
    BY <1>1, LeftOver
  <1>6. op'.call = c /\ op'.x = op.x /\ op'.y = op.y /\ op'.src = op.src /\ op'.todo = <<>> /\ op'.made = None
    BY <1>1, <1>3, <1>5, AdvanceIs DEF Advanced
  <1>7. Hidden(ent, whiteouts) /\ Hands(ent, node, dcache, mem, c, op.x, op.y, op.todo)
    BY DEF Whole
  <1> HIDE DEF p, A, n, Rest, At
  <1>8. /\ Good(ent, node, origin, nextDelta, None, dcache, r.m)
        /\ \A y \in DOMAIN mem.inode : IsDir(node, mem, y) => IsDir(node, r.m, y)
        /\ Extends(mem, r.m)
    <2>1. r = Look(mem, dcache[A], n) /\ A \in DOMAIN dcache /\ IsDir(node, mem, dcache[A])
      BY <1>2
    <2> HIDE DEF r
    <2>2. LooksUp(dcache, mem, p, r)
      BY <1>2, <2>1, LookGood
    <2> QED BY <2>2 DEF LooksUp
  <1> HIDE DEF r
  <1>9. \A S : ~Has(<<>>, S)
    BY NoneLeft
  <1>10. Seen(whiteouts', dcache, mem', c, <<>>)
    <2> SUFFICES ASSUME NEW q \in DOMAIN dcache, mem'.inode[dcache[q]].layer = "base", q \in whiteouts', q # p
                 PROVE  FALSE
      BY <1>2 DEF Seen, p
    <2>1. q \in whiteouts /\ mem.inode[dcache[q]].layer = "base"
      BY <1>3, <1>4, <1>8 DEF Extends
    <2> QED BY <1>3, <2>1 DEF NoneHidden
  <1>11. Plan(c, <<>>)
    BY DEF Plan
  <1>12. Cleared(whiteouts', <<>>) /\ ParentMade(ent', node', <<>>) /\ ParentsAreDirs(ent', None, <<>>)
    BY DEF Cleared, ParentMade, ParentsAreDirs
  <1>13. MadeFits(ent', node', origin', None, c, <<>>)
    BY DEF MadeFits
  <1>14. Source(ent', mem', c, op.src, <<>>)
    BY <1>9 DEF Source
  <1>15. Hands(ent', node', dcache', mem', c, op.x, op.y, <<>>)
    <2>1. \A z, q : CachedDir(node, dcache, mem, z, q) => CachedDir(node, dcache, r.m, z, q)
      BY <1>3, <1>8 DEF CachedDir
    <2>2. CachedDir(node, dcache, r.m, op.x, Front(c.p)) /\ c.p \in Named
      BY <1>2, <2>1 DEF A, p
    <2>3. c.what = "rename" => /\ CachedDir(node, dcache, r.m, op.y, Front(c.q)) /\ c.q \in Named
                               /\ ~IsPrefix(c.p, c.q) /\ ~IsPrefix(c.q, c.p)
      BY <1>7, <2>1 DEF Hands
    <2> HIDE DEF c
    <2> QED BY <1>2, <1>4, <1>9, <2>2, <2>3 DEF Hands
  <1>16. Hidden(ent', whiteouts')
    BY <1>2, <1>4, <1>5, <1>7 DEF Hidden
  <1>17. Tree(ent', node') /\ Good(ent', node', origin', nextDelta', None, dcache', mem') /\ dcache' = dcache
    BY <1>2, <1>4, <1>8
  <1> HIDE DEF c
  <1> QED BY <1>6, <1>10, <1>11, <1>12, <1>13, <1>14, <1>15, <1>16, <1>17 DEF Whole

LEMMA PrefixOf ==
    ASSUME NEW p \in AnyPath
    PROVE  IsPrefix(p, p) /\ \A n \in Names : IsPrefix(p, Append(p, n))
PROOF
  <1>1. p \in Seq(Names) /\ Len(p) \in Nat /\ \A n \in Names : Append(p, n) \in Seq(Names) /\ Len(Append(p, n)) = Len(p) + 1
    BY DEF AnyPath
  <1>2. \A n \in Names : SubSeq(Append(p, n), 1, Len(p)) = SubSeq(p, 1, Len(p))
    BY <1>1
  <1> QED BY <1>1, <1>2 DEF IsPrefix

LEMMA DropTree ==
    ASSUME NEW E, NEW N, EntTyped(E, N), Tree(E, N), NEW e, NEW F, F = Drop(E, {e})
    PROVE  EntTyped(F, N) /\ Tree(F, N) /\ DOMAIN F = DOMAIN E \ {e} /\ \A g \in DOMAIN F : g \in DOMAIN E /\ F[g] = E[g]
PROOF
  <1>1. DOMAIN F = DOMAIN E \ {e} /\ \A g \in DOMAIN F : g \in DOMAIN E /\ F[g] = E[g]
    BY DEF Drop
  <1>2. EntTyped(F, N)
    BY <1>1 DEF EntTyped
  <1>3. \A g, h \in DOMAIN E : E[g] = E[h] => g = h
    BY DEF Tree
  <1>4. \A g, h \in DOMAIN F : F[g] = F[h] => g = h
    BY <1>1, <1>3
  <1>5. \A g \in DOMAIN E : Dir(N, g[1])
    BY DEF Tree
  <1> QED BY <1>1, <1>2, <1>4, <1>5 DEF Tree

\* The entry e, for p, becomes the entry f, for q.
MoveOf(E, N, A, n, B, k, p, q, e, f, d, F, G, H) ==
    /\ EntTyped(E, N) /\ Tree(E, N) /\ A \in AnyPath /\ n \in Names /\ B \in AnyPath /\ k \in Names
    /\ p = Append(A, n) /\ q = Append(B, k) /\ p # q /\ B # p /\ Dir(N, WalkIn(E, B))
    /\ e = <<WalkIn(E, A), n>> /\ f = <<WalkIn(E, B), k>> /\ e \in DOMAIN E /\ e # f
    /\ d = E[e] /\ ~Dir(N, d) /\ (f \in DOMAIN E => ~Dir(N, E[f]))
    /\ F = Drop(E, {e}) /\ G = Drop(F, {f}) /\ H = Add(G, f, d)

LEMMA MoveWalks ==
    ASSUME NEW E, NEW N, NEW A, NEW n, NEW B, NEW k, NEW p, NEW q, NEW e, NEW f, NEW d, NEW F, NEW G, NEW H,
           MoveOf(E, N, A, n, B, k, p, q, e, f, d, F, G, H)
    PROVE  \A r \in AnyPath : WalkIn(H, r) = IF r = q THEN d ELSE IF r = p THEN None ELSE WalkIn(E, r)
PROOF
  <1> USE DEF MoveOf
  <1>1. /\ \A g \in DOMAIN E : Dir(N, g[1]) /\ E[g] # None
        /\ None \notin DOMAIN N
    BY DEF Tree, EntTyped
  <1>0. B \in AnyPath /\ k \in Names
    OBVIOUS
  <1>2. \A g \in DOMAIN E : g[1] # d /\ (f \in DOMAIN E => g[1] # E[f])
    BY <1>1
  <1>3. EntTyped(F, N) /\ Tree(F, N) /\ DOMAIN F = DOMAIN E \ {e} /\ \A g \in DOMAIN F : g \in DOMAIN E /\ F[g] = E[g]
    BY DropTree
  <1>4. EntTyped(G, N) /\ Tree(G, N) /\ DOMAIN G = DOMAIN F \ {f} /\ \A g \in DOMAIN G : g \in DOMAIN F /\ G[g] = F[g]
    <2>1. G = Drop(F, {f})
      OBVIOUS
    <2> QED BY ONLY <1>3, <2>1, DropTree
  <1>5. \A r \in AnyPath : WalkIn(F, r) = IF r = p THEN None ELSE WalkIn(E, r)
    <2>0. EntTyped(E, N) /\ Tree(E, N) /\ A \in AnyPath /\ n \in Names
      OBVIOUS
    <2>1. \A g \in DOMAIN E : g[1] # E[<<WalkIn(E, A), n>>]
      BY <1>2
    <2>2. F = Drop(E, {<<WalkIn(E, A), n>>}) /\ <<WalkIn(E, A), n>> \in DOMAIN E
      OBVIOUS
    <2>3. \A r \in AnyPath : WalkIn(F, r) = IF r = Append(A, n) THEN None ELSE WalkIn(E, r)
      BY ONLY <2>0, <2>1, <2>2, DropLeaf
    <2> QED BY <2>3
  <1>6. WalkIn(F, B) = WalkIn(E, B)
    BY <1>5
  <1>7. \A r \in AnyPath : WalkIn(G, r) = IF r = q THEN None ELSE WalkIn(F, r)
    <2>1. CASE f \in DOMAIN E
      <3>1. <<WalkIn(F, B), k>> \in DOMAIN F /\ G = Drop(F, {<<WalkIn(F, B), k>>})
        BY <1>3, <1>6, <2>1
      <3>2. \A g \in DOMAIN F : g[1] # F[<<WalkIn(F, B), k>>]
        BY <1>2, <1>3, <1>6, <2>1
      <3>3. \A r \in AnyPath : WalkIn(G, r) = IF r = Append(B, k) THEN None ELSE WalkIn(F, r)
        BY ONLY <1>3, <3>1, <3>2, <1>0, DropLeaf
      <3> QED BY <3>3
    <2>2. CASE f \notin DOMAIN E
      <3>1. G = F
        <4>1. DOMAIN F \ {f} = DOMAIN F
          BY <1>3, <2>2
        <4>2. G = [x \in DOMAIN F |-> F[x]] /\ F = [x \in DOMAIN E \ {e} |-> E[x]]
          BY <4>1 DEF Drop
        <4> QED BY <4>2
      <3>2. WalkIn(E, q) = None /\ q \in AnyPath
        BY <2>2, WalkOn, PathLonger
      <3> QED BY <1>5, <3>1, <3>2
    <2> QED BY <2>1, <2>2
  <1>8. WalkIn(G, B) = WalkIn(E, B)
    <2>1. Len(q) = Len(B) + 1 /\ Len(B) \in Nat
      BY PathLonger DEF AnyPath
    <2>2. B # q
      BY <2>1
    <2> QED BY <1>6, <1>7, <2>2
  <1>9. \A r \in AnyPath : WalkIn(H, r) = IF r = q THEN d ELSE WalkIn(G, r)
    <2>1. <<WalkIn(G, B), k>> \notin DOMAIN G /\ WalkIn(G, B) # None
      BY <1>1, <1>4, <1>8 DEF Dir
    <2>2. d # None /\ d # WalkIn(G, B)
      BY <1>1, <1>8
    <2>3. \A g \in DOMAIN G : g[1] # d
      BY <1>2, <1>3, <1>4
    <2>4. H = Add(G, <<WalkIn(G, B), k>>, d)
      BY <1>8
    <2>5. \A r \in AnyPath : WalkIn(H, r) = IF r = Append(B, k) THEN d ELSE WalkIn(G, r)
      BY ONLY <1>4, <2>1, <2>2, <2>3, <2>4, <1>0, AddLeaf
    <2> QED BY <2>5
  <1> QED BY <1>5, <1>7, <1>9

\* A file, at p, moves to q and replaces what the delta has there.
Moved(p, q, d) ==
    /\ Tree(ent', node')
    /\ \A r \in AnyPath : WalkIn(ent', r) = IF r = q THEN d ELSE IF r = p THEN None ELSE WalkIn(ent, r)
    /\ \A x \in DOMAIN node' : x \in DOMAIN node
    /\ \A x : Dir(node', x) <=> Dir(node, x)
    /\ WalkIn(ent, p) = d /\ ~Dir(node, d) /\ ~Dir(node, WalkIn(ent, q)) /\ ~Dir(node, None)
    /\ p \in AnyPath /\ q \in AnyPath /\ p # q

LEMMA FileMoves ==
    ASSUME DeltaTyped, Tree(ent, node), NEW A \in AnyPath, NEW n \in Names, NEW B \in AnyPath, NEW k \in Names,
           NEW p, p = Append(A, n), NEW q, q = Append(B, k), p # q, B # p, Dir(node, WalkIn(ent, B)),
           NEW e, e = <<WalkIn(ent, A), n>>, NEW f, f = <<WalkIn(ent, B), k>>, e \in DOMAIN ent, ~Dir(node, ent[e]),
           f \in DOMAIN ent => ~Dir(node, ent[f]),
           ent' = Add(Drop(ent, {e}), f, ent[e]),
           IF f \in DOMAIN ent THEN Unbind(f, ent') ELSE node' = node
    PROVE  Moved(p, q, ent[e])
PROOF
  <1> DEFINE d == ent[e]
             F == Drop(ent, {e})
             G == Drop(F, {f})
  <1>1. EntTyped(ent, node) /\ p \in AnyPath /\ q \in AnyPath
    BY DeltaEnts, PathLonger
  <1>2. WalkIn(ent, p) = d /\ WalkIn(ent, q) = IF f \in DOMAIN ent THEN ent[f] ELSE None
    BY WalkOn
  <1>3. /\ \A g, h \in DOMAIN ent : ent[g] = ent[h] => g = h
        /\ \A g \in DOMAIN ent : Dir(node, g[1]) /\ ent[g] # None /\ ent[g] \in DOMAIN node
        /\ None \notin DOMAIN node
    BY <1>1 DEF Tree, EntTyped
  <1>4. e # f
    <2>1. e = f => WalkIn(ent, p) = WalkIn(ent, q) /\ WalkIn(ent, p) # None
      BY <1>2, <1>3
    <2> QED BY <1>1, <2>1, PathUnique
  <1>5. /\ DOMAIN F = DOMAIN ent \ {e} /\ \A g \in DOMAIN F : F[g] = ent[g]
        /\ DOMAIN G = DOMAIN ent \ {e, f} /\ \A g \in DOMAIN G : G[g] = ent[g]
    BY DEF Drop
  <1>6. /\ DOMAIN ent' = (DOMAIN ent \ {e}) \cup {f} /\ ent'[f] = d /\ \A g \in DOMAIN ent \ {e, f} : ent'[g] = ent[g]
    BY <1>5 DEF Add
  <1>7. ent' = Add(G, f, d)
    BY <1>5, <1>4 DEF Add
  <1>14. \A r \in AnyPath : WalkIn(ent', r) = IF r = q THEN d ELSE IF r = p THEN None ELSE WalkIn(ent, r)
    <2>1. e = <<WalkIn(ent, A), n>> /\ f = <<WalkIn(ent, B), k>> /\ e \in DOMAIN ent /\ e # f
      BY <1>4
    <2>2. d = ent[e] /\ ~Dir(node, d) /\ (f \in DOMAIN ent => ~Dir(node, ent[f]))
      BY DEF d
    <2>3. F = Drop(ent, {e}) /\ G = Drop(F, {f}) /\ ent' = Add(G, f, d)
      BY <1>7
    <2>4. Tree(ent, node) /\ EntTyped(ent, node) /\ Dir(node, WalkIn(ent, B)) /\ p # q /\ B # p /\ p = Append(A, n) /\ q = Append(B, k)
      BY <1>1
    <2> HIDE DEF F, G, d
    <2>5. MoveOf(ent, node, A, n, B, k, p, q, e, f, d, F, G, ent')
      BY <2>1, <2>2, <2>3, <2>4 DEF MoveOf
    <2> QED BY ONLY <2>5, MoveWalks
  <1>15. f \in DOMAIN ent => node' = Drop(node, {ent[f]})
    <2> SUFFICES ASSUME f \in DOMAIN ent PROVE ~ \E g \in DOMAIN ent' : ent'[g] = ent[f]
      BY DEF Unbind
    <2>1. ent[f] # d
      BY <1>3, <1>4 DEF d
    <2> QED BY <1>3, <1>6, <2>1
  <1>16. \A x : Dir(node', x) <=> Dir(node, x)
    BY <1>15 DEF Dir, Drop
  <1>17. \A x \in DOMAIN node' : x \in DOMAIN node
    BY <1>15 DEF Drop
  <1>18. Tree(ent', node')
    <2>1. \A g, h \in DOMAIN ent' : ent'[g] = ent'[h] => g = h
      <3> SUFFICES ASSUME NEW g \in DOMAIN ent', NEW h \in DOMAIN ent', ent'[g] = ent'[h] PROVE g = h
        OBVIOUS
      <3>1. \A i \in DOMAIN ent \ {e, f} : ent[i] # d
        BY <1>3 DEF d
      <3>2. CASE g = f \/ h = f
        BY <1>6, <3>1, <3>2
      <3>3. CASE g # f /\ h # f
        <4>1. g \in DOMAIN ent \ {e, f} /\ h \in DOMAIN ent \ {e, f}
          BY <1>6, <3>3
        <4> QED BY <1>3, <1>6, <4>1
      <3> QED BY <3>2, <3>3
    <2>2. \A g \in DOMAIN ent' : Dir(node', g[1])
      BY <1>3, <1>6, <1>16
    <2> QED BY <2>1, <2>2 DEF Tree
  <1>19. ~Dir(node, d) /\ ~Dir(node, WalkIn(ent, q)) /\ ~Dir(node, None)
    BY <1>2, <1>3 DEF Dir, d
  <1> QED BY <1>1, <1>2, <1>14, <1>16, <1>17, <1>18, <1>19 DEF Moved, d

LEMMA MovedFits ==
    ASSUME NEW p, NEW q, NEW d, Moved(p, q, d), NEW dc, NEW m, Good(ent, node, origin, nextDelta, None, dc, m), nextDelta \in Nat,
           \A x \in DOMAIN origin : x \in Nat /\ x < nextDelta,
           q \in DOMAIN dc /\ m.inode[dc[q]].layer = "base" /\ Base[q] = "dir" => WalkIn(ent, q) # None
    PROVE  Good(ent', node', origin, nextDelta, None, dc, m)
PROOF
  <1>1. \A x \in DOMAIN node' : x \in DOMAIN node /\ (Dir(node', x) <=> Dir(node, x))
    BY DEF Moved
  <1>2. \A r \in AnyPath : \A x \in DOMAIN node : Dir(node', x) => (WalkIn(ent', r) = x <=> WalkIn(ent, r) = x)
    <2> SUFFICES ASSUME NEW r \in AnyPath, NEW x \in DOMAIN node, Dir(node, x)
                 PROVE  WalkIn(ent', r) = x <=> WalkIn(ent, r) = x
      BY DEF Moved
    <2>1. x # d /\ x # WalkIn(ent, q) /\ x # None
      BY DEF Moved
    <2>2. CASE r = q
      <3>1. WalkIn(ent', r) = d
        BY <2>2 DEF Moved
      <3> QED BY <2>1, <2>2, <3>1
    <2>3. CASE r = p
      <3>1. WalkIn(ent', r) = None /\ WalkIn(ent, r) = d
        BY <2>3 DEF Moved
      <3> QED BY <2>1, <3>1
    <2>4. CASE r # p /\ r # q
      BY <2>4 DEF Moved
    <2> QED BY <2>2, <2>3, <2>4
  <1>3. ASSUME NEW r \in DOMAIN dc, m.inode[dc[r]].layer = "base"
        PROVE  CopyKnown(ent', node', origin, None, r, m.inode[dc[r]].ino)
    <2>1. r \in AnyPath /\ CopyKnown(ent, node, origin, None, r, m.inode[dc[r]].ino)
      BY <1>3 DEF Good, CacheFits, CachedFits
    <2>2. CASE r = q
      <3>1. WalkIn(ent', r) = d /\ ~Dir(node', d)
        BY <2>2 DEF Moved
      <3>2. Base[r] # "dir"
        <4> SUFFICES ASSUME Base[r] = "dir" PROVE FALSE
          OBVIOUS
        <4>1. WalkIn(ent, q) # None
          BY <1>3, <2>2
        <4>2. Dir(node, WalkIn(ent, q))
          BY <2>1, <2>2, <4>1 DEF CopyKnown
        <4> QED BY <4>2 DEF Moved
      <3> QED BY <3>1, <3>2 DEF CopyKnown
    <2>3. CASE r = p
      <3>1. WalkIn(ent', r) = None
        BY <2>3 DEF Moved
      <3> QED BY <3>1 DEF CopyKnown
    <2>4. CASE r # p /\ r # q
      <3>1. WalkIn(ent', r) = WalkIn(ent, r) /\ (Dir(node', WalkIn(ent, r)) <=> Dir(node, WalkIn(ent, r)))
        BY <2>1, <2>4 DEF Moved
      <3> QED BY <2>1, <3>1 DEF CopyKnown
    <2> QED BY <2>2, <2>3, <2>4
  <1> QED BY <1>1, <1>2, <1>3, TreeChanges

LEMMA MoveSound == ASSUME OverlayInv, Whole, Move, ~stale' PROVE Whole'
PROOF
  <1> DEFINE p == op.call.p
             q == op.call.q
             A == Front(p)
             n == Last(p)
             B == Front(q)
             k == Last(q)
             e == <<WalkIn(ent, A), n>>
             f == <<WalkIn(ent, B), k>>
             clash == /\ f \in DOMAIN ent
                      /\ \/ HasEntries(ent[f])
                         \/ (node[ent[f]].kind = "dir") # (node[ent[e]].kind = "dir")
  <1>1. Doing("move")
    BY DEF Move
  <1>2. /\ op.call.what = "rename" /\ p \in Named /\ CachedDir(node, dcache, mem, op.x, A)
        /\ A \in AnyPath /\ n \in Names /\ p = Append(A, n) /\ p \in AnyPath /\ At = q
        /\ ResolveDeltaParent(mem, op.x) = WalkIn(ent, A)
        /\ Good(ent, node, origin, nextDelta, None, dcache, mem) /\ Tree(ent, node) /\ DeltaTyped
    BY <1>1, WorksIn
  <1>3. /\ op.todo # <<>> /\ ~Ready /\ OpTyped /\ op.made = None /\ nextDelta \in Nat /\ q \notin whiteouts
        /\ Todo(op.todo) /\ Head(op.todo).do = "move"
        /\ \A d \in DOMAIN origin : d \in Nat /\ d < nextDelta
    <2>1. nextDelta \in Nat
      BY <1>2, BoundsAssumption DEF DeltaTyped
    <2> QED BY <1>1, <1>2, <2>1, Stands
  <1>4. /\ q \in Named /\ CachedDir(node, dcache, mem, op.y, B) /\ ~IsPrefix(p, q) /\ ~IsPrefix(q, p)
        /\ q \in DOMAIN dcache /\ mem.inode[dcache[q]].layer = "base" /\ Base[q] = "dir" /\ WalkIn(ent, q) = None =>
             IF WalkIn(ent, p) = None THEN p \in DOMAIN Base /\ Base[p] = "dir" ELSE Dir(node, WalkIn(ent, p))
    <2>1. Has(op.todo, {"move"})
      BY <1>3, TailHas
    <2> QED BY <1>2, <2>1 DEF Whole, Hands
  <1>5. B \in AnyPath /\ k \in Names /\ q = Append(B, k) /\ q \in AnyPath
    BY <1>4, PathParts DEF Named, AnyPath
  <1>6. Hidden(ent, whiteouts)
    BY DEF Whole
  <1>7. \A F, M : CachedDir(M, dcache, mem, op.x, A) /\ CachedDir(M, dcache, mem, op.y, B) => Hands(F, M, dcache, mem, op.call, op.x, op.y, Rest)
    BY <1>1, HandsEnd
  <1>8. Advance => Advanced(None)
    BY <1>3, AdvanceIs
  <1>9. /\ ResolveDeltaParent(mem, op.y) = WalkIn(ent, B)
        /\ WalkIn(ent, B) # None => Dir(node, WalkIn(ent, B))
    <2>1. B \in DOMAIN dcache /\ dcache[B] = op.y /\ IsDir(node, mem, dcache[B])
      BY <1>4 DEF CachedDir
    <2> QED BY <1>2, <2>1, ResolveIs
  <1>10. /\ IF e \notin DOMAIN ent \/ WalkIn(ent, B) = None \/ clash
            THEN Return("error") /\ UNCHANGED <<ent, node>>
            ELSE /\ ent' = Add(Drop(ent, {e}), f, ent[e])
                 /\ IF f \in DOMAIN ent THEN Unbind(f, ent') ELSE UNCHANGED node
                 /\ Advance
         /\ stale' = (stale \/ (e \in DOMAIN ent /\ node[ent[e]].kind = "dir"))
         /\ UNCHANGED <<nextDelta, whiteouts, origin, mem, dcache, session>>
    BY <1>2, <1>9 DEF Move
  <1>11. p # q /\ B # p
    BY <1>2, <1>4, <1>5, PrefixOf
  <1>12. WalkIn(ent, p) = IF e \in DOMAIN ent THEN ent[e] ELSE None
    <2> HIDE DEF p, A, n
    <2> QED BY <1>2, WalkOn
  <1> HIDE DEF p, q, A, n, B, k, Rest, At
  <1>13. CASE e \notin DOMAIN ent \/ WalkIn(ent, B) = None \/ clash
    BY <1>1, <1>3, <1>10, <1>13, Stops
  <1>14. CASE ~(e \notin DOMAIN ent \/ WalkIn(ent, B) = None \/ clash)
    <2> DEFINE d == ent[e]
    <2>1. /\ ent' = Add(Drop(ent, {e}), f, d) /\ (IF f \in DOMAIN ent THEN Unbind(f, ent') ELSE node' = node)
          /\ Advanced(None) /\ UNCHANGED <<nextDelta, whiteouts, origin, mem, dcache>> /\ e \in DOMAIN ent
          /\ Dir(node, WalkIn(ent, B))
      BY <1>8, <1>9, <1>10, <1>14
    <2>2. ~Dir(node, d) /\ (f \in DOMAIN ent => ~Dir(node, ent[f]))
      <3>1. node[d].kind # "dir"
        BY <1>10, <2>1
      <3>2. f \in DOMAIN ent => node[ent[f]].kind # "dir"
        BY <1>14, <3>1
      <3> QED BY <3>1, <3>2 DEF Dir
    <2>3. Moved(p, q, d)
      BY <1>2, <1>5, <1>11, <2>1, <2>2, FileMoves
    <2>4. WalkIn(ent, p) = d /\ d # None
      <3>1. EntTyped(ent, node)
        BY <1>2, DeltaEnts
      <3> QED BY <1>12, <2>1, <3>1 DEF EntTyped
    <2> HIDE DEF d, e, f, clash
    <2>5. Good(ent', node', origin', nextDelta', None, dcache', mem')
      <3>1. q \in DOMAIN dcache /\ mem.inode[dcache[q]].layer = "base" /\ Base[q] = "dir" => WalkIn(ent, q) # None
        BY <1>4, <2>2, <2>4
      <3>2. Good(ent', node', origin, nextDelta, None, dcache, mem)
        BY <1>2, <1>3, <2>3, <3>1, MovedFits
      <3> QED BY <2>1, <3>2
    <2>6. Hidden(ent', whiteouts')
      BY <1>3, <1>6, <2>1, <2>3 DEF Hidden, Moved
    <2>7. \A z, r : CachedDir(node, dcache, mem, z, r) => CachedDir(node', dcache, mem, z, r)
      BY <2>3 DEF Moved, CachedDir, IsDir
    <2>8. Hands(ent', node', dcache, mem, op.call, op.x, op.y, Rest)
      BY <1>2, <1>4, <1>7, <2>7
    <2>9. WalkIn(ent', op.call.p) = None /\ Tree(ent', node')
      <3>1. WalkIn(ent', p) = None /\ Tree(ent', node')
        BY <2>3 DEF Moved
      <3> QED BY <3>1 DEF p
    <2> QED BY <1>1, <2>1, <2>5, <2>6, <2>8, <2>9, EndsWith
  <1> QED BY <1>13, <1>14

-----------------------------------------------------------------------------
(* What the kernel holds, and the end of a handler.                        *)

LEMMA CacheMore ==
    ASSUME NEW E, NEW N, NEW O, NEW nd, NEW mk, NEW dc, NEW m, Good(E, N, O, nd, mk, dc, m),
           NEW p \in AnyPath, NEW x \in DOMAIN m.inode, CachedFits(E, N, O, mk, m, x, p)
    PROVE  Good(E, N, O, nd, mk, Add(dc, p, x), m)
PROOF
  <1>1. CacheFits(E, N, O, mk, dc, m)
    BY DEF Good
  <1>2. DOMAIN Add(dc, p, x) = DOMAIN dc \cup {p} /\ \A q \in DOMAIN dc \cup {p} : Add(dc, p, x)[q] = IF q = p THEN x ELSE dc[q]
    BY DEF Add
  <1>3. CacheFits(E, N, O, mk, Add(dc, p, x), m)
    BY <1>1, <1>2 DEF CacheFits
  <1> QED BY <1>3 DEF Good

LEMMA CacheLess ==
    ASSUME NEW E, NEW N, NEW O, NEW nd, NEW mk, NEW dc, NEW m, Good(E, N, O, nd, mk, dc, m), NEW S
    PROVE  Good(E, N, O, nd, mk, Drop(dc, S), m)
PROOF
  <1>1. CacheFits(E, N, O, mk, dc, m)
    BY DEF Good
  <1>2. DOMAIN Drop(dc, S) = DOMAIN dc \ S /\ \A q \in DOMAIN dc \ S : Drop(dc, S)[q] = dc[q]
    BY DEF Drop
  <1>3. CacheFits(E, N, O, mk, Drop(dc, S), m)
    BY <1>1, <1>2 DEF CacheFits
  <1> QED BY <1>3 DEF Good

LEMMA ReplySound == ASSUME OverlayInv, Whole, Reply PROVE Whole'
PROOF
  <1> DEFINE c == op.call
             p == c.p
             A == Front(p)
             n == Last(p)
             e == <<ResolveDeltaParent(mem, op.x), n>>
             made == mem.rev[<<"delta", ent[e]>>]
             S == Below(c.p) \cup Below(c.q)
  <1>1. /\ op.todo = <<>> /\ op' = NoOp /\ UNCHANGED <<ent, node, nextDelta, whiteouts, origin, mem>>
        /\ dcache' = CASE c.what \in {"file", "dir"} -> Add(dcache, c.p, made)
                      [] c.what = "link" -> Add(dcache, c.q, op.y)
                      [] c.what \in {"remove", "rename"} -> Drop(dcache, S)
                      [] OTHER -> dcache
    BY DEF Reply, durable, Return
  <1>2. DeltaTyped /\ MemTyped(mem) /\ Creates
    BY DEF OverlayInv
  <1>3. op.made = None /\ Tree(ent, node) /\ Good(ent, node, origin, nextDelta, None, dcache, mem) /\ Hidden(ent, whiteouts)
    BY <1>1 DEF Whole, MadeFits
  <1>4. Hands(ent, node, dcache, mem, c, op.x, op.y, <<>>) /\ Seen(whiteouts, dcache, mem, c, <<>>)
    BY <1>1 DEF Whole
  <1> HIDE DEF c
  <1>5. c.what # "link"
    BY <1>4, NoneLeft DEF Hands
  <1>6. c.what \in {"file", "dir", "remove", "rename"} => p \in Named /\ p \in AnyPath /\ CachedDir(node, dcache, mem, op.x, A)
    BY <1>4 DEF Hands, Named, AnyPath
  <1>7. CASE c.what \in {"file", "dir"}
    <2>1. dcache' = Add(dcache, p, made)
      <3> HIDE DEF made, S, p
      <3> QED BY <1>1, <1>7, Zenon DEF p
    <2>2. e \in DOMAIN ent /\ <<"delta", ent[e]>> \in DOMAIN mem.rev
      BY <1>1, <1>2, <1>7 DEF Creates, Makes, c
    <2>3. p \in AnyPath /\ A \in AnyPath /\ n \in Names /\ p = Append(A, n)
      BY <1>6, <1>7, PathParts
    <2>4. A \in DOMAIN dcache /\ dcache[A] = op.x /\ IsDir(node, mem, dcache[A])
      BY <1>6, <1>7 DEF CachedDir
    <2>5. ResolveDeltaParent(mem, op.x) = WalkIn(ent, A)
      BY <1>2, <1>3, <2>4, ResolveIs
    <2> HIDE DEF A, n, p
    <2>6. WalkIn(ent, p) = ent[e]
      BY <2>2, <2>3, <2>5, WalkOn
    <2>7. EntTyped(ent, node) /\ ent[e] \in DOMAIN node
      BY <1>2, <2>2, DeltaEnts DEF EntTyped
    <2> HIDE DEF e
    <2>8. made \in DOMAIN mem.inode /\ mem.inode[made].layer = "delta" /\ CachedFits(ent, node, origin, None, mem, made, p)
      <3> DEFINE d == ent[e]
      <3>1. d \in DOMAIN node /\ WalkIn(ent, p) = d /\ <<"delta", d>> \in DOMAIN mem.rev /\ made = mem.rev[<<"delta", d>>]
        BY <2>2, <2>6, <2>7
      <3> HIDE DEF d, made
      <3> QED BY <1>3, <2>3, <2>7, <3>1, FitsAtDelta
    <2> HIDE DEF made
    <2>9. Good(ent, node, origin, nextDelta, None, dcache', mem)
      BY <1>3, <2>1, <2>3, <2>8, CacheMore
    <2>10. NoneHidden(whiteouts, dcache', mem)
      <3>1. NoneHidden(whiteouts, dcache, mem)
        BY <1>4, <1>7, SeenIs
      <3> QED BY <2>1, <2>8, <3>1 DEF NoneHidden, Add
    <2> QED BY <1>1, <1>3, <2>9, <2>10, Quiet
  <1>8. CASE c.what \in {"remove", "rename"}
    <2>1. dcache' = Drop(dcache, S)
      <3> HIDE DEF made, S, p
      <3> QED BY <1>1, <1>8, Zenon
    <2>2. Good(ent, node, origin, nextDelta, None, dcache', mem)
      BY <1>3, <2>1, CacheLess
    <2>3. p \in DOMAIN dcache => p \in S
      <3>1. SubSeq(p, 1, Len(p)) = p /\ Len(p) >= Len(p)
        BY <1>6, <1>8 DEF AnyPath
      <3> QED BY <3>1 DEF Below
    <2>4. NoneHidden(whiteouts, dcache', mem)
      BY <1>4, <2>1, <2>3 DEF NoneHidden, Seen, Drop
    <2> QED BY <1>1, <1>3, <2>2, <2>4, Quiet
  <1>9. CASE c.what \notin {"file", "dir", "link", "remove", "rename"}
    <2>1. dcache' = dcache
      <3> HIDE DEF made, S, p
      <3> QED BY <1>1, <1>9, Zenon
    <2>2. NoneHidden(whiteouts, dcache, mem)
      BY <1>4, <1>9, SeenIs
    <2> QED BY <1>1, <1>3, <2>1, <2>2, Quiet
  <1> QED BY <1>5, <1>7, <1>8, <1>9

LEMMA FailSound == ASSUME OverlayInv, Whole, Fail, ~stale' PROVE Whole'
PROOF
  <1>1. /\ ~Ready /\ op.todo # <<>> /\ op' = NoOp /\ UNCHANGED <<ent, node, nextDelta, whiteouts, origin, mem, dcache>>
        /\ stale' = (stale \/ CutShort)
    BY DEF Fail, Return, durable
  <1>2. op.made = None
    BY <1>1 DEF CutShort
  <1>3. NoneHidden(whiteouts, dcache, mem)
    BY <1>1, SeenIs DEF Whole
  <1> QED BY <1>1, <1>2, <1>3, Quiet DEF Whole

\* A base path is forgotten that no cached name but its own needs.
LEMMA Forgets ==
    ASSUME NEW E, NEW N, NEW O, NEW nd, NEW mk, NEW dc, NEW m, Good(E, N, O, nd, mk, dc, m), NEW p, p \notin DOMAIN dc,
           NEW k, k = [m EXCEPT !.src = Drop(@, {p})]
    PROVE  Good(E, N, O, nd, mk, dc, k)
PROOF
  <1>1. /\ IsMem(k) /\ k.inode = m.inode /\ k.rev = m.rev /\ k.path = m.path /\ k.next = m.next /\ k.nextSrc = m.nextSrc
        /\ k.src = Drop(m.src, {p})
    BY DEF Good, MemTyped, IsMem
  <1>2. /\ DOMAIN k.src = DOMAIN m.src \ {p} /\ \A q \in DOMAIN k.src : q \in DOMAIN m.src /\ k.src[q] = m.src[q]
    BY <1>1 DEF Drop
  <1>3. MemTyped(m) /\ Fits(E, N, O, nd, m) /\ CacheFits(E, N, O, mk, dc, m)
    BY DEF Good
  <1>4. MemTyped(k)
    BY <1>1, <1>2, <1>3 DEF MemTyped
  <1>5. \A b, d : OfKind(N, O, m, b, d) => OfKind(N, O, k, b, d)
    BY <1>2 DEF OfKind
  <1>6. DeltaKeys(N, nd, k)
    BY <1>1, <1>3 DEF Fits, DeltaKeys
  <1>7. BaseKeys(N, O, k)
    BY <1>1, <1>3, <1>5 DEF Fits, BaseKeys
  <1>8. DeltaInodes(E, N, nd, k)
    BY <1>1, <1>3 DEF Fits, DeltaInodes
  <1>9. BaseInodes(N, O, k)
    BY <1>1, <1>2, <1>3 DEF Fits, BaseInodes
  <1>10. Numbers(k)
    BY <1>1, <1>2, <1>3 DEF Fits, Numbers
  <1>11. Origins(E, N, O, k)
    <2>1. Origins(E, N, O, m)
      BY <1>3 DEF Fits
    <2>2. \A d \in Copies(N, O) : \A q \in DOMAIN k.src : k.src[q] = O[d] => q \in DOMAIN m.src /\ m.src[q] = O[d]
      BY <1>2
    <2> SUFFICES ASSUME NEW d \in Copies(N, O)
                 PROVE  /\ O[d] \in Nat /\ O[d] < m.nextSrc
                        /\ \A q \in DOMAIN k.src : k.src[q] = O[d] =>
                              ((Dir(N, d) <=> Base[q] = "dir") /\ (Dir(N, d) => WalkIn(E, q) = d))
                        /\ \A e \in Copies(N, O) : O[d] = O[e] => Alike(N, d, e) /\ (Dir(N, d) => d = e)
                        /\ ~Dir(N, d) => <<"base", O[d]>> \in DOMAIN m.rev
                        /\ Dir(N, d) => \A q \in Named : WalkIn(E, q) = d => (q \in DOMAIN Base /\ Base[q] = "dir")
      BY <1>1 DEF Origins
    <2>3. \A q \in DOMAIN k.src : k.src[q] = O[d] => ((Dir(N, d) <=> Base[q] = "dir") /\ (Dir(N, d) => WalkIn(E, q) = d))
      BY <2>1, <2>2 DEF Origins
    <2> QED BY <2>1, <2>3 DEF Origins
  <1>12. \A x : IsDir(N, k, x) => IsDir(N, m, x)
    BY <1>1, <1>2 DEF IsDir
  <1>13. ASSUME NEW q \in DOMAIN dc PROVE CachedFits(E, N, O, mk, k, dc[q], q)
    <2>1. CachedFits(E, N, O, mk, m, dc[q], q) /\ q # p
      BY <1>3 DEF CacheFits
    <2>2. IsDir(N, k, dc[q]) => k.inode[dc[q]].path = q
      BY <1>1, <1>12, <2>1 DEF CachedFits
    <2>3. k.inode[dc[q]].layer = "base" =>
             /\ q \in DOMAIN k.src /\ k.src[q] = k.inode[dc[q]].ino /\ k.inode[dc[q]].path = q
             /\ CopyKnown(E, N, O, mk, q, k.inode[dc[q]].ino)
      <3>1. m.inode[dc[q]].layer = "base" =>
             /\ q \in DOMAIN m.src /\ m.src[q] = m.inode[dc[q]].ino /\ m.inode[dc[q]].path = q
             /\ CopyKnown(E, N, O, mk, q, m.inode[dc[q]].ino)
        BY <2>1 DEF CachedFits
      <3> QED BY <1>1, <1>2, <2>1, <3>1
    <2>4. \A l \in DOMAIN k.rev : l[1] = "base" /\ k.rev[l] = dc[q] =>
             /\ \A d \in Copies(N, O) : Dir(N, d) /\ O[d] = l[2] => WalkIn(E, q) = d
             /\ \A r \in DOMAIN k.src : k.src[r] = l[2] /\ Base[r] = "dir" => r = q
      <3> SUFFICES ASSUME NEW l \in DOMAIN m.rev, l[1] = "base", m.rev[l] = dc[q]
                   PROVE  /\ \A d \in Copies(N, O) : Dir(N, d) /\ O[d] = l[2] => WalkIn(E, q) = d
                          /\ \A r \in DOMAIN k.src : k.src[r] = l[2] /\ Base[r] = "dir" => r = q
        BY <1>1
      <3>1. /\ \A d \in Copies(N, O) : Dir(N, d) /\ O[d] = l[2] => WalkIn(E, q) = d
            /\ \A r \in DOMAIN m.src : m.src[r] = l[2] /\ Base[r] = "dir" => r = q
        BY <2>1 DEF CachedFits
      <3> QED BY <1>2, <3>1
    <2> QED BY <2>2, <2>3, <2>4 DEF CachedFits
  <1>14. CacheFits(E, N, O, mk, dc, k)
    BY <1>1, <1>3, <1>13 DEF CacheFits
  <1> QED BY <1>4, <1>6, <1>7, <1>8, <1>9, <1>10, <1>11, <1>14 DEF Good, Fits

\* Between handlers.
LEMMA Idling ==
    ASSUME OverlayInv, Whole, Ready
    PROVE  /\ op = NoOp /\ op.made = None /\ Tree(ent, node) /\ Good(ent, node, origin, nextDelta, None, dcache, mem)
           /\ Hidden(ent, whiteouts) /\ NoneHidden(whiteouts, dcache, mem)
           /\ DeltaTyped /\ MemTyped(mem) /\ \A q \in DOMAIN dcache : dcache[q] \in DOMAIN mem.inode /\ q \in AnyPath
PROOF
  <1>1. op = NoOp /\ DeltaTyped /\ MemTyped(mem)
    BY DEF OverlayInv, OpTyped
  <1>2. op.made = None /\ op.call.what = "idle"
    BY <1>1, Idles
  <1>3. Tree(ent, node) /\ Good(ent, node, origin, nextDelta, None, dcache, mem) /\ Hidden(ent, whiteouts)
    BY <1>2 DEF Whole
  <1>4. NoneHidden(whiteouts, dcache, mem)
    BY <1>2, SeenIs DEF Whole
  <1>5. \A q \in DOMAIN dcache : dcache[q] \in DOMAIN mem.inode /\ q \in AnyPath
    BY <1>3 DEF Good, CacheFits
  <1> QED BY <1>1, <1>2, <1>3, <1>4, <1>5

LEMMA ForgetSound == ASSUME NEW p, OverlayInv, Whole, Forget(p) PROVE Whole'
PROOF
  <1> DEFINE i == mem.inode[dcache[p]]
             dc == Drop(dcache, {p})
  <1>1. /\ Ready /\ p \in DOMAIN dcache /\ dcache' = dc /\ UNCHANGED <<ent, node, nextDelta, whiteouts, origin, op>>
        /\ \/ UNCHANGED mem
           \/ i.layer = "base" /\ mem' = [mem EXCEPT !.src = Drop(@, {SrcPath(mem, i.ino)})]
    BY DEF Forget, durable, Known
  <1>2. /\ op = NoOp /\ Tree(ent, node) /\ Good(ent, node, origin, nextDelta, None, dcache, mem)
        /\ Hidden(ent, whiteouts) /\ NoneHidden(whiteouts, dcache, mem) /\ MemTyped(mem)
    BY <1>1, Idling
  <1>3. Good(ent, node, origin, nextDelta, None, dc, mem) /\ p \notin DOMAIN dc
    BY <1>2, CacheLess DEF Drop
  <1>4. i.layer = "base" => SrcPath(mem, i.ino) = p
    <2> SUFFICES ASSUME i.layer = "base" PROVE SrcPath(mem, i.ino) = p
      OBVIOUS
    <2>1. p \in DOMAIN mem.src /\ mem.src[p] = i.ino /\ Numbers(mem)
      BY <1>1, <1>2 DEF Good, CacheFits, CachedFits, Fits
    <2> QED BY <1>2, <2>1, SrcIs
  <1> HIDE DEF dc, i
  <1>5. Good(ent, node, origin, nextDelta, None, dc, mem')
    BY <1>1, <1>3, <1>4, Forgets
  <1>6. mem'.inode = mem.inode
    BY <1>1, <1>2 DEF MemTyped, IsMem
  <1>7. NoneHidden(whiteouts, dc, mem')
    BY <1>2, <1>6 DEF NoneHidden, Drop, dc
  <1> QED BY <1>1, <1>2, <1>5, <1>7, Quiet

-----------------------------------------------------------------------------
(* A fresh mount, and the calls that change nothing but the maps.          *)

LEMMA FreshMaps ==
    ASSUME NEW E, NEW N, NEW O, DOMAIN O = {}, NEW nd \in Nat, nd >= 2, NEW dc, DOMAIN dc = {Root}, dc[Root] = 1
    PROVE  Good(E, N, O, nd, None, dc, Memory) /\ Memory.inode[1].layer = "delta"
PROOF
  <1>1. /\ Memory.next = 2 /\ Memory.nextSrc = 2 /\ Root = <<>>
        /\ Memory.inode = [x \in {1} |-> [layer |-> "delta", ino |-> 1, path |-> Root]]
        /\ Memory.rev = [k \in {<<"delta", 1>>} |-> 1] /\ Memory.src = [p \in {} |-> None]
    BY DEF Memory, Root
  <1>2. /\ DOMAIN Memory.inode = {1} /\ Memory.inode[1].layer = "delta" /\ Memory.inode[1].ino = 1 /\ Memory.inode[1].path = <<>>
        /\ DOMAIN Memory.rev = {<<"delta", 1>>} /\ Memory.rev[<<"delta", 1>>] = 1
        /\ DOMAIN Memory.src = {}
    BY <1>1
  <1>3. MemTyped(Memory) /\ Copies(N, O) = {} /\ WalkIn(E, <<>>) = 1
    BY NewMaps, WalkStart DEF Copies
  <1> HIDE DEF Memory
  <1>4. \A k \in DOMAIN Memory.rev : k[1] = "delta" /\ k[2] = 1 /\ Memory.rev[k] = 1
    BY <1>2
  <1>5. DeltaKeys(N, nd, Memory)
    BY <1>2, <1>4 DEF DeltaKeys
  <1>6. BaseKeys(N, O, Memory)
    <2>1. \A k \in DOMAIN Memory.rev : k[1] # "base"
      BY <1>4
    <2> QED BY <2>1 DEF BaseKeys
  <1>7. DeltaInodes(E, N, nd, Memory)
    BY <1>2, <1>3 DEF DeltaInodes
  <1>8. BaseInodes(N, O, Memory)
    BY <1>2 DEF BaseInodes
  <1>9. Numbers(Memory)
    BY <1>1, <1>2 DEF Numbers, None
  <1>10. Origins(E, N, O, Memory)
    BY <1>3 DEF Origins
  <1>11. CachedFits(E, N, O, None, Memory, 1, Root)
    <2>1. \A k \in DOMAIN Memory.rev : k[1] # "base"
      BY <1>4
    <2> QED BY <1>1, <1>2, <2>1 DEF CachedFits
  <1>12. CacheFits(E, N, O, None, dc, Memory)
    <2>1. Root \in AnyPath
      BY <1>1 DEF AnyPath
    <2> QED BY <1>2, <1>11, <2>1 DEF CacheFits
  <1> QED BY <1>2, <1>3, <1>5, <1>6, <1>7, <1>8, <1>9, <1>10, <1>12 DEF Good, Fits

LEMMA RemountSound == ASSUME OverlayInv, Whole, Remount, ~stale' PROVE Whole'
PROOF
  <1>1. /\ mem' = Memory /\ op' = NoOp /\ dcache' = [p \in {Root} |-> 1] /\ UNCHANGED <<ent, node, nextDelta, whiteouts, origin>>
        /\ stale' = (stale \/ DOMAIN origin # {} \/ CutShort)
    BY DEF Remount, durable
  <1>2. DOMAIN origin = {} /\ DOMAIN dcache' = {Root} /\ dcache'[Root] = 1
    BY <1>1
  <1>3. nextDelta \in Nat /\ nextDelta >= 2
    BY BoundsAssumption DEF OverlayInv, DeltaTyped
  <1> DEFINE dc == dcache'
             E == ent
             N == node
             O == origin
             nd == nextDelta
  <1>4. Good(ent, node, origin, nextDelta, None, dcache', Memory) /\ Memory.inode[1].layer = "delta"
    <2>1. DOMAIN dc = {Root} /\ dc[Root] = 1 /\ DOMAIN O = {} /\ nd \in Nat /\ nd >= 2
      BY <1>2, <1>3
    <2> HIDE DEF dc, E, N, O, nd
    <2>2. Good(E, N, O, nd, None, dc, Memory) /\ Memory.inode[1].layer = "delta"
      BY <2>1, FreshMaps
    <2> QED BY <2>2 DEF dc, E, N, O, nd
  <1> HIDE DEF Memory, dc, E, N, O, nd
  <1>5. NoneHidden(whiteouts, dcache', Memory)
    BY <1>2, <1>4 DEF NoneHidden
  <1> QED BY <1>1, <1>4, <1>5, Quiet DEF Whole

LEMMA InitSound == ASSUME Init PROVE Whole
PROOF
  <1>1. /\ ent = [e \in {} |-> None] /\ nextDelta = 2 /\ origin = [d \in {} |-> None] /\ whiteouts = {}
        /\ mem = Memory /\ op = NoOp /\ dcache = [p \in {Root} |-> 1]
    BY DEF Init
  <1>2. DOMAIN origin = {} /\ DOMAIN dcache = {Root} /\ dcache[Root] = 1 /\ DOMAIN ent = {}
    BY <1>1
  <1>3. op.todo = <<>> /\ op.call.what = "idle" /\ op.made = None
    BY <1>1, Idles
  <1>4. Good(ent, node, origin, nextDelta, None, dcache, Memory)
    <2>1. nextDelta \in Nat /\ nextDelta >= 2
      BY <1>1
    <2> QED BY <1>2, <2>1, FreshMaps
  <1> HIDE DEF Memory
  <1>5. Tree(ent, node) /\ Hidden(ent, whiteouts) /\ Seen(whiteouts, dcache, mem, op.call, op.todo)
    BY <1>1, <1>2 DEF Tree, Hidden, Seen
  <1>6. Plan(op.call, op.todo) /\ Cleared(whiteouts, op.todo) /\ ParentMade(ent, node, op.todo) /\ ParentsAreDirs(ent, op.made, op.todo)
    BY <1>3 DEF Plan, Cleared, ParentMade, ParentsAreDirs
  <1>7. MadeFits(ent, node, origin, op.made, op.call, op.todo)
    BY <1>3 DEF MadeFits
  <1>8. Source(ent, mem, op.call, op.src, op.todo)
    BY <1>3, NoneLeft DEF Source
  <1>9. Hands(ent, node, dcache, mem, op.call, op.x, op.y, op.todo)
    BY <1>3, NoneLeft DEF Hands
  <1> QED BY <1>1, <1>3, <1>4, <1>5, <1>6, <1>7, <1>8, <1>9 DEF Whole

\* The directory a handler is called in, and the name it is called for.
LEMMA CalledIn ==
    ASSUME OverlayInv, Whole, Ready, NEW p \in Paths, KnownParent(p)
    PROVE  /\ p \in Named /\ p \in AnyPath /\ Front(p) \in AnyPath /\ Last(p) \in Names /\ p = Append(Front(p), Last(p))
           /\ Front(p) \in DOMAIN dcache /\ IsDir(node, mem, dcache[Front(p)]) /\ Parent(p) = dcache[Front(p)]
           /\ CachedDir(node, dcache, mem, Parent(p), Front(p)) /\ mem.inode[Parent(p)].path = Front(p)
           /\ OverlayPath(p) = p /\ Found(p) = Look(mem, dcache[Front(p)], Last(p))
           /\ Len(p) \in {1, 2}
PROOF
  <1>1. p \in Named /\ p \in AnyPath /\ Front(p) \in AnyPath /\ Last(p) \in Names /\ p = Append(Front(p), Last(p)) /\ Len(p) \in {1, 2}
    BY PathsAre, PathParts DEF Named, AnyPath
  <1>2. Front(p) \in DOMAIN dcache /\ Parent(p) = dcache[Front(p)] /\ Kind(mem, dcache[Front(p)]) = "dir"
    BY DEF KnownParent, Known, Parent
  <1>3. Good(ent, node, origin, nextDelta, None, dcache, mem) /\ DeltaTyped
    BY Idling
  <1>4. IsDir(node, mem, dcache[Front(p)])
    BY <1>2, <1>3, KindIsDir
  <1>5. mem.inode[dcache[Front(p)]].path = Front(p)
    BY <1>2, <1>3, <1>4, ResolveIs
  <1> QED BY <1>1, <1>2, <1>4, <1>5 DEF OverlayPath, Found, Parent, CachedDir

\* What the name a handler is called for is found to be, by maps m that
\* have not lost a directory.
LEMMA LookedUp ==
    ASSUME OverlayInv, Whole, Ready, NEW p \in Paths, KnownParent(p),
           NEW m, Good(ent, node, origin, nextDelta, None, dcache, m),
           \A y \in DOMAIN mem.inode : IsDir(node, mem, y) => IsDir(node, m, y),
           NEW r, r = Look(m, Parent(p), Last(p))
    PROVE  LooksUp(dcache, m, p, r)
PROOF
  <1> DEFINE A == Front(p)
             n == Last(p)
  <1>1. /\ DeltaTyped /\ Tree(ent, node) /\ \A q \in DOMAIN dcache : dcache[q] \in DOMAIN mem.inode
    BY Idling
  <1>2. p = Append(A, n) /\ n \in Names /\ A \in DOMAIN dcache /\ IsDir(node, mem, dcache[A]) /\ Parent(p) = dcache[A]
    BY CalledIn
  <1>4. r = Look(m, dcache[A], n)
    BY <1>2
  <1> HIDE DEF A, n
  <1>3. IsDir(node, m, dcache[A])
    BY <1>1, <1>2
  <1> QED BY <1>1, <1>2, <1>3, <1>4, LookGood

LEMMA LookupSound == ASSUME NEW p \in Paths, OverlayInv, Whole, Lookup(p) PROVE Whole'
PROOF
  <1> DEFINE r == Found(p)
             A == Front(p)
             n == Last(p)
  <1>1. /\ Ready /\ KnownParent(p) /\ r.ino # None /\ mem' = r.m /\ dcache' = Add(dcache, p, r.ino)
        /\ UNCHANGED <<ent, node, nextDelta, whiteouts, origin, op>>
    BY DEF Lookup, Serving, durable
  <1>2. /\ op = NoOp /\ Tree(ent, node) /\ Good(ent, node, origin, nextDelta, None, dcache, mem)
        /\ Hidden(ent, whiteouts) /\ NoneHidden(whiteouts, dcache, mem) /\ MemTyped(mem) /\ DeltaTyped
        /\ \A q \in DOMAIN dcache : dcache[q] \in DOMAIN mem.inode
    BY <1>1, Idling
  <1>3. /\ p \in Named /\ p \in AnyPath /\ A \in AnyPath /\ n \in Names /\ p = Append(A, n)
        /\ A \in DOMAIN dcache /\ IsDir(node, mem, dcache[A]) /\ r = Look(mem, dcache[A], n)
    BY <1>1, CalledIn
  <1>9. r = Look(mem, Parent(p), Last(p)) /\ \A y \in DOMAIN mem.inode : IsDir(node, mem, y) => IsDir(node, mem, y)
    BY DEF Found
  <1> HIDE DEF r, A, n
  <1>4. /\ Good(ent, node, origin, nextDelta, None, dcache, r.m) /\ Extends(mem, r.m)
        /\ r.ino \in DOMAIN r.m.inode /\ ~IsWhiteout(p) /\ CachedFits(ent, node, origin, None, r.m, r.ino, p)
    <2>1. LooksUp(dcache, mem, p, r)
      BY <1>1, <1>2, <1>9, LookedUp
    <2> QED BY <1>1, <2>1 DEF LooksUp
  <1>5. p \notin whiteouts
    BY <1>3, <1>4, HiddenBy DEF Named
  <1>6. Good(ent, node, origin, nextDelta, None, dcache', mem')
    BY <1>1, <1>3, <1>4, CacheMore
  <1>7. NoneHidden(whiteouts, dcache', mem')
    <2> SUFFICES ASSUME NEW q \in DOMAIN dcache', mem'.inode[dcache'[q]].layer = "base" PROVE q \notin whiteouts
      BY DEF NoneHidden
    <2>1. CASE q = p
      BY <1>5, <2>1
    <2>2. CASE q # p
      <3>1. q \in DOMAIN dcache /\ dcache'[q] = dcache[q]
        BY <1>1, <2>2 DEF Add
      <3>2. mem.inode[dcache[q]].layer = "base"
        BY <1>1, <1>2, <1>4, <3>1 DEF Extends
      <3> QED BY <1>2, <3>1, <3>2 DEF NoneHidden
    <2> QED BY <2>1, <2>2
  <1> QED BY <1>1, <1>2, <1>6, <1>7, Quiet

\* One entry of a directory gets an inode, and all of them.
LEMMA EntryGood ==
    ASSUME DeltaTyped, Tree(ent, node), NEW dc, NEW m, Good(ent, node, origin, nextDelta, None, dc, m), NEW i \in Info,
           NEW A \in AnyPath, i.path = A, NEW layer, NEW n \in Names,
           \/ layer = "base" /\ Append(A, n) \in DOMAIN Base
           \/ layer = "delta" /\ <<i.ino, n>> \in DOMAIN ent /\ WalkIn(ent, A) = i.ino
    PROVE  Good(ent, node, origin, nextDelta, None, dc, NumberEntry(m, i, A, layer, n))
PROOF
  <1> DEFINE at == Append(A, n)
             b == BaseLookup(m, at)
             d == ent[<<i.ino, n>>]
             N == NumberEntry(m, i, A, layer, n)
  <1>1. MemTyped(m) /\ at \in AnyPath /\ at \in Named /\ EntTyped(ent, node)
    BY PathLonger, DeltaEnts DEF Good
  <1>2. CASE layer = "base"
    <2>1. N = IF IsWhiteout(at) THEN b ELSE GetOrCreate(b, "base", b.src[at], at)
      BY <1>2 DEF NumberEntry
    <2>2. at \in DOMAIN b.src
      BY <1>1, <1>2, BaseLookupTyped
    <2> HIDE DEF at
    <2>3. Good(ent, node, origin, nextDelta, None, dc, b)
      BY MoreNumbers
    <2> HIDE DEF b
    <2>4. Good(ent, node, origin, nextDelta, None, dc, GetOrCreate(b, "base", b.src[at], at))
      BY <2>2, <2>3, MoreBase
    <2> HIDE DEF N
    <2> QED BY <2>1, <2>3, <2>4 DEF N
  <1>3. CASE layer = "delta"
    <2>1. N = IF d \in DOMAIN origin THEN GetOrCreate(m, "base", origin[d], at) ELSE GetOrCreate(m, "delta", d, at)
      BY <1>3 DEF NumberEntry
    <2>2. WalkIn(ent, at) = d /\ d \in DOMAIN node /\ d # None
      <3>1. WalkIn(ent, at) = d
        BY <1>3, WalkOn
      <3> QED BY <1>1, <1>3, <3>1 DEF EntTyped
    <2>3. d \in Nat /\ d < nextDelta
      BY <2>2, DeltaEnts
    <2> HIDE DEF at, d
    <2>4. CASE d \in DOMAIN origin
      <3> DEFINE u == origin[d]
                 l == "base"
      <3>1. d \in Copies(node, origin)
        BY <2>2, <2>4 DEF Copies
      <3>2. Origins(ent, node, origin, m)
        BY DEF Good, Fits
      <3>3. u \in Nat /\ u < m.nextSrc
        BY <3>1, <3>2 DEF Origins
      <3>4. <<"base", u>> \notin DOMAIN m.rev => Fresh(ent, node, origin, nextDelta, m, "base", u, at)
        <4> SUFFICES ASSUME <<"base", u>> \notin DOMAIN m.rev PROVE Fresh(ent, node, origin, nextDelta, m, "base", u, at)
          OBVIOUS
        <4>1. Dir(node, d)
          BY <3>1, <3>2 DEF Origins
        <4>2. at \in DOMAIN Base /\ Base[at] = "dir"
          BY <1>1, <2>2, <3>1, <3>2, <4>1 DEF Origins
        <4>3. \A q \in DOMAIN m.src : m.src[q] = u => at = q
          <5> SUFFICES ASSUME NEW q \in DOMAIN m.src, m.src[q] = u PROVE at = q
            OBVIOUS
          <5>1. q \in AnyPath
            BY <1>1, BaseTypes DEF MemTyped
          <5>2. WalkIn(ent, q) = d
            BY <3>1, <3>2, <4>1 DEF Origins
          <5> QED BY <1>1, <2>2, <5>1, <5>2, PathUnique
        <4>4. \A e \in Copies(node, origin) : origin[e] = u => Dir(node, e)
          BY <3>1, <3>2, <4>1 DEF Origins, Alike
        <4> QED BY <3>3, <4>2, <4>3, <4>4 DEF Fresh
      <3>5. l \in {"delta", "base"} /\ (<<l, u>> \notin DOMAIN m.rev => Fresh(ent, node, origin, nextDelta, m, l, u, at))
        BY <3>4
      <3>6. at # <<>>
        BY <1>1 DEF Named
      <3>7. N = GetOrCreate(m, l, u, at)
        BY <2>1, <2>4
      <3> HIDE DEF N, l, u
      <3>8. Good(ent, node, origin, nextDelta, None, dc, N)
        BY <1>1, <3>3, <3>5, <3>6, <3>7, MoreInodes
      <3> QED BY <3>8 DEF N
    <2>5. CASE d \notin DOMAIN origin
      <3>1. Fresh(ent, node, origin, nextDelta, m, "delta", d, at)
        BY <2>2, <2>3 DEF Fresh
      <3>2. N = GetOrCreate(m, "delta", d, at)
        BY <2>1, <2>5
      <3> HIDE DEF N
      <3>3. Good(ent, node, origin, nextDelta, None, dc, N)
        BY <1>1, <2>3, <3>1, <3>2, MoreDelta
      <3> QED BY <3>3 DEF N
    <2> QED BY <2>4, <2>5
  <1> QED BY <1>2, <1>3

LEMMA EntriesGood ==
    ASSUME DeltaTyped, Tree(ent, node), NEW dc, NEW m, Good(ent, node, origin, nextDelta, None, dc, m), NEW i \in Info,
           NEW A \in AnyPath, i.path = A, NEW layer, NEW S \in SUBSET Names,
           \/ layer = "base" /\ \A n \in S : Append(A, n) \in DOMAIN Base
           \/ layer = "delta" /\ WalkIn(ent, A) = i.ino /\ \A n \in S : <<i.ino, n>> \in DOMAIN ent
    PROVE  Good(ent, node, origin, nextDelta, None, dc, NumberEntries(m, i, A, layer, SetToSeq(S)))
PROOF
  <1> DEFINE s == SetToSeq(S)
             IsGood(k) == Good(ent, node, origin, nextDelta, None, dc, k)
  <1>1. s \in Seq(S)
    <2>1. IsFiniteSet(S)
      BY BoundsAssumption, FS_Subset
    <2> QED BY <2>1, SequenceOf
  <1> HIDE DEF s
  <1>2. Len(s) \in Nat /\ \A k \in 1..Len(s) : s[k] \in S
    BY <1>1
  <1>3. PICK f : IsNumbering(f, m, i, A, layer, s) /\ NumberEntries(m, i, A, layer, s) = f[Len(s)]
    <2>1. HasNumbering(m, i, A, layer, s)
      BY <1>2, NumberingExists
    <2> QED BY <2>1 DEF HasNumbering
  <1>4. f[0] = m /\ \A k \in 1..Len(s) : f[k] = NumberEntry(f[k - 1], i, A, layer, s[k])
    BY <1>2, <1>3 DEF IsNumbering
  <1> DEFINE T == {k \in Nat : k \in 0..Len(s) => IsGood(f[k])}
  <1>5. 0 \in T
    BY <1>4
  <1>6. ASSUME NEW k \in Nat, k \in T PROVE k + 1 \in T
    <2> SUFFICES ASSUME k + 1 \in 0..Len(s) PROVE IsGood(f[k + 1])
      OBVIOUS
    <2>1. k \in 0..Len(s) /\ k + 1 \in 1..Len(s) /\ (k + 1) - 1 = k
      BY <1>2
    <2>2. IsGood(f[k])
      BY <1>6, <2>1
    <2> DEFINE n == s[k + 1]
               g == f[k]
    <2>3. /\ n \in Names
          /\ \/ layer = "base" /\ Append(A, n) \in DOMAIN Base
             \/ layer = "delta" /\ <<i.ino, n>> \in DOMAIN ent /\ WalkIn(ent, A) = i.ino
      BY <1>2, <2>1
    <2>4. f[k + 1] = NumberEntry(g, i, A, layer, n)
      BY <1>4, <2>1
    <2>5. Good(ent, node, origin, nextDelta, None, dc, g)
      BY <2>2
    <2> HIDE DEF n, g
    <2>6. Good(ent, node, origin, nextDelta, None, dc, NumberEntry(g, i, A, layer, n))
      BY <2>3, <2>5, EntryGood
    <2> QED BY <2>4, <2>6
  <1>7. \A k \in Nat : k \in T
    <2> HIDE DEF T
    <2> QED BY <1>5, <1>6, SetInduction
  <1>8. Len(s) \in 0..Len(s)
    BY <1>2
  <1> QED BY <1>2, <1>3, <1>7, <1>8 DEF s

LEMMA ReaddirPlusSound == ASSUME NEW p, OverlayInv, Whole, ReaddirPlus(p) PROVE Whole'
PROOF
  <1> DEFINE x == dcache[p]
             i == mem.inode[x]
             bd == BaseDir(mem, x)
             fromBase == {n \in Names : Append(bd, n) \in DOMAIN Base}
             fromDelta == {n \in Names : ~IsWhiteout(Append(i.path, n)) /\ <<i.ino, n>> \in DOMAIN ent}
             m0 == IF i.layer = "base" THEN mem ELSE BaseWalk(mem, i.path)
             m1 == NumberEntries(m0, i, bd, "base", SetToSeq(fromBase))
             m2 == NumberEntries(m1, i, bd, "delta", SetToSeq(fromDelta))
             IsGood(k) == Good(ent, node, origin, nextDelta, None, dcache, k)
  <1>1. /\ Ready /\ p \in DOMAIN dcache /\ mem' = (IF i.layer = "base" THEN m1 ELSE m2) /\ Kind(mem, x) = "dir"
        /\ UNCHANGED <<ent, node, nextDelta, whiteouts, origin, op, dcache>>
    BY DEF ReaddirPlus, Serving, durable, Known
  <1>2. /\ op = NoOp /\ Tree(ent, node) /\ IsGood(mem)
        /\ Hidden(ent, whiteouts) /\ NoneHidden(whiteouts, dcache, mem) /\ MemTyped(mem) /\ DeltaTyped
        /\ \A q \in DOMAIN dcache : dcache[q] \in DOMAIN mem.inode
    BY <1>1, Idling
  <1>3. IsDir(node, mem, x)
    BY <1>1, <1>2, KindIsDir
  <1>4. /\ p \in AnyPath /\ i.path = p /\ i.layer \in {"delta", "base"}
        /\ i.layer = "base" => SrcPath(mem, i.ino) = p
        /\ i.layer = "delta" => ResolveDeltaParent(mem, x) = WalkIn(ent, p)
    BY <1>1, <1>2, <1>3, ResolveIs
  <1>5. bd = p /\ (i.layer = "delta" => WalkIn(ent, p) = i.ino)
    BY <1>4 DEF BaseDir, ResolveDeltaParent
  <1>6. x \in DOMAIN mem.inode /\ i \in Info
    BY <1>1, <1>2 DEF MemTyped
  <1>7. fromBase \in SUBSET Names /\ (\A n \in fromBase : Append(p, n) \in DOMAIN Base)
        /\ fromDelta \in SUBSET Names /\ (\A n \in fromDelta : <<i.ino, n>> \in DOMAIN ent)
    BY <1>5
  <1>8. m1 = NumberEntries(m0, i, p, "base", SetToSeq(fromBase)) /\ m2 = NumberEntries(m1, i, p, "delta", SetToSeq(fromDelta))
    BY <1>5
  <1> HIDE DEF x, i, bd, fromBase, fromDelta
  <1>9. IsGood(m0) /\ MemTyped(m0) /\ Keeps(mem, m0)
    BY <1>2, <1>4, MoreWalked, BaseWalkTyped, KeepsAll
  <1> HIDE DEF m0, m1, m2
  <1>10. IsGood(m1)
    <2> DEFINE layer == "base"
    <2>1. layer = "base" /\ m1 = NumberEntries(m0, i, p, layer, SetToSeq(fromBase))
      BY <1>8
    <2> HIDE DEF layer
    <2> QED BY <1>2, <1>4, <1>6, <1>7, <1>9, <2>1, EntriesGood
  <1>11. MemTyped(m1) /\ Keeps(m0, m1)
    BY <1>2, <1>6, <1>7, <1>8, <1>9, NumberingTyped
  <1>12. i.layer = "delta" => IsGood(m2)
    <2> DEFINE layer == "delta"
    <2>1. layer = "delta" /\ m2 = NumberEntries(m1, i, p, layer, SetToSeq(fromDelta))
      BY <1>8
    <2> HIDE DEF layer
    <2> QED BY <1>2, <1>4, <1>5, <1>6, <1>7, <1>10, <2>1, EntriesGood
  <1>13. MemTyped(m2) /\ Keeps(m1, m2)
    BY <1>2, <1>6, <1>7, <1>8, <1>11, NumberingTyped
  <1>14. Keeps(mem, m1) /\ Keeps(mem, m2)
    BY <1>9, <1>11, <1>13, KeepsAll
  <1>15. IsGood(mem') /\ Keeps(mem, mem')
    BY <1>1, <1>4, <1>10, <1>12, <1>14
  <1> HIDE DEF IsGood
  <1>16. NoneHidden(whiteouts, dcache, mem')
    BY <1>2, <1>15 DEF NoneHidden, Keeps
  <1> QED BY <1>1, <1>2, <1>15, <1>16, Quiet DEF IsGood

LEMMA StutterSound == ASSUME Whole, UNCHANGED vars PROVE Whole'
PROOF
  BY DEF Whole, vars

-----------------------------------------------------------------------------
(* What a handler is given to do when it begins.                           *)

HasStep(s, t) == \E j \in 1..Len(s) : s[j] = t

Laid(W, E, N, c, s) ==
    s \in Seq(StepType) /\ Plan(c, s) /\ Cleared(W, s) /\ ParentMade(E, N, s) /\ ParentsAreDirs(E, None, s)

\* Steps that prepare.
Opening(W, E, N, c, s) ==
    /\ Laid(W, E, N, c, s) /\ \A k \in 1..Len(s) : s[k].do \in Preparing
    /\ s # <<>> => s[1] = Head(s) /\ Head(s).do \in {"clear", "copy"} /\ s[Len(s)].do \in {"clear", "parent_origin", "origin"}

\* Steps t may come after the steps s.
MayFollow(W, E, N, s, t) ==
    /\ s # <<>> => Follows(s[Len(s)], t[1])
    /\ \A k \in 1..Len(s), j \in 1..Len(t) : Before(s[k], t[j])
    /\ \A k \in 1..Len(t) : t[k].do \in {"parent", "create", "move", "copy"} /\ t[k].at \in W =>
          HasStep(s, Step("clear", t[k].at)) \/ \E j \in 1..k - 1 : t[j] = Step("clear", t[k].at)
    /\ \A k \in 1..Len(t) : t[k].do = "copy" =>
          \/ Dir(N, WalkIn(E, Front(t[k].at))) \/ HasStep(s, Step("parent", Front(t[k].at)))
          \/ \E j \in 1..k - 1 : t[j] = Step("parent", Front(t[k].at))

LEMMA Joined ==
    ASSUME NEW s \in Seq(StepType), NEW t \in Seq(StepType), NEW u, u = s \o t
    PROVE  /\ u \in Seq(StepType) /\ Len(s) \in Nat /\ Len(t) \in Nat /\ Len(u) = Len(s) + Len(t)
           /\ \A k \in 1..Len(s) : u[k] = s[k] /\ k \in 1..Len(u)
           /\ \A k \in 1..Len(t) : u[Len(s) + k] = t[k] /\ Len(s) + k \in 1..Len(u)
           /\ \A k \in 1..Len(u) : k \in 1..Len(s) \/ (k - Len(s) \in 1..Len(t) /\ u[k] = t[k - Len(s)])
           /\ \A S : Has(u, S) <=> Has(s, S) \/ Has(t, S)
           /\ \A a : HasStep(s, a) \/ HasStep(t, a) => HasStep(u, a)
PROOF
  <1>1. u \in Seq(StepType) /\ Len(s) \in Nat /\ Len(t) \in Nat /\ Len(u) = Len(s) + Len(t)
    OBVIOUS
  <1>2. \A k \in 1..Len(s) : u[k] = s[k] /\ k \in 1..Len(u)
    BY <1>1
  <1>3. \A k \in 1..Len(t) : u[Len(s) + k] = t[k] /\ Len(s) + k \in 1..Len(u)
    BY <1>1
  <1>4. \A k \in 1..Len(u) : k \in 1..Len(s) \/ (k - Len(s) \in 1..Len(t) /\ u[k] = t[k - Len(s)])
    BY <1>1
  <1>5. ASSUME NEW S PROVE Has(u, S) <=> Has(s, S) \/ Has(t, S)
    BY <1>1, <1>2, <1>3, <1>4 DEF Has
  <1>6. ASSUME NEW a PROVE HasStep(s, a) \/ HasStep(t, a) => HasStep(u, a)
    BY <1>1, <1>2, <1>3 DEF HasStep
  <1> QED BY <1>1, <1>2, <1>3, <1>4, <1>5, <1>6

LEMMA LaidOn ==
    ASSUME NEW W, NEW E, NEW N, NEW c, NEW s, Laid(W, E, N, c, s), NEW t \in Seq(StepType), t # <<>>,
           Plan(c, t), ParentsAreDirs(E, None, t), MayFollow(W, E, N, s, t), NEW u, u = s \o t
    PROVE  Laid(W, E, N, c, u)
PROOF
  <1>1. s \in Seq(StepType) /\ Plan(c, s) /\ Cleared(W, s) /\ ParentMade(E, N, s) /\ ParentsAreDirs(E, None, s)
    BY DEF Laid
  <1>2. /\ u \in Seq(StepType) /\ Len(s) \in Nat /\ Len(t) \in Nat /\ Len(u) = Len(s) + Len(t)
        /\ \A k \in 1..Len(s) : u[k] = s[k] /\ k \in 1..Len(u)
        /\ \A k \in 1..Len(t) : u[Len(s) + k] = t[k] /\ Len(s) + k \in 1..Len(u)
        /\ \A k \in 1..Len(u) : k \in 1..Len(s) \/ (k - Len(s) \in 1..Len(t) /\ u[k] = t[k - Len(s)])
    BY <1>1, Joined
  <1>3. Len(t) >= 1 /\ (Len(s) >= 1 => s # <<>>)
    OBVIOUS
  <1> HIDE DEF Laid
  <1>4. Plan(c, u)
    <2>1. \A k \in 1..Len(u) : StepAt(c, u[k])
      BY <1>1, <1>2 DEF Plan
    <2>2. ASSUME NEW k \in 1..Len(u) - 1 PROVE Follows(u[k], u[k + 1])
      <3>1. CASE k + 1 <= Len(s)
        <4>1. k \in 1..Len(s) - 1 /\ k \in 1..Len(s) /\ k + 1 \in 1..Len(s)
          BY <1>2, <3>1
        <4> QED BY <1>1, <1>2, <4>1 DEF Plan
      <3>2. CASE k = Len(s)
        <4>1. u[k] = s[Len(s)] /\ u[k + 1] = t[1] /\ s # <<>>
          BY <1>2, <1>3, <3>2
        <4> QED BY <4>1 DEF MayFollow
      <3>3. CASE k > Len(s)
        <4>1. k - Len(s) \in 1..Len(t) - 1 /\ (k - Len(s)) + 1 = (k + 1) - Len(s) /\ k \notin 1..Len(s) /\ k + 1 \notin 1..Len(s)
              /\ k \in 1..Len(u) /\ k + 1 \in 1..Len(u)
          BY <1>2, <3>3
        <4>2. u[k] = t[k - Len(s)] /\ u[k + 1] = t[(k - Len(s)) + 1]
          BY <1>2, <4>1
        <4> QED BY <1>1, <4>1, <4>2 DEF Plan
      <3> QED BY <1>2, <3>1, <3>2, <3>3
    <2>3. ASSUME NEW k \in 1..Len(u), NEW j \in 1..Len(u), k < j PROVE Before(u[k], u[j])
      <3>1. CASE j \in 1..Len(s)
        <4>1. k \in 1..Len(s)
          BY <1>2, <2>3, <3>1
        <4> QED BY <1>1, <1>2, <2>3, <3>1, <4>1 DEF Plan
      <3>2. CASE k \in 1..Len(s) /\ j \notin 1..Len(s)
        <4>1. u[k] = s[k] /\ j - Len(s) \in 1..Len(t) /\ u[j] = t[j - Len(s)]
          BY <1>2, <3>2
        <4> QED BY <3>2, <4>1 DEF MayFollow
      <3>3. CASE k \notin 1..Len(s) /\ j \notin 1..Len(s)
        <4>1. k - Len(s) \in 1..Len(t) /\ u[k] = t[k - Len(s)] /\ j - Len(s) \in 1..Len(t) /\ u[j] = t[j - Len(s)]
              /\ k - Len(s) < j - Len(s)
          BY <1>2, <2>3, <3>3
        <4> QED BY <4>1 DEF Plan
      <3>4. j \notin 1..Len(s) \/ j \in 1..Len(s)
        OBVIOUS
      <3> QED BY <3>1, <3>2, <3>3
    <2>4. u[Len(u)] = t[Len(t)]
      <3>1. Len(t) \in 1..Len(t) /\ Len(s) + Len(t) = Len(u)
        BY <1>2, <1>3
      <3> QED BY <1>2, <3>1
    <2> QED BY <2>1, <2>2, <2>3, <2>4 DEF Plan
  <1>5. ASSUME NEW k \in 1..Len(u), u[k].do \in {"parent", "create", "move", "copy"}, u[k].at \in W
        PROVE  \E j \in 1..k - 1 : u[j] = Step("clear", u[k].at)
    <2> DEFINE a == Step("clear", u[k].at)
    <2>1. CASE k \in 1..Len(s)
      <3>1. PICK j \in 1..k - 1 : s[j] = Step("clear", s[k].at)
        BY <1>1, <1>2, <1>5, <2>1 DEF Cleared
      <3>2. j \in 1..Len(s)
        BY <1>2, <2>1, <3>1
      <3> QED BY <1>2, <2>1, <3>1, <3>2
    <2>2. CASE k \notin 1..Len(s)
      <3> DEFINE i == k - Len(s)
      <3>1. i \in 1..Len(t) /\ u[k] = t[i]
        BY <1>2, <2>2
      <3>2. HasStep(s, a) \/ \E j \in 1..i - 1 : t[j] = a
        BY <1>5, <3>1 DEF MayFollow
      <3> HIDE DEF a
      <3>3. CASE HasStep(s, a)
        <4>1. PICK j \in 1..Len(s) : s[j] = a
          BY <3>3 DEF HasStep
        <4>2. j \in 1..k - 1 /\ u[j] = a
          BY <1>2, <3>1, <4>1
        <4> QED BY <4>2 DEF a
      <3>4. CASE \E j \in 1..i - 1 : t[j] = a
        <4>1. PICK j \in 1..i - 1 : t[j] = a
          BY <3>4
        <4>2. j \in 1..Len(t)
          BY <1>2, <3>1, <4>1
        <4>3. Len(s) + j \in 1..k - 1 /\ u[Len(s) + j] = a
          BY <1>2, <3>1, <4>1, <4>2
        <4> QED BY <4>3 DEF a
      <3> QED BY <3>2, <3>3, <3>4
    <2> QED BY <2>1, <2>2
  <1>6. ASSUME NEW k \in 1..Len(u), u[k].do = "copy"
        PROVE  Dir(N, WalkIn(E, Front(u[k].at))) \/ \E j \in 1..k - 1 : u[j] = Step("parent", Front(u[k].at))
    <2> DEFINE a == Step("parent", Front(u[k].at))
               D == Dir(N, WalkIn(E, Front(u[k].at)))
    <2>1. CASE k \in 1..Len(s)
      <3>0. u[k] = s[k]
        BY <1>2, <2>1
      <3>1. D \/ \E j \in 1..k - 1 : s[j] = a
        BY <1>1, <1>6, <2>1, <3>0 DEF ParentMade
      <3>2. \A j \in 1..k - 1 : j \in 1..Len(s)
        BY <1>2, <2>1
      <3> QED BY <1>2, <3>1, <3>2
    <2>2. CASE k \notin 1..Len(s)
      <3> DEFINE i == k - Len(s)
      <3>1. i \in 1..Len(t) /\ u[k] = t[i]
        BY <1>2, <2>2
      <3>2. D \/ HasStep(s, a) \/ \E j \in 1..i - 1 : t[j] = a
        BY <1>6, <3>1 DEF MayFollow
      <3> HIDE DEF a, D
      <3>3. CASE HasStep(s, a)
        <4>1. PICK j \in 1..Len(s) : s[j] = a
          BY <3>3 DEF HasStep
        <4>2. j \in 1..k - 1 /\ u[j] = a
          BY <1>2, <3>1, <4>1
        <4> QED BY <4>2 DEF a
      <3>4. CASE \E j \in 1..i - 1 : t[j] = a
        <4>1. PICK j \in 1..i - 1 : t[j] = a
          BY <3>4
        <4>2. j \in 1..Len(t)
          BY <1>2, <3>1, <4>1
        <4>3. Len(s) + j \in 1..k - 1 /\ u[Len(s) + j] = a
          BY <1>2, <3>1, <4>1, <4>2
        <4> QED BY <4>3 DEF a
      <3>5. CASE D
        BY <3>5 DEF D
      <3> QED BY <3>2, <3>3, <3>4, <3>5
    <2> QED BY <2>1, <2>2
  <1>7. ParentsAreDirs(E, None, u)
    BY <1>1, <1>2 DEF ParentsAreDirs
  <1>8. Cleared(W, u) /\ ParentMade(E, N, u)
    BY <1>5, <1>6 DEF Cleared, ParentMade
  <1> QED BY <1>2, <1>4, <1>7, <1>8 DEF Laid

LEMMA StepIs == \A d \in Preparing \cup Ending : \A p \in AnyPath : Step(d, p) \in StepType /\ Step(d, p).do = d /\ Step(d, p).at = p
PROOF
  BY DEF Step, StepType

Clears == {"clear", "parent", "parent_origin"}

LEMMA ParentsLaid ==
    ASSUME NEW W, NEW E, NEW N, NEW c, NEW p \in Named, Len(p) \in {1, 2},
           Front(p) \in DOMAIN Base /\ WalkIn(E, Front(p)) = None => Base[Front(p)] = "dir",
           NEW s, s = Parents(p)
    PROVE  /\ Laid(W, E, N, c, s)
           /\ \A k \in 1..Len(s) : s[k].do \in Clears /\ s[k].at = Front(p) /\ Len(s[k].at) = 1
           /\ s # <<>> => Head(s).do = "clear" /\ s[1].do = "clear" /\ s[Len(s)].do = "parent_origin"
           /\ Len(p) = 2 => HasStep(s, Step("parent", Front(p)))
PROOF
  <1>1. CASE Len(p) = 1
    <2>1. s = <<>>
      BY <1>1 DEF Parents
    <2> QED BY <1>1, <2>1 DEF Laid, Plan, Cleared, ParentMade, ParentsAreDirs
  <1>2. CASE Len(p) = 2
    <2> DEFINE A == Front(p)
               a == Step("clear", A)
               b == Step("parent", A)
               d == Step("parent_origin", A)
    <2>1. s = <<a, b, d>>
      BY <1>2 DEF Parents
    <2>2. A \in AnyPath /\ Len(A) = 1
      <3>1. Front(p) \in AnyPath /\ Len(Front(p)) = Len(p) - 1
        BY PathParts
      <3> HIDE DEF A
      <3>2. A \in AnyPath /\ Len(A) = 2 - 1
        BY ONLY <1>2, <3>1 DEF A
      <3> QED BY <3>2
    <2> HIDE DEF A
    <2>3. /\ a \in StepType /\ a.do = "clear" /\ a.at = A
          /\ b \in StepType /\ b.do = "parent" /\ b.at = A
          /\ d \in StepType /\ d.do = "parent_origin" /\ d.at = A
      BY <2>2, StepIs DEF Preparing, Ending
    <2>4. d = Step("parent_origin", b.at)
      BY <2>3
    <2>d. Step("clear", A) = a /\ Step("parent", A) = b
      OBVIOUS
    <2> HIDE DEF a, b, d
    <2>5. s \in Seq(StepType) /\ Len(s) = 3 /\ s[1] = a /\ s[2] = b /\ s[3] = d /\ Head(s) = a /\ s # <<>>
      BY <2>1, <2>3
    <2>6. \A k \in 1..Len(s) : k \in {1, 2, 3} /\ (s[k] = a \/ s[k] = b \/ s[k] = d)
      BY <2>5
    <2>7. \A k \in 1..Len(s) : s[k].do \in Clears /\ s[k].at = A /\ Len(s[k].at) = 1
      BY <2>2, <2>3, <2>6 DEF Clears
    <2>8. \A k \in 1..Len(s) : StepAt(c, s[k])
      BY <2>7 DEF StepAt, Clears
    <2>9. \A k \in 1..Len(s) - 1 : Follows(s[k], s[k + 1])
      <3>1. Follows(a, b) /\ Follows(b, d)
        BY <2>3, <2>4 DEF Follows
      <3> QED BY <2>5, <3>1
    <2>10. \A k, j \in 1..Len(s) : k < j => Before(s[k], s[j])
      BY <2>7 DEF Before, Clears
    <2>11. Plan(c, s)
      BY <2>3, <2>5, <2>8, <2>9, <2>10 DEF Plan
    <2>12. Cleared(W, s)
      <3> SUFFICES ASSUME NEW k \in 1..Len(s), s[k].do \in {"parent", "create", "move", "copy"}
                   PROVE  \E j \in 1..k - 1 : s[j] = Step("clear", s[k].at)
        BY DEF Cleared
      <3>1. k = 2
        BY <2>3, <2>5, <2>6
      <3> QED BY <2>3, <2>5, <2>d, <3>1
    <2>13. ParentMade(E, N, s)
      BY <2>7 DEF ParentMade, Clears
    <2>14. ParentsAreDirs(E, None, s)
      BY <2>7 DEF ParentsAreDirs, A
    <2>15. HasStep(s, b)
      BY <2>5 DEF HasStep
    <2> QED BY <2>3, <2>5, <2>7, <2>11, <2>12, <2>13, <2>14, <2>15 DEF Laid, A, b
  <1> QED BY <1>1, <1>2

\* Steps that copy nothing, after some that prepare.
LEMMA LaidThen ==
    ASSUME NEW W, NEW E, NEW N, NEW c, NEW s, Laid(W, E, N, c, s), NEW t \in Seq(StepType), t # <<>>,
           s # <<>> => s[Len(s)].do \in {"clear", "parent_origin", "origin"},
           Plan(c, t), ParentsAreDirs(E, None, t), t[1].do # "whiteout",
           \A k \in 1..Len(t) : t[k].do \notin {"copy", "fill", "origin"},
           \A k \in 1..Len(t) : t[k].do \in {"parent", "create", "move"} =>
              HasStep(s, Step("clear", t[k].at)) \/ \E j \in 1..k - 1 : t[j] = Step("clear", t[k].at),
           NEW u, u = s \o t
    PROVE  Laid(W, E, N, c, u)
PROOF
  <1>1. 1 \in 1..Len(t)
    OBVIOUS
  <1>2. s # <<>> => Follows(s[Len(s)], t[1])
    BY <1>1 DEF Follows
  <1>3. \A k \in 1..Len(s), j \in 1..Len(t) : Before(s[k], t[j])
    BY DEF Before
  <1>4. MayFollow(W, E, N, s, t)
    BY <1>2, <1>3 DEF MayFollow
  <1> QED BY <1>4, LaidOn
LEMMA OneLaid ==
    ASSUME NEW d \in {"clear", "create", "touch", "link"}, NEW p \in AnyPath, NEW c, d \in {"create", "link"} => p = Target(c),
           NEW t, t = <<Step(d, p)>>
    PROVE  /\ t \in Seq(StepType) /\ Len(t) = 1 /\ t # <<>> /\ t[1] = Step(d, p) /\ Head(t) = t[1] /\ t[1].do = d /\ t[1].at = p
           /\ Plan(c, t) /\ \A E : ParentsAreDirs(E, None, t)
           /\ \A k \in 1..Len(t) : t[k].do = d /\ t[k].at = p
           /\ \A S : Has(t, S) <=> d \in S
PROOF
  <1> DEFINE a == Step(d, p)
  <1>1. a \in StepType /\ a.do = d /\ a.at = p
    BY StepIs DEF Preparing, Ending
  <1>2. t = <<a>>
    OBVIOUS
  <1> HIDE DEF a
  <1>3. t \in Seq(StepType) /\ Len(t) = 1 /\ t # <<>> /\ t[1] = a /\ Head(t) = t[1]
    BY <1>1, <1>2
  <1>4. \A k \in 1..Len(t) : t[k].do = d /\ t[k].at = p /\ k = 1
    BY <1>1, <1>3
  <1>5. Plan(c, t)
    <2>1. \A k \in 1..Len(t) : StepAt(c, t[k])
      BY <1>4 DEF StepAt
    <2>2. \A k \in 1..Len(t) - 1 : Follows(t[k], t[k + 1])
      BY <1>3
    <2>3. \A k, j \in 1..Len(t) : k < j => Before(t[k], t[j])
      BY <1>4
    <2> QED BY <1>1, <1>3, <2>1, <2>2, <2>3 DEF Plan
  <1>6. \A E : ParentsAreDirs(E, None, t)
    BY <1>4 DEF ParentsAreDirs
  <1>7. \A S : Has(t, S) <=> d \in S
    BY <1>3, <1>4 DEF Has
  <1> QED BY <1>1, <1>3, <1>4, <1>5, <1>6, <1>7 DEF a

LEMMA NoneLaid == \A W, E, N, c : Laid(W, E, N, c, <<>>)
PROOF
  BY DEF Laid, Plan, Cleared, ParentMade, ParentsAreDirs

LEMMA Three ==
    ASSUME NEW s \in Seq(StepType), NEW a \in StepType, NEW b \in StepType, NEW d \in StepType
    PROVE  /\ s \o <<a>> \o <<b>> \o <<d>> = s \o <<a, b, d>>
           /\ s \o <<a>> \o <<>> \o <<d>> = s \o <<a, d>>
PROOF
  <1>1. s \o <<a>> \o <<b>> \o <<d>> = s \o <<a, b, d>>
    <2> DEFINE u == s \o <<a>> \o <<b>> \o <<d>>
               v == s \o <<a, b, d>>
    <2>1. u \in Seq(StepType) /\ v \in Seq(StepType) /\ Len(u) = Len(s) + 3 /\ Len(v) = Len(s) + 3
      OBVIOUS
    <2>2. \A k \in 1..Len(s) + 3 : u[k] = v[k]
      OBVIOUS
    <2> HIDE DEF u, v
    <2>3. u = v
      BY <2>1, <2>2
    <2> QED BY <2>3 DEF u, v
  <1>2. s \o <<a>> \o <<>> \o <<d>> = s \o <<a, d>>
    <2> DEFINE u == s \o <<a>> \o <<>> \o <<d>>
               v == s \o <<a, d>>
    <2>1. u \in Seq(StepType) /\ v \in Seq(StepType) /\ Len(u) = Len(s) + 2 /\ Len(v) = Len(s) + 2
      OBVIOUS
    <2>2. \A k \in 1..Len(s) + 2 : u[k] = v[k]
      OBVIOUS
    <2> HIDE DEF u, v
    <2>3. u = v
      BY <2>1, <2>2
    <2> QED BY <2>3 DEF u, v
  <1> QED BY <1>1, <1>2

\* What a copy is made by, in a directory that is there or is made before.
LEMMA CopyPlan ==
    ASSUME NEW p \in AnyPath, NEW c, p = c.p, NEW a, a = Step("copy", p), NEW b, b = Step("fill", p), NEW d, d = Step("origin", p),
           NEW t, t = <<a, b, d>> \/ t = <<a, d>>
    PROVE  /\ t \in Seq(StepType) /\ t # <<>> /\ Plan(c, t) /\ t[1] = a /\ t[Len(t)] = d /\ Len(t) \in {2, 3} /\ a.do = "copy" /\ d.do = "origin" /\ a.at = p
           /\ \A k \in 1..Len(t) : t[k].do \in {"copy", "fill", "origin"} /\ t[k].at = p /\ (t[k].do = "copy" => k = 1)
           /\ a \in StepType /\ b \in StepType /\ d \in StepType
PROOF
  <1>1. /\ a \in StepType /\ a.do = "copy" /\ a.at = p
        /\ b \in StepType /\ b.do = "fill" /\ b.at = p
        /\ d \in StepType /\ d.do = "origin" /\ d.at = p
    BY StepIs DEF Preparing, Ending
  <1>2. Follows(a, b) /\ Follows(b, d) /\ Follows(a, d)
    BY <1>1 DEF Follows
  <1>3. Before(a, b) /\ Before(b, d) /\ Before(a, d)
    BY <1>1 DEF Before
  <1>4. StepAt(c, a) /\ StepAt(c, b) /\ StepAt(c, d)
    BY <1>1 DEF StepAt
  <1>5. CASE t = <<a, b, d>>
    <2>1. t \in Seq(StepType) /\ t # <<>> /\ Len(t) = 3 /\ t[1] = a /\ t[2] = b /\ t[3] = d
      BY <1>1, <1>5
    <2>2. \A k \in 1..Len(t) : t[k].do \in {"copy", "fill", "origin"} /\ t[k].at = p /\ (t[k].do = "copy" => k = 1)
      BY <1>1, <2>1
    <2>3. Plan(c, t)
      <3>1. \A k \in 1..Len(t) : StepAt(c, t[k])
        BY <1>4, <2>1
      <3>2. \A k \in 1..Len(t) - 1 : Follows(t[k], t[k + 1])
        BY <1>2, <2>1
      <3>3. \A k, j \in 1..Len(t) : k < j => Before(t[k], t[j])
        BY <1>3, <2>1
      <3> QED BY <1>1, <2>1, <3>1, <3>2, <3>3 DEF Plan
    <2> QED BY <1>1, <2>1, <2>2, <2>3
  <1>6. CASE t = <<a, d>>
    <2>1. t \in Seq(StepType) /\ t # <<>> /\ Len(t) = 2 /\ t[1] = a /\ t[2] = d
      BY <1>1, <1>6
    <2>2. \A k \in 1..Len(t) : t[k].do \in {"copy", "fill", "origin"} /\ t[k].at = p /\ (t[k].do = "copy" => k = 1)
      BY <1>1, <2>1
    <2>3. Plan(c, t)
      <3>1. \A k \in 1..Len(t) : StepAt(c, t[k])
        BY <1>4, <2>1
      <3>2. \A k \in 1..Len(t) - 1 : Follows(t[k], t[k + 1])
        BY <1>2, <2>1
      <3>3. \A k, j \in 1..Len(t) : k < j => Before(t[k], t[j])
        BY <1>3, <2>1
      <3> QED BY <1>1, <2>1, <3>1, <3>2, <3>3 DEF Plan
    <2> QED BY <1>1, <2>1, <2>2, <2>3
  <1> QED BY <1>5, <1>6

\* Nothing is copied to where the delta has something.
NotThere(p, s) == s # <<>> => WalkIn(ent, p) = None

LEMMA CopyUpLaid ==
    ASSUME DeltaTyped, NEW W, NEW c, NEW p, p = c.p, p \in DOMAIN Base, p \notin W, NEW m, NEW b, NEW s, s = CopyUp(m, p, b)
    PROVE  Opening(W, ent, node, c, s) /\ NotThere(p, s)
PROOF
  <1>1. CASE DeltaWalk(p) # None
    <2>1. s = <<>>
      BY <1>1 DEF CopyUp
    <2> QED BY <2>1, NoneLaid DEF Opening, NotThere
  <1>2. CASE DeltaWalk(p) = None
    <2> DEFINE a == Step("copy", p)
               f == Step("fill", p)
               d == Step("origin", p)
               P == Parents(p)
               t == IF SrcPath(m, b) \in DOMAIN Base /\ Base[SrcPath(m, b)] = "file" THEN <<a, f, d>> ELSE <<a, d>>
    <2>1. p \in Named /\ p \in AnyPath /\ Len(p) \in {1, 2} /\ (Len(p) = 2 => Front(p) \in DOMAIN Base /\ Base[Front(p)] = "dir")
      BY BaseTypes, BaseIsTree
    <2>2. /\ t \in Seq(StepType) /\ t # <<>> /\ Plan(c, t) /\ t[1] = a /\ t[Len(t)] = d /\ Len(t) \in {2, 3} /\ a.do = "copy" /\ d.do = "origin" /\ a.at = p
          /\ \A k \in 1..Len(t) : t[k].do \in {"copy", "fill", "origin"} /\ t[k].at = p /\ (t[k].do = "copy" => k = 1)
          /\ a \in StepType /\ f \in StepType /\ d \in StepType
      <3> HIDE DEF a, f, d
      <3>1. t = <<a, f, d>> \/ t = <<a, d>>
        OBVIOUS
      <3>2. a = Step("copy", p) /\ f = Step("fill", p) /\ d = Step("origin", p)
        BY DEF a, f, d
      <3> HIDE DEF t
      <3> QED BY <2>1, <3>1, <3>2, CopyPlan
    <2>3. Front(p) \in DOMAIN Base /\ WalkIn(ent, Front(p)) = None => Base[Front(p)] = "dir"
      <3>1. CASE Len(p) = 2
        BY <2>1, <3>1
      <3>2. CASE Len(p) = 1
        <4>1. Front(p) \in AnyPath /\ Len(Front(p)) = Len(p) - 1
          BY <2>1, PathParts
        <4>2. Len(Front(p)) = 0
          BY <3>2, <4>1
        <4> QED BY <4>2, BaseTypes
      <3> QED BY <2>1, <3>1, <3>2
    <2>4. /\ Laid(W, ent, node, c, P)
          /\ \A k \in 1..Len(P) : P[k].do \in Clears /\ P[k].at = Front(p) /\ Len(P[k].at) = 1
          /\ P # <<>> => Head(P).do = "clear" /\ P[1].do = "clear" /\ P[Len(P)].do = "parent_origin"
          /\ Len(p) = 2 => HasStep(P, Step("parent", Front(p)))
      <3>1. P = Parents(p)
        OBVIOUS
      <3> HIDE DEF P, a, f, d, t
      <3> QED BY <2>1, <2>3, <3>1, ParentsLaid
    <2>5. P \in Seq(StepType)
      BY <2>4 DEF Laid
    <2>6. s = P \o t
      <3> HIDE DEF a, f, d, P
      <3>1. s = P \o <<a>> \o (IF SrcPath(m, b) \in DOMAIN Base /\ Base[SrcPath(m, b)] = "file" THEN <<f>> ELSE <<>>) \o <<d>>
        BY <1>2 DEF CopyUp, a, f, d, P
      <3>2. P \o <<a>> \o <<f>> \o <<d>> = P \o <<a, f, d>> /\ P \o <<a>> \o <<>> \o <<d>> = P \o <<a, d>>
        BY <2>2, <2>5, Three
      <3> QED BY <3>1, <3>2
    <2>7. Front(p) # p
      BY <2>1, PathParts
    <2>8. Len(p) = 1 => Dir(node, WalkIn(ent, Front(p)))
      <3> SUFFICES ASSUME Len(p) = 1 PROVE Dir(node, WalkIn(ent, Front(p)))
        OBVIOUS
      <3>1. Front(p) \in AnyPath /\ Len(Front(p)) = Len(p) - 1
        BY <2>1, PathParts
      <3>2. Front(p) = <<>>
        BY <3>1 DEF AnyPath
      <3> QED BY <3>2, WalkStart DEF DeltaTyped, Dir
    <2> HIDE DEF a, f, d, P, t
    <2>9. MayFollow(W, ent, node, P, t)
      <3>1. P # <<>> => Follows(P[Len(P)], t[1])
        BY <2>2, <2>4 DEF Follows
      <3>2. \A k \in 1..Len(P), j \in 1..Len(t) : Before(P[k], t[j])
        BY <2>2, <2>4, <2>7 DEF Before, Clears
      <3>3. \A k \in 1..Len(t) : ~(t[k].do \in {"parent", "create", "move", "copy"} /\ t[k].at \in W)
        BY <2>2
      <3>4. \A k \in 1..Len(t) : t[k].do = "copy" => Dir(node, WalkIn(ent, Front(t[k].at))) \/ HasStep(P, Step("parent", Front(t[k].at)))
        BY <2>1, <2>2, <2>4, <2>8
      <3> QED BY <3>1, <3>2, <3>3, <3>4 DEF MayFollow
    <2>10. ParentsAreDirs(ent, None, t)
      BY <2>2 DEF ParentsAreDirs
    <2>11. Laid(W, ent, node, c, s)
      BY <2>2, <2>4, <2>6, <2>9, <2>10, LaidOn
    <2>12. /\ Len(P) \in Nat /\ Len(t) \in Nat /\ Len(s) = Len(P) + Len(t)
           /\ \A k \in 1..Len(P) : s[k] = P[k] /\ k \in 1..Len(s)
           /\ \A k \in 1..Len(t) : s[Len(P) + k] = t[k] /\ Len(P) + k \in 1..Len(s)
           /\ \A k \in 1..Len(s) : k \in 1..Len(P) \/ (k - Len(P) \in 1..Len(t) /\ s[k] = t[k - Len(P)])
      BY <2>2, <2>5, <2>6, Joined
    <2>13. \A k \in 1..Len(s) : s[k].do \in Preparing
      BY <2>2, <2>4, <2>12 DEF Preparing, Clears
    <2>14. s[Len(s)].do = "origin"
      <3>1. Len(t) \in 1..Len(t)
        BY <2>2
      <3> QED BY <2>2, <2>12, <3>1
    <2>15. s[1].do \in {"clear", "copy"}
      <3>1. CASE P = <<>>
        <4>1. 1 \in 1..Len(t) /\ Len(P) = 0
          BY <2>2, <3>1
        <4> QED BY <2>2, <2>12, <4>1
      <3>2. CASE P # <<>>
        <4>1. 1 \in 1..Len(P)
          BY <2>5, <3>2
        <4> QED BY <2>4, <2>12, <3>2, <4>1
      <3> QED BY <3>1, <3>2
    <2>16. s # <<>> /\ Head(s) = s[1]
      BY <2>2, <2>5, <2>6
    <2> QED BY <1>2, <2>11, <2>13, <2>14, <2>15, <2>16, WalkIsIn DEF Opening, NotThere
  <1> QED BY <1>1, <1>2

Copying == {"copy", "fill", "origin"}

LEMMA OpeningThen ==
    ASSUME NEW W, NEW E, NEW N, NEW c, NEW s, Opening(W, E, N, c, s), NEW t, Laid(W, E, N, c, t),
           \A k \in 1..Len(t) : t[k].do \in Clears,
           t # <<>> => t[1].do = "clear" /\ t[Len(t)].do \in {"clear", "parent_origin"}, NEW u, u = s \o t
    PROVE  /\ Opening(W, E, N, c, u) /\ (Has(u, Copying) => s # <<>>) /\ (Has(u, {"copy"}) => s # <<>>)
           /\ \A a : HasStep(s, a) \/ HasStep(t, a) => HasStep(u, a)
           /\ t # <<>> => u # <<>>
PROOF
  <1>1. s \in Seq(StepType) /\ t \in Seq(StepType) /\ Plan(c, t) /\ ParentsAreDirs(E, None, t) /\ Cleared(W, t)
    BY DEF Opening, Laid
  <1>2. CASE t = <<>>
    <2>1. u = s
      BY <1>1, <1>2
    <2>2. ~Has(t, Copying) /\ ~Has(t, {"copy"}) /\ \A a : ~HasStep(t, a)
      BY <1>2 DEF Has, HasStep
    <2>3. (Has(u, Copying) => s # <<>>) /\ (Has(u, {"copy"}) => s # <<>>)
      BY <2>1 DEF Has
    <2> QED BY <1>2, <2>1, <2>2, <2>3
  <1>3. CASE t # <<>>
    <2>1. s # <<>> => s[Len(s)].do \in {"clear", "parent_origin", "origin"}
      BY DEF Opening
    <2>2. 1 \in 1..Len(t) /\ Len(t) \in 1..Len(t)
      BY <1>1, <1>3
    <2>3. t[1].do # "whiteout" /\ \A k \in 1..Len(t) : t[k].do \notin Copying
      BY <1>3, <2>2 DEF Clears, Copying
    <2>0. /\ Len(s) \in Nat /\ Len(t) \in Nat /\ Len(u) = Len(s) + Len(t)
          /\ \A k \in 1..Len(s) : u[k] = s[k] /\ k \in 1..Len(u)
          /\ \A k \in 1..Len(t) : u[Len(s) + k] = t[k] /\ Len(s) + k \in 1..Len(u)
          /\ \A k \in 1..Len(u) : k \in 1..Len(s) \/ (k - Len(s) \in 1..Len(t) /\ u[k] = t[k - Len(s)])
          /\ \A S : Has(u, S) <=> Has(s, S) \/ Has(t, S)
          /\ \A a : HasStep(s, a) \/ HasStep(t, a) => HasStep(u, a)
      <3>1. s \in Seq(StepType) /\ t \in Seq(StepType) /\ u = s \o t
        BY <1>1
      <3>2. /\ u \in Seq(StepType) /\ Len(s) \in Nat /\ Len(t) \in Nat /\ Len(u) = Len(s) + Len(t)
            /\ \A k \in 1..Len(s) : u[k] = s[k] /\ k \in 1..Len(u)
            /\ \A k \in 1..Len(t) : u[Len(s) + k] = t[k] /\ Len(s) + k \in 1..Len(u)
            /\ \A k \in 1..Len(u) : k \in 1..Len(s) \/ (k - Len(s) \in 1..Len(t) /\ u[k] = t[k - Len(s)])
        BY ONLY <3>1, Joined
      <3>3. \A S : Has(u, S) <=> Has(s, S) \/ Has(t, S)
        BY ONLY <3>1, Joined
      <3>4. \A a : HasStep(s, a) \/ HasStep(t, a) => HasStep(u, a)
        BY ONLY <3>1, Joined
      <3> QED BY ONLY <3>2, <3>3, <3>4
    <2>5. Laid(W, E, N, c, u)
      <3>1. MayFollow(W, E, N, s, t)
        <4>1. s # <<>> => Follows(s[Len(s)], t[1])
          BY <1>3, <2>1 DEF Follows
        <4>2. \A k \in 1..Len(s), j \in 1..Len(t) : Before(s[k], t[j])
          BY <2>3 DEF Before, Copying
        <4>3. \A k \in 1..Len(t) : t[k].do \in {"parent", "create", "move", "copy"} /\ t[k].at \in W => \E j \in 1..k - 1 : t[j] = Step("clear", t[k].at)
          BY <1>1 DEF Cleared
        <4>4. \A k \in 1..Len(t) : t[k].do # "copy"
          BY <2>3 DEF Copying
        <4> QED BY <4>1, <4>2, <4>3, <4>4 DEF MayFollow
      <3> QED BY <1>1, <1>3, <3>1, LaidOn DEF Opening
    <2>6. \A k \in 1..Len(u) : u[k].do \in Preparing
      BY <2>0 DEF Opening, Clears, Preparing
    <2>7. u # <<>> /\ u[1] = Head(u) /\ u[Len(u)] = t[Len(t)]
      <3>1. u # <<>> /\ u[1] = Head(u)
        BY <1>1, <1>3
      <3>2. Len(s) + Len(t) = Len(u)
        BY <2>0
      <3> QED BY <2>0, <2>2, <3>1, <3>2
    <2>8. u[1].do \in {"clear", "copy"}
      <3>1. CASE s = <<>>
        <4>1. Len(s) = 0
          BY <3>1
        <4>2. u[1] = t[1]
          BY <2>0, <2>2, <4>1
        <4> QED BY <1>3, <4>2
      <3>2. CASE s # <<>>
        <4>1. 1 \in 1..Len(s)
          BY <1>1, <3>2
        <4> QED BY <2>0, <3>2, <4>1 DEF Opening
      <3> QED BY <3>1, <3>2
    <2>9. ~Has(t, Copying) /\ ~Has(t, {"copy"})
      BY <2>3 DEF Has, Copying
    <2>10. Has(u, Copying) \/ Has(u, {"copy"}) => s # <<>>
      <3>1. ~Has(<<>>, Copying) /\ ~Has(<<>>, {"copy"})
        BY NoneLeft
      <3> QED BY <2>0, <2>9, <3>1
    <2> QED BY <1>3, <2>0, <2>5, <2>6, <2>7, <2>8, <2>10 DEF Opening
  <1> QED BY <1>2, <1>3

\* Room for a new name: its whiteout goes, and its parent is in the delta.
LEMMA OpensLaid ==
    ASSUME NEW W, NEW E, NEW N, NEW c, NEW s, Opening(W, E, N, c, s), NEW p \in Named, Len(p) \in {1, 2},
           Front(p) \in DOMAIN Base /\ WalkIn(E, Front(p)) = None => Base[Front(p)] = "dir",
           NEW u, u = s \o <<Step("clear", p)>> \o Parents(p)
    PROVE  /\ Opening(W, E, N, c, u) /\ u # <<>> /\ HasStep(u, Step("clear", p))
           /\ (Has(u, Copying) => s # <<>>) /\ (Has(u, {"copy"}) => s # <<>>)
PROOF
  <1> DEFINE d == "clear"
             a == <<Step(d, p)>>
             v == s \o a
             P == Parents(p)
  <1>1. p \in AnyPath /\ d \in {"clear", "create", "touch", "link"} /\ d \notin {"create", "link"}
    BY DEF Named, AnyPath
  <1>2. P = Parents(p) /\ a = <<Step(d, p)>> /\ v = s \o a /\ u = v \o P /\ d = "clear"
    OBVIOUS
  <1> HIDE DEF P, a, v, d
  <1>3. /\ a \in Seq(StepType) /\ Len(a) = 1 /\ a # <<>> /\ a[1] = Step(d, p) /\ a[1].do = d
        /\ Plan(c, a) /\ \A F : ParentsAreDirs(F, None, a)
        /\ \A k \in 1..Len(a) : a[k].do = d
    BY ONLY <1>1, <1>2, OneLaid
  <1>4. Laid(W, E, N, c, a)
    <2>1. Cleared(W, a) /\ ParentMade(E, N, a)
      BY <1>2, <1>3 DEF Cleared, ParentMade
    <2> QED BY <1>3, <2>1 DEF Laid
  <1>5. /\ Laid(W, E, N, c, P)
        /\ \A k \in 1..Len(P) : P[k].do \in Clears
        /\ P # <<>> => P[1].do = "clear" /\ P[Len(P)].do = "parent_origin"
    BY <1>2, ParentsLaid
  <1>6. /\ Opening(W, E, N, c, v) /\ (Has(v, Copying) => s # <<>>) /\ (Has(v, {"copy"}) => s # <<>>)
        /\ (\A b : HasStep(s, b) \/ HasStep(a, b) => HasStep(v, b)) /\ v # <<>>
    <2>1. \A k \in 1..Len(a) : a[k].do \in Clears
      BY <1>2, <1>3 DEF Clears
    <2>2. a[1].do = "clear" /\ a[Len(a)].do \in {"clear", "parent_origin"}
      BY <1>2, <1>3
    <2>3. Opening(W, E, N, c, s) /\ v = s \o a
      BY <1>2
    <2> QED BY ONLY <1>3, <1>4, <2>1, <2>2, <2>3, OpeningThen
  <1>7. HasStep(v, Step("clear", p))
    <2>1. HasStep(a, Step("clear", p))
      BY <1>2, <1>3 DEF HasStep
    <2> QED BY <1>6, <2>1
  <1>8. /\ Opening(W, E, N, c, u) /\ \A b : HasStep(v, b) \/ HasStep(P, b) => HasStep(u, b)
    <2>1. P # <<>> => P[1].do = "clear" /\ P[Len(P)].do \in {"clear", "parent_origin"}
      BY <1>5
    <2> QED BY ONLY <1>2, <1>5, <1>6, <2>1, OpeningThen
  <1>9. v \in Seq(StepType) /\ P \in Seq(StepType)
    BY <1>5, <1>6 DEF Opening, Laid
  <1>10. u # <<>>
    BY <1>2, <1>6, <1>9
  <1>11. (Has(u, Copying) => s # <<>>) /\ (Has(u, {"copy"}) => s # <<>>)
    <2>1. ~Has(P, Copying) /\ ~Has(P, {"copy"})
      BY <1>5 DEF Has, Copying, Clears
    <2>2. \A S : Has(u, S) <=> Has(v, S) \/ Has(P, S)
      BY <1>2, <1>9, Joined
    <2> QED BY <1>6, <2>1, <2>2
  <1> QED BY <1>7, <1>8, <1>10, <1>11

\* A handler begins.
LEMMA Starts ==
    ASSUME OverlayInv, Whole, Ready, NEW call, NEW x, NEW y, NEW b, NEW m, NEW s, Begin(call, x, y, b, m, s),
           Good(ent, node, origin, nextDelta, None, dcache, m), NoneHidden(whiteouts, dcache, m),
           Laid(whiteouts, ent, node, call, s), s # <<>> => Head(s).do \notin {"fill", "origin"},
           Source(ent, m, call, b, s), Hands(ent, node, dcache, m, call, x, y, s)
    PROVE  Whole'
PROOF
  <1>1. Tree(ent, node) /\ Hidden(ent, whiteouts)
    BY Idling
  <1>2. op'.call = call /\ op'.x = x /\ op'.y = y /\ op'.src = b /\ op'.made = None /\ op'.todo = s
    BY DEF Begin
  <1>3. mem' = m /\ UNCHANGED <<ent, node, nextDelta, whiteouts, origin, dcache>>
    BY DEF Begin, durable
  <1>4. Seen(whiteouts, dcache, m, call, s)
    BY SeenIs
  <1>5. MadeFits(ent, node, origin, None, call, s)
    BY DEF MadeFits
  <1>6. Plan(call, s) /\ Cleared(whiteouts, s) /\ ParentMade(ent, node, s) /\ ParentsAreDirs(ent, None, s)
    BY DEF Laid
  <1> QED BY <1>1, <1>2, <1>3, <1>4, <1>5, <1>6 DEF Whole

-----------------------------------------------------------------------------
(* The handlers.                                                           *)

\* The directory a handler is called in is not hidden, and is one in the base
\* if it is not in the delta.
LEMMA ParentShown ==
    ASSUME OverlayInv, Whole, Ready, NEW p \in Paths, KnownParent(p)
    PROVE  /\ Front(p) \in DOMAIN Base /\ WalkIn(ent, Front(p)) = None => Base[Front(p)] = "dir"
           /\ IsWhiteout(p) => p \in whiteouts
PROOF
  <1> DEFINE A == Front(p)
  <1>1. /\ p \in Named /\ p \in AnyPath /\ A \in DOMAIN dcache /\ IsDir(node, mem, dcache[A]) /\ Len(p) \in {1, 2}
    BY CalledIn
  <1>2. /\ Good(ent, node, origin, nextDelta, None, dcache, mem) /\ DeltaTyped /\ MemTyped(mem)
        /\ Hidden(ent, whiteouts) /\ NoneHidden(whiteouts, dcache, mem)
    BY Idling
  <1> HIDE DEF A
  <1>3. /\ mem.inode[dcache[A]].layer = "delta" => WalkIn(ent, A) # None
        /\ mem.inode[dcache[A]].layer \in {"delta", "base"}
        /\ mem.inode[dcache[A]].layer = "base" => Base[A] = "dir"
    BY <1>1, <1>2, ResolveIs
  <1>4. A \in whiteouts => FALSE
    BY <1>1, <1>2, <1>3 DEF Hidden, NoneHidden
  <1>5. IsWhiteout(p) => p \in whiteouts
    <2>1. p # <<>> /\ Len(p) <= 2
      <3>1. p # <<>>
        BY ONLY <1>1 DEF Named
      <3>2. Len(p) <= 2
        <4> DEFINE n == Len(p)
        <4>1. n \in {1, 2}
          BY <1>1
        <4> HIDE DEF n
        <4>2. n <= 2
          BY ONLY <4>1
        <4> QED BY ONLY <4>2 DEF n
      <3> QED BY <3>1, <3>2
    <2> QED BY <1>1, <1>4, <2>1, HiddenBy DEF A
  <1> QED BY <1>3, <1>5 DEF A

\* What a cached base inode stands for.
LEMMA CachedBase ==
    ASSUME NEW E, NEW N, NEW O, NEW nd, NEW dc, NEW m, Good(E, N, O, nd, None, dc, m), NEW x, NEW p,
           x \in DOMAIN m.inode, m.inode[x].layer = "base", CachedFits(E, N, O, None, m, x, p)
    PROVE  /\ p \in DOMAIN m.src /\ m.src[p] = m.inode[x].ino /\ m.inode[x].path = p /\ p \in DOMAIN Base
           /\ <<"base", m.inode[x].ino>> \in DOMAIN m.rev
PROOF
  <1>1. MemTyped(m) /\ BaseInodes(N, O, m)
    BY DEF Good, Fits
  <1>2. p \in DOMAIN m.src /\ m.src[p] = m.inode[x].ino /\ m.inode[x].path = p
    BY DEF CachedFits
  <1>3. <<"base", m.inode[x].ino>> \in DOMAIN m.rev
    BY <1>1 DEF BaseInodes
  <1> QED BY <1>1, <1>2, <1>3 DEF MemTyped

\* Nobody holds a hidden base inode after a lookup either.
LEMMA HiddenStill ==
    ASSUME NEW W, NEW dc, NEW m, NoneHidden(W, dc, m), NEW k, Extends(m, k), \A p \in DOMAIN dc : dc[p] \in DOMAIN m.inode
    PROVE  NoneHidden(W, dc, k) /\ \A p \in DOMAIN dc : k.inode[dc[p]].layer = "base" => m.inode[dc[p]].layer = "base"
PROOF
  <1>1. \A p \in DOMAIN dc : k.inode[dc[p]].layer = "base" => m.inode[dc[p]].layer = "base"
    BY DEF Extends
  <1> QED BY <1>1 DEF NoneHidden

LEMMA CreateNodeSound == ASSUME NEW p \in Paths, NEW kind \in {"dir", "file"}, OverlayInv, Whole, CreateNode(p, kind) PROVE Whole'
PROOF
  <1> DEFINE r == Found(p)
             A == Front(p)
             c == Call(kind, p, p)
             u == <<Step("clear", p)>> \o Parents(p)
             t == <<Step("create", p)>>
             s == u \o t
             x == Parent(p)
             m == r.m
  <1>1. Ready /\ KnownParent(p) /\ r.ino = None
    BY DEF CreateNode, Serving
  <1>2. /\ p \in Named /\ p \in AnyPath /\ A \in AnyPath /\ Len(p) \in {1, 2}
        /\ CachedDir(node, dcache, mem, x, A) /\ OverlayPath(p) = p /\ r = Look(mem, x, Last(p)) /\ x = dcache[A] /\ A \in DOMAIN dcache
        /\ IsDir(node, mem, x)
    BY <1>1, CalledIn
  <1>3. Begin(c, x, 1, None, m, s)
    BY <1>2 DEF CreateNode
  <1>4. /\ Good(ent, node, origin, nextDelta, None, dcache, mem) /\ NoneHidden(whiteouts, dcache, mem) /\ DeltaTyped
        /\ \A q \in DOMAIN dcache : dcache[q] \in DOMAIN mem.inode
    BY <1>1, Idling
  <1>5. c.what = kind /\ c.p = p /\ c.q = p /\ Target(c) = p
    BY DEF Call, Target
  <1>6. Front(p) \in DOMAIN Base /\ WalkIn(ent, Front(p)) = None => Base[Front(p)] = "dir"
    BY <1>1, ParentShown
  <1> HIDE DEF r, c, x
  <1>7. LooksUp(dcache, mem, p, r)
    BY <1>1, <1>2, <1>4, LookedUp DEF x
  <1>8. Good(ent, node, origin, nextDelta, None, dcache, m) /\ Extends(mem, m) /\ IsDir(node, m, x)
    BY <1>2, <1>4, <1>7 DEF LooksUp
  <1>9. NoneHidden(whiteouts, dcache, m) /\ \A q \in DOMAIN dcache : m.inode[dcache[q]].layer = "base" => mem.inode[dcache[q]].layer = "base"
    BY <1>4, <1>8, HiddenStill
  <1>10. p \in DOMAIN dcache => m.inode[dcache[p]].layer = "delta"
    <2> SUFFICES ASSUME p \in DOMAIN dcache PROVE m.inode[dcache[p]].layer = "delta"
      OBVIOUS
    <2>1. MemTyped(m) /\ dcache[p] \in DOMAIN m.inode
      BY <1>4, <1>8 DEF Extends
    <2>2. m.inode[dcache[p]].layer \in {"delta", "base"}
      BY <2>1 DEF MemTyped, Info
    <2>3. m.inode[dcache[p]].layer = "base" => FALSE
      <3> SUFFICES ASSUME m.inode[dcache[p]].layer = "base" PROVE FALSE
        OBVIOUS
      <3>1. mem.inode[dcache[p]].layer = "base" /\ p \notin whiteouts
        BY <1>9 DEF NoneHidden
      <3>2. ~IsWhiteout(p)
        BY <1>1, <3>1, ParentShown
      <3> QED BY <1>1, <1>7, <3>1, <3>2 DEF LooksUp
    <2> QED BY <2>2, <2>3
  <1>11. /\ Opening(whiteouts, ent, node, c, u) /\ u # <<>> /\ HasStep(u, Step("clear", p))
         /\ ~Has(u, Copying)
    <2> DEFINE z == <<>>
    <2>1. Opening(whiteouts, ent, node, c, z)
      BY NoneLaid DEF Opening
    <2>2. u = z \o <<Step("clear", p)>> \o Parents(p)
      <3>1. Parents(p) \in Seq(StepType)
        BY <1>2, <1>6, ParentsLaid DEF Laid
      <3>2. <<Step("clear", p)>> \in Seq(StepType)
        BY <1>2, StepIs DEF Preparing
      <3> QED BY <3>2
    <2> HIDE DEF u, z
    <2>3. /\ Opening(whiteouts, ent, node, c, u) /\ u # <<>> /\ HasStep(u, Step("clear", p))
          /\ (Has(u, Copying) => z # <<>>)
      BY <1>2, <1>6, <2>1, <2>2, OpensLaid
    <2> QED BY <2>3 DEF z
  <1> HIDE DEF u, m
  <1>12. /\ t \in Seq(StepType) /\ t # <<>> /\ t[1] = Step("create", p) /\ Plan(c, t) /\ ParentsAreDirs(ent, None, t)
         /\ (\A k \in 1..Len(t) : t[k].do = "create" /\ t[k].at = p) /\ t[1].do = "create"
    <2> DEFINE d == "create"
    <2>1. d = "create" /\ d \in {"clear", "create", "touch", "link"} /\ p = Target(c) /\ t = <<Step(d, p)>>
      BY <1>5
    <2> HIDE DEF d, t
    <2>2. /\ t \in Seq(StepType) /\ t # <<>> /\ t[1] = Step(d, p) /\ t[1].do = d
          /\ Plan(c, t) /\ \A F : ParentsAreDirs(F, None, t)
          /\ \A k \in 1..Len(t) : t[k].do = d /\ t[k].at = p
      BY ONLY <1>2, <2>1, OneLaid
    <2> QED BY <2>1, <2>2
  <1>13. \A S : Has(t, S) <=> "create" \in S
    <2>1. Len(t) = 1
      OBVIOUS
    <2> QED BY <1>12, <2>1 DEF Has
  <1> HIDE DEF t
  <1>14. Laid(whiteouts, ent, node, c, s)
    <2>1. /\ Laid(whiteouts, ent, node, c, u)
          /\ u # <<>> => u[Len(u)].do \in {"clear", "parent_origin", "origin"}
      BY <1>11 DEF Opening
    <2>2. /\ t[1].do # "whiteout" /\ \A k \in 1..Len(t) : t[k].do \notin {"copy", "fill", "origin"}
          /\ \A k \in 1..Len(t) : t[k].do \in {"parent", "create", "move"} =>
               HasStep(u, Step("clear", t[k].at)) \/ \E j \in 1..k - 1 : t[j] = Step("clear", t[k].at)
      BY <1>11, <1>12
    <2> QED BY ONLY <1>12, <2>1, <2>2, s = u \o t, LaidThen
  <1>15. u \in Seq(StepType) /\ t \in Seq(StepType)
    BY <1>11, <1>12 DEF Opening, Laid
  <1>16. \A S : Has(s, S) <=> Has(u, S) \/ Has(t, S)
    BY ONLY <1>15, s = u \o t, Joined
  <1>17. \A S : Has(u, S) => S \cap Preparing # {}
    BY <1>11 DEF Opening, Has
  <1>18. s # <<>> /\ Head(s).do \notin {"fill", "origin", "whiteout"}
    <2>1. s # <<>> /\ Head(s) = Head(u)
      BY <1>11, <1>15
    <2> QED BY <1>11, <2>1 DEF Opening
  <1> HIDE DEF s
  <1>19. Source(ent, m, c, None, s)
    <2>1. ~Has(s, {"copy", "fill", "origin"}) /\ ~Has(s, {"copy"})
      <3>1. ~Has(u, {"copy", "fill", "origin"}) /\ ~Has(u, {"copy"})
        BY <1>11 DEF Copying, Has
      <3> QED BY <1>13, <1>16, <3>1
    <2> QED BY <1>18, <2>1 DEF Source
  <1>20. Hands(ent, node, dcache, m, c, x, 1, s)
    <2>1. \A S : Has(s, S) /\ S \cap Preparing = {} => "create" \in S
      BY <1>13, <1>16, <1>17
    <2>2. ~Has(s, {"remove"}) /\ ~Has(s, {"move"}) /\ ~Has(s, {"whiteout"}) /\ ~Has(s, {"link"}) /\ ~Has(s, {"touch"})
      BY <2>1 DEF Preparing
    <2>3. CachedDir(node, dcache, m, x, Front(p))
      BY <1>2, <1>8 DEF CachedDir
    <2> QED BY <1>2, <1>5, <1>10, <2>2, <2>3 DEF Hands
  <1> QED BY <1>1, <1>3, <1>8, <1>9, <1>14, <1>18, <1>19, <1>20, Starts

\* A copy-up followed by one step of another kind, or that step alone.
LEMMA CopyThen ==
    ASSUME NEW c, NEW s, Opening(whiteouts, ent, node, c, s), NEW t \in Seq(StepType), t # <<>>,
           Plan(c, t), ParentsAreDirs(ent, None, t), t[1].do # "whiteout",
           \A k \in 1..Len(t) : t[k].do \notin {"copy", "fill", "origin"},
           \A k \in 1..Len(t) : t[k].do \in {"parent", "create", "move"} =>
              HasStep(s, Step("clear", t[k].at)) \/ \E j \in 1..k - 1 : t[j] = Step("clear", t[k].at),
           NEW u, u = s \o t
    PROVE  /\ Laid(whiteouts, ent, node, c, u) /\ u # <<>>
           /\ Head(u).do \notin {"fill", "origin"} /\ (Head(u).do = "whiteout" => FALSE)
           /\ (Has(u, Copying) => Has(s, Copying)) /\ (Has(u, {"copy"}) => Has(s, {"copy"})) /\ (Has(u, {"origin"}) => Has(s, {"origin"}))
           /\ \A d \in Ending : Has(u, {d}) => Has(t, {d})
           /\ \A S : Has(t, S) => Has(u, S)
PROOF
  <1>1. s \in Seq(StepType) /\ Laid(whiteouts, ent, node, c, s) /\ (s # <<>> => s[Len(s)].do \in {"clear", "parent_origin", "origin"})
    BY DEF Opening, Laid
  <1>2. Laid(whiteouts, ent, node, c, u)
    BY ONLY <1>1, t \in Seq(StepType), t # <<>>,
           Plan(c, t), ParentsAreDirs(ent, None, t), t[1].do # "whiteout",
           \A k \in 1..Len(t) : t[k].do \notin {"copy", "fill", "origin"},
           \A k \in 1..Len(t) : t[k].do \in {"parent", "create", "move"} =>
              HasStep(s, Step("clear", t[k].at)) \/ \E j \in 1..k - 1 : t[j] = Step("clear", t[k].at),
           u = s \o t, LaidThen
  <1>3. \A S : Has(u, S) <=> Has(s, S) \/ Has(t, S)
    <2>1. s \in Seq(StepType) /\ t \in Seq(StepType) /\ u = s \o t
      BY <1>1
    <2> QED BY ONLY <2>1, Joined
  <1>4. ~Has(t, Copying) /\ ~Has(t, {"copy"}) /\ ~Has(t, {"origin"})
    BY DEF Has, Copying
  <1>5. \A d \in Ending : ~Has(s, {d})
    BY DEF Opening, Has, Ending, Preparing
  <1>6. u # <<>> /\ Head(u).do \notin {"fill", "origin"} /\ Head(u).do # "whiteout"
    <2>1. CASE s = <<>>
      <3>1. u = t /\ Head(t) = t[1] /\ 1 \in 1..Len(t)
        BY <2>1
      <3> QED BY <3>1
    <2>2. CASE s # <<>>
      <3>1. u # <<>> /\ Head(u) = Head(s)
        BY <1>1, <2>2
      <3> QED BY <2>2, <3>1 DEF Opening
    <2> QED BY <2>1, <2>2
  <1> QED BY <1>2, <1>3, <1>4, <1>5, <1>6

LEMMA OnInodeSound == ASSUME NEW p \in Paths, NEW what \in {"modify", "open"}, OverlayInv, Whole, OnInode(what, p) PROVE Whole'
PROOF
  <1> DEFINE x == dcache[p]
             i == mem.inode[x]
             c == Call(what, p, p)
             d == DeltaWalk(i.path)
             m == IF i.layer = "base" /\ d # None THEN UpdateMapping(mem, x, d) ELSE mem
             s == IF i.layer = "base" THEN CopyUp(mem, i.path, i.ino) ELSE <<>>
             t == <<Step("touch", i.path)>>
             u == s \o t
  <1>1. Ready /\ p \in DOMAIN dcache /\ Begin(c, x, 1, i.ino, m, u)
    BY DEF OnInode, Serving, Known
  <1>2. /\ Good(ent, node, origin, nextDelta, None, dcache, mem) /\ NoneHidden(whiteouts, dcache, mem) /\ DeltaTyped /\ MemTyped(mem)
        /\ \A q \in DOMAIN dcache : dcache[q] \in DOMAIN mem.inode
    BY <1>1, Idling
  <1>3. c.what = what /\ c.p = p /\ c.q = p
    BY DEF Call
  <1> HIDE DEF c
  <1>4. x \in DOMAIN mem.inode /\ i.path \in AnyPath /\ i.layer \in {"delta", "base"} /\ CachedFits(ent, node, origin, None, mem, x, p)
    BY <1>1, <1>2 DEF MemTyped, Info, Good, CacheFits
  <1>5. i.layer = "base" =>
          /\ p \in DOMAIN mem.src /\ mem.src[p] = i.ino /\ i.path = p /\ p \in DOMAIN Base
          /\ <<"base", i.ino>> \in DOMAIN mem.rev /\ p \notin whiteouts
    <2> SUFFICES ASSUME i.layer = "base"
                 PROVE  /\ p \in DOMAIN mem.src /\ mem.src[p] = i.ino /\ i.path = p /\ p \in DOMAIN Base
                        /\ <<"base", i.ino>> \in DOMAIN mem.rev /\ p \notin whiteouts
      OBVIOUS
    <2>1. p \notin whiteouts
      BY <1>1, <1>2 DEF NoneHidden
    <2>2. mem.inode[x].layer = "base"
      OBVIOUS
    <2> HIDE DEF x
    <2> QED BY <1>2, <1>4, <2>1, <2>2, CachedBase
  <1>6. d = WalkIn(ent, i.path) /\ d \in {None} \cup DOMAIN node
    BY <1>2, <1>4, WalkIsIn, WalkEnds
  <1>7. /\ Good(ent, node, origin, nextDelta, None, dcache, m)
        /\ NoneHidden(whiteouts, dcache, m)
    <2>1. CASE i.layer = "base" /\ d # None
      <3>1. d \in DOMAIN node /\ d \in Nat /\ d < nextDelta
        BY <1>2, <1>6, <2>1, DeltaEnts
      <3>2. m = UpdateMapping(mem, x, d)
        BY <2>1
      <3>3. mem.inode[dcache[p]].layer = "base" /\ WalkIn(ent, mem.inode[dcache[p]].path) = d
        BY <1>6, <2>1
      <3> HIDE DEF d, m
      <3>4. Good(ent, node, origin, nextDelta, None, dcache, UpdateMapping(mem, dcache[p], d))
        BY <1>1, <1>2, <2>1, <3>1, <3>3, Updated
      <3>5. \A y \in DOMAIN mem.inode : m.inode[y].layer = "base" => mem.inode[y].layer = "base"
        BY <1>2, <1>4, <2>1, <3>1, <3>2, UpdateTyped
      <3> QED BY <1>2, <3>2, <3>4, <3>5 DEF NoneHidden
    <2>2. CASE ~(i.layer = "base" /\ d # None)
      BY <1>2, <2>2
    <2> QED BY <2>1, <2>2
  <1>8. Opening(whiteouts, ent, node, c, s) /\ (s # <<>> => WalkIn(ent, p) = None /\ i.layer = "base" /\ m = mem)
    <2>1. CASE i.layer = "base"
      <3>1. s = CopyUp(mem, c.p, i.ino)
        BY <1>3, <1>5, <2>1
      <3>2. c.p \in DOMAIN Base /\ c.p \notin whiteouts
        BY <1>3, <1>5, <2>1
      <3> HIDE DEF s, i
      <3>3. Opening(whiteouts, ent, node, c, s) /\ (s # <<>> => WalkIn(ent, p) = None)
        <4> DEFINE b == i.ino
        <4>1. s = CopyUp(mem, p, b) /\ DeltaTyped /\ p = c.p /\ p \in DOMAIN Base /\ p \notin whiteouts
          BY <1>2, <1>3, <3>1, <3>2
        <4> HIDE DEF b
        <4>2. Opening(whiteouts, ent, node, c, s) /\ NotThere(p, s)
          BY ONLY <4>1, CopyUpLaid
        <4> QED BY <4>2 DEF NotThere
      <3>4. d = WalkIn(ent, p)
        BY <1>5, <1>6, <2>1
      <3> QED BY <2>1, <3>3, <3>4
    <2>2. CASE i.layer # "base"
      BY <2>2, NoneLaid DEF Opening
    <2> QED BY <2>1, <2>2
  <1> HIDE DEF s, m
  <1>9. /\ t \in Seq(StepType) /\ t # <<>> /\ Plan(c, t) /\ ParentsAreDirs(ent, None, t) /\ (\A k \in 1..Len(t) : t[k].do = "touch")
        /\ t[1].do = "touch" /\ \A S : Has(t, S) <=> "touch" \in S
    <2> DEFINE dd == "touch"
               pp == i.path
    <2>1. dd = "touch" /\ dd \in {"clear", "create", "touch", "link"} /\ (dd \in {"create", "link"} => pp = Target(c)) /\ t = <<Step(dd, pp)>> /\ pp \in AnyPath
      BY <1>4
    <2> HIDE DEF dd, t, pp
    <2>2. /\ t \in Seq(StepType) /\ t # <<>> /\ t[1].do = dd
          /\ Plan(c, t) /\ \A F : ParentsAreDirs(F, None, t)
          /\ \A k \in 1..Len(t) : t[k].do = dd
      BY ONLY <2>1, OneLaid
    <2>3. \A S : Has(t, S) <=> dd \in S
      BY ONLY <2>1, OneLaid
    <2> QED BY <2>1, <2>2, <2>3
  <1> HIDE DEF t
  <1>10. /\ Laid(whiteouts, ent, node, c, u) /\ u # <<>>
         /\ Head(u).do \notin {"fill", "origin"} /\ (Head(u).do = "whiteout" => FALSE)
         /\ (Has(u, Copying) => Has(s, Copying)) /\ (Has(u, {"copy"}) => Has(s, {"copy"})) /\ (Has(u, {"origin"}) => Has(s, {"origin"}))
         /\ \A dd \in Ending : Has(u, {dd}) => Has(t, {dd})
    <2>1. t[1].do # "whiteout" /\ \A k \in 1..Len(t) : t[k].do \notin {"copy", "fill", "origin"}
      BY <1>9
    <2>2. \A k \in 1..Len(t) : t[k].do \in {"parent", "create", "move"} =>
              HasStep(s, Step("clear", t[k].at)) \/ \E j \in 1..k - 1 : t[j] = Step("clear", t[k].at)
      BY <1>9
    <2>3. u = s \o t /\ Opening(whiteouts, ent, node, c, s)
      BY <1>8
    <2> QED BY ONLY <1>9, <2>1, <2>2, <2>3, CopyThen
  <1> HIDE DEF u
  <1>11. \A S : Has(s, S) => s # <<>>
    BY NoneLeft
  <1>12. Source(ent, m, c, i.ino, u)
    <2>1. Has(u, {"copy", "fill", "origin"}) => p \in DOMAIN m.src /\ m.src[p] = i.ino /\ <<"base", i.ino>> \in DOMAIN m.rev
      BY <1>5, <1>8, <1>10, <1>11 DEF Copying
    <2>2. Has(u, {"copy"}) => WalkIn(ent, p) = None
      BY <1>8, <1>10, <1>11
    <2> QED BY <1>3, <1>10, <2>1, <2>2 DEF Source
  <1>13. Hands(ent, node, dcache, m, c, x, 1, u)
    <2>1. \A dd \in Ending : dd # "touch" => ~Has(u, {dd})
      BY <1>9, <1>10
    <2>2. ~Has(u, {"create"}) /\ ~Has(u, {"remove"}) /\ ~Has(u, {"move"}) /\ ~Has(u, {"whiteout"}) /\ ~Has(u, {"link"})
      BY <2>1 DEF Ending
    <2>3. Has(u, {"origin"}) => m.inode[x].layer = "base"
      BY <1>8, <1>10, <1>11
    <2> QED BY <1>1, <1>3, <2>2, <2>3 DEF Hands
  <1> HIDE DEF x
  <1> QED BY <1>1, <1>7, <1>10, <1>12, <1>13, Starts

LEMMA TwoLaid ==
    ASSUME NEW d \in {"remove", "move"}, NEW p \in AnyPath, NEW q \in AnyPath, NEW c, c.p = p, d = "move" => q = Target(c), d = "remove" => q = p,
           NEW t, t = <<Step(d, q), Step("whiteout", p)>>
    PROVE  /\ t \in Seq(StepType) /\ t # <<>> /\ t[1] = Step(d, q) /\ t[1].do = d /\ Head(t) = t[1]
           /\ Plan(c, t) /\ ParentsAreDirs(ent, None, t)
           /\ \A k \in 1..Len(t) : t[k].do \in {d, "whiteout"} /\ (t[k].do = d => t[k].at = q)
           /\ \A S : Has(t, S) => d \in S \/ "whiteout" \in S
PROOF
  <1> DEFINE a == Step(d, q)
             b == Step("whiteout", p)
  <1>1. a \in StepType /\ a.do = d /\ a.at = q /\ b \in StepType /\ b.do = "whiteout" /\ b.at = p
    BY StepIs DEF Preparing, Ending
  <1>2. t = <<a, b>>
    OBVIOUS
  <1> HIDE DEF a, b
  <1>3. t \in Seq(StepType) /\ t # <<>> /\ Len(t) = 2 /\ t[1] = a /\ t[2] = b /\ Head(t) = t[1]
    BY <1>1, <1>2
  <1>4. \A k \in 1..Len(t) : (t[k] = a \/ t[k] = b) /\ k \in {1, 2}
    BY <1>3
  <1>5. \A k \in 1..Len(t) : t[k].do \in {d, "whiteout"} /\ (t[k].do = d => t[k].at = q)
    BY <1>1, <1>4
  <1>6. Plan(c, t)
    <2>1. StepAt(c, a) /\ StepAt(c, b)
      BY <1>1 DEF StepAt
    <2>2. Follows(a, b)
      BY <1>1 DEF Follows
    <2>3. Before(a, b)
      BY <1>1 DEF Before
    <2>4. \A k \in 1..Len(t) : StepAt(c, t[k])
      BY <1>4, <2>1
    <2>5. \A k \in 1..Len(t) - 1 : Follows(t[k], t[k + 1])
      BY <1>3, <2>2
    <2>6. \A k, j \in 1..Len(t) : k < j => Before(t[k], t[j])
      BY <1>3, <2>3
    <2> QED BY <1>1, <1>3, <2>4, <2>5, <2>6 DEF Plan
  <1>7. ParentsAreDirs(ent, None, t)
    BY <1>5 DEF ParentsAreDirs
  <1>8. \A S : Has(t, S) => d \in S \/ "whiteout" \in S
    BY <1>5 DEF Has
  <1> QED BY <1>1, <1>3, <1>5, <1>6, <1>7, <1>8 DEF a

LEMMA RemoveSound ==
    ASSUME NEW p \in Paths, OverlayInv, Whole, Ready, KnownParent(p), Found(p).ino # None,
           Begin(Call("remove", p, p), Parent(p), 1, None, Found(p).m,
                 <<Step("remove", OverlayPath(p)), Step("whiteout", OverlayPath(p))>>)
    PROVE  Whole'
PROOF
  <1> DEFINE r == Found(p)
             A == Front(p)
             c == Call("remove", p, p)
             s == <<Step("remove", p), Step("whiteout", p)>>
             x == Parent(p)
             m == r.m
  <1>2. /\ p \in Named /\ p \in AnyPath
        /\ CachedDir(node, dcache, mem, x, A) /\ OverlayPath(p) = p /\ r = Look(mem, x, Last(p)) /\ x = dcache[A] /\ A \in DOMAIN dcache
        /\ IsDir(node, mem, x)
    BY CalledIn
  <1>3. Begin(c, x, 1, None, m, s)
    BY <1>2
  <1>4. /\ Good(ent, node, origin, nextDelta, None, dcache, mem) /\ NoneHidden(whiteouts, dcache, mem)
        /\ \A q \in DOMAIN dcache : dcache[q] \in DOMAIN mem.inode
    BY Idling
  <1>5. c.what = "remove" /\ c.p = p /\ c.q = p
    BY DEF Call
  <1> HIDE DEF r, c, x
  <1>7. LooksUp(dcache, mem, p, r)
    BY <1>2, <1>4, LookedUp DEF x
  <1>8. Good(ent, node, origin, nextDelta, None, dcache, m) /\ Extends(mem, m) /\ IsDir(node, m, x)
    BY <1>2, <1>4, <1>7 DEF LooksUp
  <1>9. NoneHidden(whiteouts, dcache, m)
    BY <1>4, <1>8, HiddenStill
  <1> HIDE DEF m
  <1>10. /\ s \in Seq(StepType) /\ s # <<>> /\ Head(s).do = "remove" /\ Plan(c, s) /\ ParentsAreDirs(ent, None, s)
         /\ \A k \in 1..Len(s) : s[k].do \in {"remove", "whiteout"}
    <2> DEFINE d == "remove"
    <2>1. d = "remove" /\ d \in {"remove", "move"} /\ c.p = p /\ (d = "move" => p = Target(c)) /\ s = <<Step(d, p), Step("whiteout", p)>>
      BY <1>5
    <2> HIDE DEF d, s
    <2>2. /\ s \in Seq(StepType) /\ s # <<>> /\ s[1].do = d /\ Head(s) = s[1]
          /\ Plan(c, s) /\ ParentsAreDirs(ent, None, s)
          /\ \A k \in 1..Len(s) : s[k].do \in {d, "whiteout"} /\ (s[k].do = d => s[k].at = p)
      BY ONLY <1>2, <2>1, TwoLaid
    <2> QED BY <2>1, <2>2
  <1> HIDE DEF s
  <1>11. Laid(whiteouts, ent, node, c, s)
    BY <1>10 DEF Laid, Cleared, ParentMade
  <1>12. \A S : Has(s, S) => "remove" \in S \/ "whiteout" \in S
    BY <1>10 DEF Has
  <1>13. Source(ent, m, c, None, s)
    BY <1>10, <1>12 DEF Source
  <1>14. Hands(ent, node, dcache, m, c, x, 1, s)
    <2>1. CachedDir(node, dcache, m, x, Front(p))
      BY <1>2, <1>8 DEF CachedDir
    <2>2. ~Has(s, {"create"}) /\ ~Has(s, {"move"}) /\ ~Has(s, {"link"}) /\ ~Has(s, {"touch"})
      BY <1>12
    <2> QED BY <1>2, <1>5, <2>1, <2>2 DEF Hands
  <1>15. s # <<>> => Head(s).do \notin {"fill", "origin"}
    BY <1>10
  <1> QED BY ONLY OverlayInv, Whole, Ready, <1>3, <1>8, <1>9, <1>11, <1>13, <1>14, <1>15, Starts

LEMMA UnlinkSound == ASSUME NEW p \in Paths, OverlayInv, Whole, Unlink(p) PROVE Whole'
PROOF
  BY RemoveSound DEF Unlink, Serving
LEMMA RmdirSound == ASSUME NEW p \in Paths, OverlayInv, Whole, Rmdir(p) PROVE Whole'
PROOF
  BY RemoveSound DEF Rmdir, Serving

\* What a base file that is copied up first leaves the handler to rely on.
LEMMA SourceOf ==
    ASSUME NEW E, NEW k, NEW m, NEW c, NEW b, NEW s, NEW p, c.p = p, SrcGrows(k, m), DOMAIN k.rev \subseteq DOMAIN m.rev,
           s # <<>> => Head(s).do # "whiteout",
           Has(s, {"copy"}) => WalkIn(E, p) = None,
           Has(s, Copying) => p \in DOMAIN k.src /\ k.src[p] = b /\ <<"base", b>> \in DOMAIN k.rev
    PROVE  Source(E, m, c, b, s)
PROOF
  <1>1. Has(s, {"copy", "fill", "origin"}) => p \in DOMAIN m.src /\ m.src[p] = b /\ <<"base", b>> \in DOMAIN m.rev
    BY DEF SrcGrows, Copying
  <1> QED BY <1>1 DEF Source

LEMMA LinkSound == ASSUME NEW p \in Paths, NEW q \in Paths, OverlayInv, Whole, Link(p, q) PROVE Whole'
PROOF
  <1> DEFINE r == Found(q)
             A == Front(q)
             c == Call("link", p, q)
             x == Parent(q)
             m == r.m
             y == dcache[p]
             i == mem.inode[y]
             s == IF i.layer = "base" THEN CopyUp(mem, i.path, i.ino) ELSE <<>>
             w == s \o <<Step("clear", q)>> \o Parents(q)
             t == <<Step("link", q)>>
             u == w \o t
  <1>1. Ready /\ KnownParent(q) /\ r.ino = None /\ p \in DOMAIN dcache
    BY DEF Link, Serving, Known
  <1>2. /\ q \in Named /\ q \in AnyPath /\ Len(q) \in {1, 2}
        /\ CachedDir(node, dcache, mem, x, A) /\ OverlayPath(q) = q /\ r = Look(mem, x, Last(q)) /\ x = dcache[A] /\ A \in DOMAIN dcache
        /\ IsDir(node, mem, x)
    BY <1>1, CalledIn
  <1>3. Begin(c, x, y, i.ino, m, u)
    BY <1>2 DEF Link
  <1>4. /\ Good(ent, node, origin, nextDelta, None, dcache, mem) /\ NoneHidden(whiteouts, dcache, mem) /\ DeltaTyped /\ MemTyped(mem)
        /\ \A z \in DOMAIN dcache : dcache[z] \in DOMAIN mem.inode
    BY <1>1, Idling
  <1>5. c.what = "link" /\ c.p = p /\ c.q = q /\ Target(c) = q
    BY DEF Call, Target
  <1>6. Front(q) \in DOMAIN Base /\ WalkIn(ent, Front(q)) = None => Base[Front(q)] = "dir"
    BY <1>1, ParentShown
  <1> HIDE DEF r, c, x
  <1>7. LooksUp(dcache, mem, q, r)
    BY <1>1, <1>2, <1>4, LookedUp DEF x
  <1>8. /\ Good(ent, node, origin, nextDelta, None, dcache, m) /\ Extends(mem, m) /\ IsDir(node, m, x)
        /\ DOMAIN mem.rev \subseteq DOMAIN m.rev /\ SrcGrows(mem, m)
    BY <1>2, <1>4, <1>7 DEF LooksUp, Extends
  <1>9. NoneHidden(whiteouts, dcache, m)
    BY <1>4, <1>8, HiddenStill
  <1>10. y \in DOMAIN mem.inode /\ CachedFits(ent, node, origin, None, mem, y, p)
    BY <1>1, <1>4 DEF Good, CacheFits
  <1>11. i.layer = "base" =>
          /\ p \in DOMAIN mem.src /\ mem.src[p] = i.ino /\ i.path = p /\ p \in DOMAIN Base
          /\ <<"base", i.ino>> \in DOMAIN mem.rev /\ p \notin whiteouts
    <2> SUFFICES ASSUME i.layer = "base"
                 PROVE  /\ p \in DOMAIN mem.src /\ mem.src[p] = i.ino /\ i.path = p /\ p \in DOMAIN Base
                        /\ <<"base", i.ino>> \in DOMAIN mem.rev /\ p \notin whiteouts
      OBVIOUS
    <2>1. p \notin whiteouts
      BY <1>1, <1>4 DEF NoneHidden
    <2>2. mem.inode[y].layer = "base"
      OBVIOUS
    <2> HIDE DEF y
    <2> QED BY <1>4, <1>10, <2>1, <2>2, CachedBase
  <1> HIDE DEF m, y
  <1>12. Opening(whiteouts, ent, node, c, s) /\ NotThere(p, s) /\ (s # <<>> => i.layer = "base")
    <2>1. CASE i.layer = "base"
      <3> DEFINE b == i.ino
      <3>1. s = CopyUp(mem, p, b) /\ DeltaTyped /\ p = c.p /\ p \in DOMAIN Base /\ p \notin whiteouts
        BY <1>4, <1>5, <1>11, <2>1
      <3> HIDE DEF b, s, i
      <3>2. Opening(whiteouts, ent, node, c, s) /\ NotThere(p, s)
        BY ONLY <3>1, CopyUpLaid
      <3> QED BY <2>1, <3>2
    <2>2. CASE i.layer # "base"
      <3>1. s = <<>>
        BY <2>2
      <3> QED BY <3>1, NoneLaid DEF Opening, NotThere
    <2> QED BY <2>1, <2>2
  <1> HIDE DEF s, i
  <1>13. /\ Opening(whiteouts, ent, node, c, w) /\ w # <<>> /\ HasStep(w, Step("clear", q))
         /\ (Has(w, Copying) => s # <<>>) /\ (Has(w, {"copy"}) => s # <<>>)
    <2>1. w = s \o <<Step("clear", q)>> \o Parents(q)
      OBVIOUS
    <2> HIDE DEF w
    <2> QED BY ONLY <1>2, <1>6, <1>12, <2>1, OpensLaid
  <1> HIDE DEF w
  <1>14. /\ t \in Seq(StepType) /\ t # <<>> /\ Plan(c, t) /\ ParentsAreDirs(ent, None, t) /\ (\A k \in 1..Len(t) : t[k].do = "link")
         /\ t[1].do = "link" /\ \A S : Has(t, S) <=> "link" \in S
    <2> DEFINE dd == "link"
    <2>1. dd = "link" /\ dd \in {"clear", "create", "touch", "link"} /\ (dd \in {"create", "link"} => q = Target(c)) /\ t = <<Step(dd, q)>> /\ q \in AnyPath
      BY <1>2, <1>5
    <2> HIDE DEF dd, t
    <2>2. /\ t \in Seq(StepType) /\ t # <<>> /\ t[1].do = dd
          /\ Plan(c, t) /\ \A F : ParentsAreDirs(F, None, t)
          /\ \A k \in 1..Len(t) : t[k].do = dd
      BY ONLY <2>1, OneLaid
    <2>3. \A S : Has(t, S) <=> dd \in S
      BY ONLY <2>1, OneLaid
    <2> QED BY <2>1, <2>2, <2>3
  <1> HIDE DEF t
  <1>15. /\ Laid(whiteouts, ent, node, c, u) /\ u # <<>>
         /\ Head(u).do \notin {"fill", "origin"} /\ (Head(u).do = "whiteout" => FALSE)
         /\ (Has(u, Copying) => Has(w, Copying)) /\ (Has(u, {"copy"}) => Has(w, {"copy"})) /\ (Has(u, {"origin"}) => Has(w, {"origin"}))
         /\ (\A dd \in Ending : Has(u, {dd}) => Has(t, {dd}))
         /\ \A S : Has(t, S) => Has(u, S)
    <2>1. t[1].do # "whiteout" /\ \A k \in 1..Len(t) : t[k].do \notin {"copy", "fill", "origin"}
      BY <1>14
    <2>2. \A k \in 1..Len(t) : t[k].do \in {"parent", "create", "move"} =>
              HasStep(w, Step("clear", t[k].at)) \/ \E j \in 1..k - 1 : t[j] = Step("clear", t[k].at)
      BY <1>14
    <2>3. u = w \o t /\ Opening(whiteouts, ent, node, c, w)
      BY <1>13
    <2> QED BY ONLY <1>14, <2>1, <2>2, <2>3, CopyThen
  <1> HIDE DEF u
  <1>16. Source(ent, m, c, i.ino, u)
    <2> DEFINE b == i.ino
    <2>1. Has(u, Copying) => p \in DOMAIN mem.src /\ mem.src[p] = b /\ <<"base", b>> \in DOMAIN mem.rev
      BY <1>11, <1>12, <1>13, <1>15
    <2>2. Has(u, {"copy"}) => WalkIn(ent, p) = None
      BY <1>12, <1>13, <1>15 DEF NotThere
    <2>3. u # <<>> => Head(u).do # "whiteout"
      BY <1>15
    <2> HIDE DEF b
    <2>4. Source(ent, m, c, b, u)
      BY ONLY <1>5, <1>8, <2>1, <2>2, <2>3, SourceOf
    <2> QED BY <2>4 DEF b
  <1>17. Hands(ent, node, dcache, m, c, x, y, u)
    <2>1. \A dd \in Ending : dd # "link" => ~Has(u, {dd})
      BY <1>14, <1>15
    <2>2. ~Has(u, {"create"}) /\ ~Has(u, {"remove"}) /\ ~Has(u, {"move"}) /\ ~Has(u, {"whiteout"}) /\ ~Has(u, {"touch"})
      BY <2>1 DEF Ending
    <2>3. Has(u, {"link"})
      BY <1>14, <1>15
    <2>4. CachedDir(node, dcache, m, x, Front(q))
      BY <1>2, <1>8 DEF CachedDir
    <2> QED BY <1>2, <1>5, <2>2, <2>3, <2>4 DEF Hands
  <1>18. u # <<>> => Head(u).do \notin {"fill", "origin"}
    BY <1>15
  <1> QED BY ONLY OverlayInv, Whole, <1>1, <1>3, <1>8, <1>9, <1>15, <1>16, <1>17, <1>18, Starts

LEMMA RenameSound == ASSUME NEW p \in Paths, NEW q \in Paths, OverlayInv, Whole, Rename(p, q) PROVE Whole'
PROOF
  <1> DEFINE r1 == Found(p)
             k == r1.m
             r2 == Look(k, Parent(q), Last(q))
             m == r2.m
             i == m.inode[r1.ino]
             c == Call("rename", p, q)
             x == Parent(p)
             y == Parent(q)
             s == IF i.layer = "base" THEN CopyUp(m, p, i.ino) ELSE <<>>
             w == s \o <<Step("clear", q)>> \o Parents(q)
             t == <<Step("move", q), Step("whiteout", p)>>
             u == w \o t
  <1>1. /\ Ready /\ KnownParent(p) /\ KnownParent(q) /\ r1.ino # None
        /\ ~IsPrefix(p, q) /\ ~IsPrefix(q, p)
        /\ r2.ino # None => (Kind(m, r2.ino) = "dir") = (Kind(k, r1.ino) = "dir")
    BY DEF Rename, Serving
  <1>2. /\ p \in Named /\ p \in AnyPath /\ OverlayPath(p) = p /\ r1 = Look(mem, x, Last(p))
        /\ x = dcache[Front(p)] /\ Front(p) \in DOMAIN dcache /\ IsDir(node, mem, x)
    BY <1>1, CalledIn
  <1>3. /\ q \in Named /\ q \in AnyPath /\ Len(q) \in {1, 2} /\ OverlayPath(q) = q
        /\ y = dcache[Front(q)] /\ Front(q) \in DOMAIN dcache /\ IsDir(node, mem, y) /\ r2 = Look(k, y, Last(q))
    BY <1>1, CalledIn
  <1>4. Begin(c, x, y, i.ino, m, u)
    BY <1>2, <1>3 DEF Rename
  <1>5. /\ Good(ent, node, origin, nextDelta, None, dcache, mem) /\ NoneHidden(whiteouts, dcache, mem) /\ DeltaTyped /\ MemTyped(mem)
        /\ \A z \in DOMAIN dcache : dcache[z] \in DOMAIN mem.inode
    BY <1>1, Idling
  <1>6. c.what = "rename" /\ c.p = p /\ c.q = q /\ Target(c) = q
    BY DEF Call, Target
  <1>7. Front(q) \in DOMAIN Base /\ WalkIn(ent, Front(q)) = None => Base[Front(q)] = "dir"
    BY <1>1, ParentShown
  <1> HIDE DEF r1, c, x, y
  <1>8. LooksUp(dcache, mem, p, r1)
    BY <1>1, <1>2, <1>5, LookedUp DEF x
  <1>9. /\ Good(ent, node, origin, nextDelta, None, dcache, k) /\ Extends(mem, k) /\ IsDir(node, k, x) /\ IsDir(node, k, y)
        /\ DOMAIN mem.rev \subseteq DOMAIN k.rev /\ SrcGrows(mem, k) /\ MemTyped(k)
        /\ r1.ino \in DOMAIN k.inode /\ ~IsWhiteout(p) /\ CachedFits(ent, node, origin, None, k, r1.ino, p)
        /\ Kind(k, r1.ino) = "dir" =>
             IF WalkIn(ent, p) = None THEN p \in DOMAIN Base /\ Base[p] = "dir" ELSE Dir(node, WalkIn(ent, p))
        /\ \A z \in DOMAIN mem.inode : IsDir(node, mem, z) => IsDir(node, k, z)
    BY <1>1, <1>2, <1>3, <1>5, <1>8 DEF LooksUp, Extends
  <1>10. x \in DOMAIN k.inode /\ y \in DOMAIN k.inode /\ \A z \in DOMAIN dcache : dcache[z] \in DOMAIN k.inode
    BY <1>2, <1>3, <1>5, <1>9 DEF Extends
  <1> HIDE DEF k
  <1>11. LooksUp(dcache, k, q, r2)
    BY <1>1, <1>3, <1>9, LookedUp DEF y
  <1> HIDE DEF r2
  <1>12. /\ Good(ent, node, origin, nextDelta, None, dcache, m) /\ Extends(k, m) /\ IsDir(node, m, x) /\ IsDir(node, m, y)
         /\ DOMAIN k.rev \subseteq DOMAIN m.rev /\ SrcGrows(k, m)
    BY <1>9, <1>10, <1>11 DEF LooksUp, Extends
  <1>13. NoneHidden(whiteouts, dcache, k)
    BY <1>5, <1>9, HiddenStill
  <1>14. NoneHidden(whiteouts, dcache, m) /\ \A z \in DOMAIN dcache : m.inode[dcache[z]].layer = "base" => k.inode[dcache[z]].layer = "base"
    BY <1>10, <1>12, <1>13, HiddenStill
  <1>15. i.layer = "base" => i = k.inode[r1.ino]
    BY <1>9, <1>12 DEF Extends
  <1>16. p \notin whiteouts
    BY <1>2, <1>9, HiddenBy DEF Named
  <1>17. i.layer = "base" =>
          /\ p \in DOMAIN k.src /\ k.src[p] = i.ino /\ p \in DOMAIN Base /\ <<"base", i.ino>> \in DOMAIN k.rev
    <2> SUFFICES ASSUME i.layer = "base"
                 PROVE  p \in DOMAIN k.src /\ k.src[p] = i.ino /\ p \in DOMAIN Base /\ <<"base", i.ino>> \in DOMAIN k.rev
      OBVIOUS
    <2> DEFINE v == r1.ino
    <2>2. k.inode[v].layer = "base" /\ v \in DOMAIN k.inode /\ CachedFits(ent, node, origin, None, k, v, p)
      BY <1>9, <1>15
    <2> HIDE DEF v
    <2>3. /\ p \in DOMAIN k.src /\ k.src[p] = k.inode[v].ino /\ p \in DOMAIN Base
          /\ <<"base", k.inode[v].ino>> \in DOMAIN k.rev
      BY <1>9, <2>2, CachedBase
    <2> QED BY <1>15, <2>3 DEF v
  <1> HIDE DEF m
  <1>18. Opening(whiteouts, ent, node, c, s) /\ NotThere(p, s) /\ (s # <<>> => i.layer = "base")
    <2>1. CASE i.layer = "base"
      <3> DEFINE b == i.ino
      <3>1. s = CopyUp(m, p, b) /\ DeltaTyped /\ p = c.p /\ p \in DOMAIN Base /\ p \notin whiteouts
        BY <1>5, <1>6, <1>16, <1>17, <2>1
      <3> HIDE DEF b, s, i
      <3>2. Opening(whiteouts, ent, node, c, s) /\ NotThere(p, s)
        BY ONLY <3>1, CopyUpLaid
      <3> QED BY <2>1, <3>2
    <2>2. CASE i.layer # "base"
      <3>1. s = <<>>
        BY <2>2
      <3> QED BY <2>2, <3>1, NoneLaid DEF Opening, NotThere
    <2> QED BY <2>1, <2>2
  <1> HIDE DEF s, i
  <1>19. /\ Opening(whiteouts, ent, node, c, w) /\ w # <<>> /\ HasStep(w, Step("clear", q))
         /\ (Has(w, Copying) => s # <<>>) /\ (Has(w, {"copy"}) => s # <<>>)
    <2>1. w = s \o <<Step("clear", q)>> \o Parents(q)
      OBVIOUS
    <2> HIDE DEF w
    <2> QED BY ONLY <1>3, <1>7, <1>18, <2>1, OpensLaid
  <1> HIDE DEF w
  <1>20. /\ t \in Seq(StepType) /\ t # <<>> /\ Plan(c, t) /\ ParentsAreDirs(ent, None, t) /\ t[1].do = "move"
         /\ (\A j \in 1..Len(t) : t[j].do \in {"move", "whiteout"} /\ (t[j].do = "move" => t[j].at = q))
         /\ \A S : Has(t, S) => "move" \in S \/ "whiteout" \in S
    <2> DEFINE d == "move"
    <2>1. d = "move" /\ d \in {"remove", "move"} /\ c.p = p /\ q = Target(c) /\ (d = "remove" => q = p) /\ t = <<Step(d, q), Step("whiteout", p)>>
      BY <1>6
    <2> HIDE DEF d, t
    <2>2. /\ t \in Seq(StepType) /\ t # <<>> /\ t[1].do = d /\ Plan(c, t) /\ ParentsAreDirs(ent, None, t)
          /\ \A j \in 1..Len(t) : t[j].do \in {d, "whiteout"} /\ (t[j].do = d => t[j].at = q)
      BY ONLY <1>2, <1>3, <2>1, TwoLaid
    <2>3. \A S : Has(t, S) => d \in S \/ "whiteout" \in S
      BY ONLY <1>2, <1>3, <2>1, TwoLaid
    <2> QED BY <2>1, <2>2, <2>3
  <1> HIDE DEF t
  <1>21. /\ Laid(whiteouts, ent, node, c, u) /\ u # <<>>
         /\ Head(u).do \notin {"fill", "origin"} /\ (Head(u).do = "whiteout" => FALSE)
         /\ (Has(u, Copying) => Has(w, Copying)) /\ (Has(u, {"copy"}) => Has(w, {"copy"})) /\ (Has(u, {"origin"}) => Has(w, {"origin"}))
         /\ (\A dd \in Ending : Has(u, {dd}) => Has(t, {dd}))
         /\ \A S : Has(t, S) => Has(u, S)
    <2>1. t[1].do # "whiteout" /\ \A j \in 1..Len(t) : t[j].do \notin {"copy", "fill", "origin"}
      BY <1>20
    <2>2. \A h \in 1..Len(t) : t[h].do \in {"parent", "create", "move"} =>
              HasStep(w, Step("clear", t[h].at)) \/ \E j \in 1..h - 1 : t[j] = Step("clear", t[h].at)
      BY <1>19, <1>20
    <2>3. u = w \o t /\ Opening(whiteouts, ent, node, c, w)
      BY <1>19
    <2> QED BY ONLY <1>20, <2>1, <2>2, <2>3, CopyThen
  <1> HIDE DEF u
  <1>22. Source(ent, m, c, i.ino, u)
    <2> DEFINE b == i.ino
    <2>1. Has(u, Copying) => p \in DOMAIN k.src /\ k.src[p] = b /\ <<"base", b>> \in DOMAIN k.rev
      BY <1>17, <1>18, <1>19, <1>21
    <2>2. Has(u, {"copy"}) => WalkIn(ent, p) = None
      BY <1>18, <1>19, <1>21 DEF NotThere
    <2>3. u # <<>> => Head(u).do # "whiteout"
      BY <1>21
    <2> HIDE DEF b
    <2>4. Source(ent, m, c, b, u)
      BY ONLY <1>6, <1>12, <2>1, <2>2, <2>3, SourceOf
    <2> QED BY <2>4 DEF b
  <1>23. ASSUME q \in DOMAIN dcache, m.inode[dcache[q]].layer = "base", Base[q] = "dir", WalkIn(ent, q) = None
         PROVE  IF WalkIn(ent, p) = None THEN p \in DOMAIN Base /\ Base[p] = "dir" ELSE Dir(node, WalkIn(ent, p))
    <2>1. k.inode[dcache[q]].layer = "base" /\ q \notin whiteouts
      BY <1>14, <1>23 DEF NoneHidden
    <2>2. ~IsWhiteout(q)
      BY <1>1, <2>1, ParentShown
    <2>3. r2.ino # None /\ Kind(m, r2.ino) = "dir"
      BY <1>11, <1>23, <2>1, <2>2 DEF LooksUp, m
    <2> QED BY <1>1, <1>9, <2>3
  <1>24. Hands(ent, node, dcache, m, c, x, y, u)
    <2>1. \A dd \in Ending : dd \notin {"move", "whiteout"} => ~Has(u, {dd})
      BY <1>20, <1>21
    <2>2. ~Has(u, {"create"}) /\ ~Has(u, {"remove"}) /\ ~Has(u, {"link"}) /\ ~Has(u, {"touch"})
      BY <2>1 DEF Ending
    <2>3. CachedDir(node, dcache, m, x, Front(p)) /\ CachedDir(node, dcache, m, y, Front(q))
      BY <1>2, <1>3, <1>12 DEF CachedDir
    <2>4. (Has(u, {"move"}) /\ c.q \in DOMAIN dcache) =>
               (m.inode[dcache[c.q]].layer = "base" /\ Base[c.q] = "dir" /\ WalkIn(ent, c.q) = None =>
                 IF WalkIn(ent, c.p) = None THEN c.p \in DOMAIN Base /\ Base[c.p] = "dir" ELSE Dir(node, WalkIn(ent, c.p)))
      BY <1>6, <1>23
    <2> QED BY <1>1, <1>2, <1>3, <1>6, <2>2, <2>3, <2>4 DEF Hands
  <1>25. u # <<>> => Head(u).do \notin {"fill", "origin"}
    BY <1>21
  <1>26. Ready /\ Begin(c, x, y, i.ino, m, u)
    BY <1>1, <1>4
  <1> QED BY ONLY OverlayInv, Whole, <1>12, <1>14, <1>21, <1>22, <1>24, <1>25, <1>26, Starts

-----------------------------------------------------------------------------
(* Every step keeps it, and what it says of whiteouts.                     *)

LEMMA NextSound == OverlayInv /\ Whole /\ ~stale' /\ [Next]_vars => Whole'
PROOF
  <1> SUFFICES ASSUME OverlayInv, Whole, ~stale', [Next]_vars PROVE Whole'
    OBVIOUS
  <1>1. ASSUME NEW p \in Paths, Lookup(p) PROVE Whole'
    BY <1>1, LookupSound
  <1>2. ASSUME NEW p \in Paths, Mkdir(p) \/ CreateFile(p) \/ Mknod(p) \/ Symlink(p) PROVE Whole'
    BY <1>2, CreateNodeSound DEF Mkdir, CreateFile, Mknod, Symlink
  <1>3. ASSUME NEW p \in Paths, Chmod(p) \/ Chown(p) \/ Utimens(p) \/ Open(p) PROVE Whole'
    BY <1>3, OnInodeSound DEF Chmod, Chown, Utimens, Open
  <1>4. ASSUME NEW p \in Paths, Unlink(p) PROVE Whole'
    BY <1>4, UnlinkSound
  <1>5. ASSUME NEW p \in Paths, Rmdir(p) PROVE Whole'
    BY <1>5, RmdirSound
  <1>6. ASSUME NEW p \in Paths, Forget(p) PROVE Whole'
    BY <1>6, ForgetSound
  <1>7. ASSUME NEW p \in Paths, NEW q \in Paths, Link(p, q) PROVE Whole'
    BY <1>7, LinkSound
  <1>8. ASSUME NEW p \in Paths, NEW q \in Paths, Rename(p, q) PROVE Whole'
    BY <1>8, RenameSound
  <1>9. ASSUME NEW p \in {Root} \cup Paths, ReaddirPlus(p) PROVE Whole'
    BY <1>9, ReaddirPlusSound
  <1>10. CASE RemoveWhiteout \/ EnsureParent \/ ParentOrigin
    BY <1>10, RemoveWhiteoutSound, EnsureParentSound, ParentOriginSound
  <1>11. CASE Copy \/ Fill \/ AddOrigin \/ Touch
    BY <1>11, CopySound, FillSound, AddOriginSound, TouchSound
  <1>12. CASE Make \/ RemoveDelta \/ CreateWhiteout \/ Move
    BY <1>12, MakeSound, RemoveDeltaSound, CreateWhiteoutSound, MoveSound
  <1>13. CASE MakeLink
    BY <1>13 DEF MakeLink
  <1>14. CASE Reply \/ Fail \/ Remount
    BY <1>14, ReplySound, FailSound, RemountSound
  <1>15. CASE UNCHANGED vars
    BY <1>15, StutterSound
  <1> QED BY <1>1, <1>2, <1>3, <1>4, <1>5, <1>6, <1>7, <1>8, <1>9, <1>10, <1>11, <1>12, <1>13, <1>14, <1>15 DEF Next

\* What went stale stays so.
LEMMA StaleStays == OverlayInv /\ [Next]_vars /\ stale => stale'
PROOF
  <1> SUFFICES ASSUME stale, [Next]_vars PROVE stale'
    OBVIOUS
  <1>1. ASSUME NEW p \in Paths, \/ Lookup(p) \/ Unlink(p) \/ Rmdir(p) \/ Forget(p) \/ \E q \in Paths : Link(p, q)
                                \/ \E q \in Paths : Rename(p, q)
        PROVE  stale'
    BY <1>1 DEF Lookup, Unlink, Rmdir, Forget, Link, Rename
  <1>2. ASSUME NEW p \in Paths, Mkdir(p) \/ CreateFile(p) \/ Mknod(p) \/ Symlink(p) PROVE stale'
    BY <1>2 DEF Mkdir, CreateFile, Mknod, Symlink, CreateNode
  <1>3. ASSUME NEW p \in Paths, Chmod(p) \/ Chown(p) \/ Utimens(p) \/ Open(p) PROVE stale'
    BY <1>3 DEF Chmod, Chown, Utimens, Open, OnInode
  <1>4. ASSUME NEW p \in {Root} \cup Paths, ReaddirPlus(p) PROVE stale'
    BY <1>4 DEF ReaddirPlus
  <1>5. CASE RemoveWhiteout \/ EnsureParent \/ ParentOrigin \/ Copy \/ Fill \/ AddOrigin \/ Touch
    BY <1>5 DEF RemoveWhiteout, EnsureParent, ParentOrigin, Copy, Fill, AddOrigin, Touch
  <1>6. CASE Make \/ MakeLink \/ RemoveDelta \/ CreateWhiteout \/ Move
    BY <1>6 DEF Make, MakeLink, RemoveDelta, CreateWhiteout, Move
  <1>7. CASE Reply \/ Fail \/ Remount
    BY <1>7 DEF Reply, Fail, Remount
  <1>8. CASE UNCHANGED vars
    BY <1>8 DEF vars
  <1> QED BY <1>1, <1>2, <1>3, <1>4, <1>5, <1>6, <1>7, <1>8 DEF Next

LEMMA StaysSound == OverlaySound /\ [Next]_vars => OverlaySound'
PROOF
  <1> SUFFICES ASSUME OverlaySound, [Next]_vars PROVE OverlaySound'
    OBVIOUS
  <1>1. OverlayInv'
    BY NextSafe DEF OverlaySound
  <1>2. ~stale' => ~stale
    BY StaleStays DEF OverlaySound
  <1>3. ~stale' => Whole'
    BY <1>2, NextSound DEF OverlaySound
  <1> QED BY <1>1, <1>3 DEF OverlaySound

\* No whiteout hides an entry of the delta, whatever came before, as long as
\* nothing made the paths in the maps or in fs_origin mean another file: a
\* removal writes its whiteout only where no entry is left, and whoever makes
\* an entry or a parent directory has cleared the whiteout at its name before.
THEOREM OverlayWhiteouts == Spec => []WhiteoutHidesBaseOnly
PROOF
  <1>1. Init => OverlaySound
    BY InitSafe, InitSound DEF OverlaySound
  <1>2. OverlaySound /\ [Next]_vars => OverlaySound'
    BY StaysSound
  <1>3. OverlaySound => WhiteoutHidesBaseOnly
    BY WalkIsIn DEF OverlaySound, Whole, Hidden, WhiteoutHidesBaseOnly
  <1> QED BY <1>1, <1>2, <1>3, PTL DEF Spec
==============================================================================
