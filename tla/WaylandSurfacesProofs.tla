----------------------- MODULE WaylandSurfacesProofs -----------------------
(***************************************************************************)
(* Proofs about WaylandSurfaces: nothing refers to a surface that is gone, *)
(* grabbing popups are nested, and clients are told of their focus, for    *)
(* any number of slots and clients.                                        *)
(***************************************************************************)
EXTENDS WaylandSurfaces, FiniteSetTheorems, WellFoundedInduction, TLAPS

Kinds == {"surface", "xdg", "toplevel", "popup", "subsurface"}
Roles == {"none", "toplevel", "popup", "subsurface", "cursor"}

SlotType ==
    [owner : Clients \cup {Nobody}, res : SUBSET Kinds, role : Roles,
     parent : Slots \cup {None}, dismissed : BOOLEAN, grabbed : BOOLEAN,
     sent : BOOLEAN, configured : BOOLEAN, unacked : BOOLEAN,
     pixels : BOOLEAN, committed : BOOLEAN, window : BOOLEAN, frames : Nat]

SeatType ==
    [keyboard : Slots \cup {None}, pointer : Slots \cup {None}, grab : Slots \cup {None},
     cursor : Slots \cup {None}, buttons : SUBSET Buttons]

WorldType ==
    [surface : [Slots -> SlotType], seat : SeatType, told : [Clients -> Slots \cup {None}]]

\* What a slot's objects say of its role, its parent, its window and its grab.
SlotFits(sl, s) ==
    /\ sl[s].res = {} => sl[s] = Free
    /\ sl[s].res # {} => sl[s].owner \in Clients
    /\ \A kind \in {"toplevel", "popup", "subsurface"} : kind \in sl[s].res => sl[s].role = kind
    /\ sl[s].window => sl[s].role = "toplevel" /\ MayHaveKeyboard(sl, s)
    /\ sl[s].grabbed => "popup" \in sl[s].res /\ sl[s].parent # None

\* A popup hangs from a toplevel or from a popup that hangs itself; whatever
\* hangs, hangs from a surface that is there.
Hangs(sl, s) ==
    sl[s].parent # None =>
        /\ HasOverlayRole(sl, s)
        /\ "surface" \in sl[sl[s].parent].res
        /\ "popup" \in sl[s].res =>
             \/ "toplevel" \in sl[sl[s].parent].res
             \/ "popup" \in sl[sl[s].parent].res /\ sl[sl[s].parent].parent # None

\* No set of slots in which each hangs from another of the set.
Acyclic(sl) ==
    \A X \in SUBSET Slots : X # {} => \E s \in X : sl[s].parent \notin X

Grabbing(sl) == {s \in Slots : "popup" \in sl[s].res /\ sl[s].grabbed /\ ~sl[s].dismissed}

Nested(sl) ==
    \A s, t \in Grabbing(sl) :
        RootToplevel(sl, s) = RootToplevel(sl, t) =>
            s = t \/ s \in Below(sl, {t}) \/ t \in Below(sl, {s})

TreeInv(sl) ==
    /\ \A s \in Slots : SlotFits(sl, s) /\ Hangs(sl, s)
    /\ Acyclic(sl)
    /\ Nested(sl)

\* What the seat refers to is there.
SeatFits(w) ==
    /\ {w.seat.keyboard, w.seat.pointer, w.seat.grab, w.seat.cursor} \ {None} \subseteq
         {s \in Slots : "surface" \in w.surface[s].res}
    /\ w.seat.keyboard # None => MayHaveKeyboard(w.surface, w.seat.keyboard)
    /\ (w.seat.grab # None) = (w.seat.buttons # {})

\* The focus a client knows of is a surface of its own, and that of a client of
\* `live` is the true one.
ToldFits(w, live) ==
    \A c \in Clients :
        /\ w.told[c] # None =>
             w.surface[w.told[c]].owner = c /\ "surface" \in w.surface[w.told[c]].res
        /\ c \in live =>
             w.told[c] = IF w.seat.keyboard # None /\ w.surface[w.seat.keyboard].owner = c
                         THEN w.seat.keyboard ELSE None

WorldInv(w, live) ==
    w \in WorldType /\ TreeInv(w.surface) /\ SeatFits(w) /\ ToldFits(w, live)

Live == {c \in Clients : client[c] = "live"}

SurfaceInv ==
    /\ client \in [Clients -> {"live", "dying"}] /\ handled \in BOOLEAN
    /\ WorldInv(World, Live)

-----------------------------------------------------------------------------
(***************************************************************************)
(* Recursion over an interval of numbers.                                  *)
(***************************************************************************)
\* A non-empty set of naturals has a least element.
LEMMA LeastOf ==
  ASSUME NEW S \in SUBSET Nat, S # {}
  PROVE  \E n \in S : \A k \in S : n <= k
<1>1. PICK n \in S : \A k \in S : <<k, n>> \notin OpToRel(<, Nat)
  BY NatLessThanWellFounded, WFMin
<1>2. ASSUME NEW k \in S PROVE n <= k
  <2>1. OpToRel(<, Nat) = {ss \in Nat \X Nat : ss[1] < ss[2]}
    BY Zenon DEF OpToRel
  <2>2. <<k, n>> \notin {ss \in Nat \X Nat : ss[1] < ss[2]}
    BY <1>1, <2>1, Zenon
  <2> QED
    BY <2>2
<1> QED
  BY <1>2

\* A property of naturals that passes from each to the next holds of all.
LEMMA Induct ==
  ASSUME NEW H \in SUBSET Nat, NEW n \in Nat, 0 \in H, \A k \in 1 .. n : k - 1 \in H => k \in H
  PROVE  n \in H
<1> SUFFICES ASSUME n \notin H PROVE FALSE
  OBVIOUS
<1> DEFINE B == (0 .. n) \ H
<1>0. B \in SUBSET Nat /\ B # {}
  OBVIOUS
<1>1. PICK k \in B : \A l \in B : k <= l
  <2> HIDE DEF B
  <2> QED
    BY <1>0, LeastOf
<1>2. k \in 1 .. n /\ k - 1 \in 0 .. n /\ ~(k <= k - 1)
  BY <1>1
<1> QED
  BY <1>1, <1>2


Steps(T) == [T -> T]

Iterates(f, N, base, step) == f[0] = base /\ \A k \in 1 .. N : f[k] = step[f[k - 1]]

\* A step repeated from a first value on has a result at each number.
LEMMA Iteration ==
  ASSUME NEW T, NEW N \in Nat, NEW base \in T, NEW step \in Steps(T)
  PROVE  \E f \in [0 .. N -> T] : Iterates(f, N, base, step)
<1> DEFINE Upto(n, f) == f[0] = base /\ \A k \in 1 .. n : f[k] = step[f[k - 1]]
           H == {n \in 0 .. N : \E f \in [0 .. n -> T] : Upto(n, f)}
<1>0. step \in [T -> T]
  BY DEF Steps
<1>1. 0 \in H
  <2> DEFINE g == [k \in 0 .. 0 |-> base]
  <2>1. g \in [0 .. 0 -> T] /\ Upto(0, g)
    OBVIOUS
  <2>2. \E f \in [0 .. 0 -> T] : Upto(0, f)
    BY <2>1
  <2> QED
    BY <2>2
<1>2. ASSUME NEW n \in 1 .. N, n - 1 \in H
      PROVE  n \in H
  <2>1. PICK f \in [0 .. n - 1 -> T] : Upto(n - 1, f)
    BY <1>2
  <2> DEFINE g == [k \in 0 .. n |-> IF k = n THEN step[f[n - 1]] ELSE f[k]]
  <2>2. g \in [0 .. n -> T]
    BY <1>0
  <2>3. g[n] = step[f[n - 1]] /\ \A k \in 0 .. n - 1 : g[k] = f[k]
    OBVIOUS
  <2> HIDE DEF g
  <2>4. ASSUME NEW k \in 1 .. n PROVE g[k] = step[g[k - 1]]
    <3>1. g[k - 1] = f[k - 1]
      BY <2>3
    <3>2. CASE k = n
      BY <2>3, <3>1, <3>2
    <3>3. CASE k # n
      BY <2>1, <2>3, <3>1, <3>3
    <3> QED
      BY <3>2, <3>3
  <2>5. g[0] = base
    BY <2>1, <2>3
  <2>6. Upto(n, g)
    BY <2>4, <2>5
  <2> HIDE DEF Upto
  <2> QED
    BY <2>2, <2>6
<1>3. N \in H
  <2>1. H \in SUBSET Nat
    OBVIOUS
  <2> HIDE DEF H
  <2> QED
    BY <1>1, <1>2, <2>1, Induct
<1> QED
  BY <1>3 DEF Iterates

\* A function that starts in T and whose values never leave T.
LEMMA StaysIn ==
  ASSUME NEW T, NEW N \in Nat, NEW g, g = [n \in 0 .. N |-> g[n]], g[0] \in T,
         \A n \in 1 .. N : g[n - 1] \in T => g[n] \in T
  PROVE  g \in [0 .. N -> T]
<1> DEFINE H == {n \in 0 .. N : g[n] \in T}
<1>1. 0 \in H /\ H \in SUBSET Nat
  OBVIOUS
<1>2. ASSUME NEW n \in 1 .. N, n - 1 \in H PROVE n \in H
  <2>1. g[n - 1] \in T /\ n \in 0 .. N
    BY <1>2
  <2> QED
    BY <2>1
<1>3. \A n \in 0 .. N : n \in H
  <2> HIDE DEF H
  <2>1. ASSUME NEW n \in 0 .. N PROVE n \in H
    <3>1. n \in Nat /\ \A k \in 1 .. n : k \in 1 .. N
      OBVIOUS
    <3> QED
      BY <1>1, <1>2, <3>1, Induct
  <2> QED
    BY <2>1
<1>4. \A n \in 0 .. N : g[n] \in T
  BY <1>3
<1> QED
  BY <1>4

-----------------------------------------------------------------------------
(***************************************************************************)
(* What hangs below a slot, and the toplevel at its root.                  *)
(***************************************************************************)
\* The slots of A and those that hang from one.
Grown(sl, A) == A \cup {s \in Slots : IsOverlay(sl, s) /\ sl[s].parent \in A}

IsLevels(sl, roots, f) ==
    f = [n \in 0 .. NSlots |->
          IF n = 0 THEN roots
          ELSE f[n - 1] \cup {s \in Slots : IsOverlay(sl, s) /\ sl[s].parent \in f[n - 1]}]

Levels(sl, roots) == CHOOSE f : IsLevels(sl, roots, f)

\* A set of slots with all that hangs from it.
Closed(sl, X) == \A s \in Slots : IsOverlay(sl, s) /\ sl[s].parent \in X => s \in X

LEMMA NSlotsType == NSlots \in Nat
BY SurfacesAssumption, FS_CardinalityType DEF NSlots

\* The levels of Below.
LEMMA BelowLevels ==
  ASSUME NEW sl, NEW roots \in SUBSET Slots
  PROVE  /\ Below(sl, roots) = Levels(sl, roots)[NSlots] \ roots
         /\ Levels(sl, roots) \in [0 .. NSlots -> SUBSET Slots]
         /\ Levels(sl, roots)[0] = roots
         /\ \A n \in 1 .. NSlots : Levels(sl, roots)[n] = Grown(sl, Levels(sl, roots)[n - 1])
<1> DEFINE T == SUBSET Slots
           N == NSlots
           step == [A \in T |-> Grown(sl, A)]
           g == Levels(sl, roots)
<1>1. step \in Steps(T) /\ N \in Nat /\ roots \in T
  BY NSlotsType DEF Grown, Steps
<1>2. PICK f \in [0 .. N -> T] : Iterates(f, N, roots, step)
  <2> HIDE DEF T, N, step
  <2> QED
    BY <1>1, Iteration
<1>3. IsLevels(sl, roots, f)
  <2>1. ASSUME NEW n \in 0 .. N
        PROVE  f[n] = IF n = 0 THEN roots ELSE Grown(sl, f[n - 1])
    <3>1. CASE n = 0
      BY <1>2, <3>1 DEF Iterates
    <3>2. CASE n # 0
      <4>1. n \in 1 .. N /\ n - 1 \in 0 .. N
        BY <1>1, <3>2
      <4>2. f[n - 1] \in T /\ f[n] = step[f[n - 1]]
        BY <1>2, <4>1 DEF Iterates
      <4> QED
        BY <3>2, <4>2
    <3> QED
      BY <3>1, <3>2
  <2> QED
    BY <1>2, <2>1, Zenon DEF IsLevels, Grown
<1>4. IsLevels(sl, roots, g)
  BY <1>3 DEF Levels
<1>5. ASSUME NEW n \in 0 .. N
      PROVE  g[n] = IF n = 0 THEN roots ELSE Grown(sl, g[n - 1])
  BY <1>4, Zenon DEF IsLevels, Grown
<1>6. g = [n \in 0 .. N |-> g[n]] /\ g[0] = roots
  <2>1. g[0] = roots
    BY <1>1, <1>5
  <2> QED
    BY <1>4, <2>1 DEF IsLevels
<1>7. \A n \in 1 .. N : g[n] = Grown(sl, g[n - 1])
  BY <1>1, <1>5
<1>8. g \in [0 .. N -> T]
  <2>1. g[0] \in T /\ \A n \in 1 .. N : g[n - 1] \in T => g[n] \in T
    BY <1>6, <1>7 DEF Grown
  <2> HIDE DEF T, N, step, g
  <2> QED
    BY <1>1, <1>6, <2>1, StaysIn
<1>9. Below(sl, roots) = g[N] \ roots
  BY DEF Below, Levels, IsLevels
<1> QED
  BY <1>6, <1>7, <1>8, <1>9

\* Where the search for the toplevel goes from t.
Up(sl, t) == IF t # None /\ IsOverlay(sl, t) THEN sl[t].parent ELSE t

IsClimb(sl, s, f) ==
    f = [n \in 0 .. NSlots |->
          IF n = 0 THEN s
          ELSE IF f[n - 1] # None /\ IsOverlay(sl, f[n - 1]) THEN sl[f[n - 1]].parent
               ELSE f[n - 1]]

Climb(sl, s) == CHOOSE f : IsClimb(sl, s, f)

\* The search of RootToplevel.
LEMMA ClimbSteps ==
  ASSUME NEW sl \in [Slots -> SlotType], NEW s \in Slots
  PROVE  /\ RootToplevel(sl, s) =
              IF /\ Climb(sl, s)[NSlots] # None
                 /\ sl[Climb(sl, s)[NSlots]].role = "toplevel"
              THEN Climb(sl, s)[NSlots] ELSE None
         /\ Climb(sl, s) \in [0 .. NSlots -> Slots \cup {None}]
         /\ Climb(sl, s)[0] = s
         /\ \A n \in 1 .. NSlots : Climb(sl, s)[n] = Up(sl, Climb(sl, s)[n - 1])
<1> DEFINE T == Slots \cup {None}
           N == NSlots
           step == [t \in T |-> Up(sl, t)]
           g == Climb(sl, s)
<1>1. step \in Steps(T) /\ N \in Nat /\ s \in T
  BY NSlotsType DEF Up, Steps, SlotType
<1>2. PICK f \in [0 .. N -> T] : Iterates(f, N, s, step)
  <2> HIDE DEF T, N, step
  <2> QED
    BY <1>1, Iteration
<1>3. IsClimb(sl, s, f)
  <2>1. ASSUME NEW n \in 0 .. N
        PROVE  f[n] = IF n = 0 THEN s ELSE Up(sl, f[n - 1])
    <3>1. CASE n = 0
      BY <1>2, <3>1 DEF Iterates
    <3>2. CASE n # 0
      <4>1. n \in 1 .. N /\ n - 1 \in 0 .. N
        BY <1>1, <3>2
      <4>2. f[n - 1] \in T /\ f[n] = step[f[n - 1]]
        BY <1>2, <4>1 DEF Iterates
      <4> QED
        BY <3>2, <4>2
    <3> QED
      BY <3>1, <3>2
  <2> QED
    BY <1>2, <2>1, Zenon DEF IsClimb, Up
<1>4. IsClimb(sl, s, g)
  BY <1>3 DEF Climb
<1>5. ASSUME NEW n \in 0 .. N
      PROVE  g[n] = IF n = 0 THEN s ELSE Up(sl, g[n - 1])
  BY <1>4, Zenon DEF IsClimb, Up
<1>6. g = [n \in 0 .. N |-> g[n]] /\ g[0] = s
  <2>1. g[0] = s
    BY <1>1, <1>5
  <2> QED
    BY <1>4, <2>1 DEF IsClimb
<1>7. \A n \in 1 .. N : g[n] = Up(sl, g[n - 1])
  BY <1>1, <1>5
<1>8. g \in [0 .. N -> T]
  <2>1. g[0] \in T /\ \A n \in 1 .. N : g[n - 1] \in T => g[n] \in T
    BY <1>6, <1>7 DEF Up, SlotType
  <2> HIDE DEF T, N, step, g
  <2> QED
    BY <1>1, <1>6, <2>1, StaysIn
<1>9. RootToplevel(sl, s) =
        IF g[N] # None /\ sl[g[N]].role = "toplevel" THEN g[N] ELSE None
  BY DEF RootToplevel, Climb, IsClimb
<1> QED
  BY <1>6, <1>7, <1>8, <1>9

\* What can be shown: the surface of a toplevel's window, or an overlay.
Shown(sl) == {s \in Slots : sl[s].pixels /\ "surface" \in sl[s].res}
Tops(sl) == {s \in Shown(sl) : "toplevel" \in sl[s].res /\ sl[s].window}
MayShow(sl) ==
    {s \in Shown(sl) : \/ /\ "popup" \in sl[s].res
                          /\ sl[s].configured /\ ~sl[s].dismissed
                       \/ "subsurface" \in sl[s].res}

IsMapping(sl, f) ==
    f = [n \in 0 .. NSlots |->
          IF n = 0 THEN Tops(sl)
          ELSE f[n - 1] \cup {s \in MayShow(sl) : sl[s].parent \in f[n - 1]}]

Mapping(sl) == CHOOSE f : IsMapping(sl, f)

\* A mapped surface has contents, and a window or a parent.
LEMMA MappedIsShown ==
  ASSUME NEW sl, NEW s, IsMapped(sl, s)
  PROVE  /\ s \in Slots /\ sl[s].pixels /\ "surface" \in sl[s].res
         /\ \/ "toplevel" \in sl[s].res /\ sl[s].window
            \/ HasOverlayRole(sl, s) /\ sl[s].parent \in Slots
<1> DEFINE M == Tops(sl) \cup {t \in MayShow(sl) : sl[t].parent \in Slots}
           T == SUBSET M
           N == NSlots
           rise(A) == A \cup {t \in MayShow(sl) : sl[t].parent \in A}
           step == [A \in T |-> rise(A)]
           base == Tops(sl)
           g == Mapping(sl)
<1>0. M \subseteq Slots /\ \A A \in T : rise(A) \in T
  BY DEF Tops, Shown, MayShow
<1>1. step \in Steps(T) /\ N \in Nat /\ base \in T
  BY <1>0, NSlotsType DEF Steps
<1>2. PICK f \in [0 .. N -> T] : Iterates(f, N, base, step)
  <2> HIDE DEF T, N, step, base
  <2> QED
    BY <1>1, Iteration
<1>3. IsMapping(sl, f)
  <2>1. ASSUME NEW n \in 0 .. N
        PROVE  f[n] = IF n = 0 THEN base ELSE rise(f[n - 1])
    <3> HIDE DEF base, rise, M
    <3>1. CASE n = 0
      BY <1>2, <3>1 DEF Iterates
    <3>2. CASE n # 0
      <4>1. n \in 1 .. N /\ n - 1 \in 0 .. N
        BY <1>1, <3>2
      <4>2. f[n - 1] \in T /\ f[n] = step[f[n - 1]]
        BY <1>2, <4>1 DEF Iterates
      <4> QED
        BY <3>2, <4>2
    <3> QED
      BY <3>1, <3>2
  <2> QED
    BY <1>2, <2>1, Zenon DEF IsMapping
<1>4. IsMapping(sl, g)
  BY <1>3 DEF Mapping
<1>5. ASSUME NEW n \in 0 .. N
      PROVE  g[n] = IF n = 0 THEN base ELSE rise(g[n - 1])
  BY <1>4, Zenon DEF IsMapping
<1>6. g = [n \in 0 .. N |-> g[n]] /\ g[0] = base
  <2>1. g[0] = base
    <3> HIDE DEF base, rise, g, step, T
    <3> QED
      BY <1>1, <1>5
  <2> QED
    BY <1>4, <2>1 DEF IsMapping
<1>7. g \in [0 .. N -> T]
  <2>1. \A n \in 1 .. N : g[n - 1] \in T => g[n] \in T
    <3> HIDE DEF base, rise, T
    <3> QED
      BY <1>0, <1>1, <1>5
  <2> HIDE DEF T, N, step, g, base, rise
  <2> QED
    BY <1>1, <1>6, <2>1, StaysIn
<1>8. MappedSlots(sl) = g[N]
  BY DEF MappedSlots, Mapping, IsMapping, Tops, MayShow, Shown
<1>9. s \in M
  BY <1>1, <1>7, <1>8 DEF IsMapped
<1> QED
  BY <1>9 DEF Tops, MayShow, Shown, HasOverlayRole

\* Below a slot is all that hangs from it: the least closed set, but for the
\* slot itself.
LEMMA BelowIsClosed ==
  ASSUME NEW sl, NEW r \in Slots
  PROVE  /\ Below(sl, {r}) \in SUBSET (Slots \ {r})
         /\ Closed(sl, Below(sl, {r}) \cup {r})
<1> DEFINE L == Levels(sl, {r})
           N == NSlots
           stable(n) == \A s \in Slots : IsOverlay(sl, s) /\ sl[s].parent \in L[n] => s \in L[n]
           H == {n \in 0 .. N : r \in L[n] /\ (stable(n) \/ Cardinality(L[n]) >= n + 1)}
<1>1. /\ Below(sl, {r}) = L[N] \ {r} /\ L \in [0 .. N -> SUBSET Slots] /\ L[0] = {r}
      /\ \A n \in 1 .. N : L[n] = Grown(sl, L[n - 1])
  BY BelowLevels, {r} \in SUBSET Slots
<1> HIDE DEF L
<1>2. N \in Nat /\ IsFiniteSet(Slots) /\ Cardinality(Slots) = N
  BY NSlotsType, SurfacesAssumption DEF NSlots
<1>3. ASSUME NEW n \in 0 .. N
      PROVE  IsFiniteSet(L[n]) /\ Cardinality(L[n]) \in Nat /\ Cardinality(L[n]) <= N
  <2>1. L[n] \in SUBSET Slots
    BY <1>1
  <2> QED
    BY <1>2, <2>1, FS_Subset, FS_CardinalityType
<1>4. 0 \in H
  <2>1. Cardinality(L[0]) = 1
    BY <1>1, FS_Singleton
  <2>2. r \in L[0] /\ Cardinality(L[0]) >= 0 + 1 /\ 0 \in 0 .. N
    BY <1>1, <1>2, <2>1
  <2> QED
    BY <2>2
<1>5. ASSUME NEW n \in 1 .. N, n - 1 \in H
      PROVE  n \in H
  <2>1. n - 1 \in 0 .. N /\ n \in 0 .. N /\ L[n] = Grown(sl, L[n - 1])
    BY <1>1, <1>2
  <2>2. L[n - 1] \subseteq L[n] /\ r \in L[n]
    BY <1>5, <2>1 DEF Grown
  <2>3. CASE stable(n - 1)
    <3>1. L[n] = L[n - 1]
      BY <2>1, <2>3 DEF Grown
    <3>2. stable(n)
      BY <2>3, <3>1
    <3> QED
      BY <2>1, <2>2, <3>2
  <2>4. CASE ~stable(n - 1)
    <3>1. PICK s \in Slots : IsOverlay(sl, s) /\ sl[s].parent \in L[n - 1] /\ s \notin L[n - 1]
      BY <2>4
    <3>2. L[n - 1] \cup {s} \subseteq L[n]
      BY <2>1, <3>1 DEF Grown
    <3>3. Cardinality(L[n - 1] \cup {s}) = Cardinality(L[n - 1]) + 1
      <4>1. IsFiniteSet(L[n - 1]) /\ s \notin L[n - 1]
        BY <1>3, <2>1, <3>1
      <4> HIDE DEF N
      <4> QED
        BY <4>1, FS_AddElement
    <3>4. Cardinality(L[n - 1] \cup {s}) <= Cardinality(L[n])
      BY <1>3, <2>1, <3>2, FS_Subset
    <3>5. Cardinality(L[n - 1]) >= n
      BY <1>5, <2>4
    <3>6. Cardinality(L[n]) >= n + 1
      BY <1>3, <2>1, <3>3, <3>4, <3>5
    <3> QED
      BY <2>1, <2>2, <3>6
  <2> QED
    BY <2>3, <2>4
<1>6. N \in H
  <2>1. H \in SUBSET Nat
    OBVIOUS
  <2> HIDE DEF H
  <2> QED
    BY <1>2, <1>4, <1>5, <2>1, Induct
<1>7. r \in L[N] /\ stable(N)
  <2>1. Cardinality(L[N]) <= N /\ Cardinality(L[N]) \in Nat
    BY <1>2, <1>3
  <2> QED
    BY <1>2, <1>6, <2>1
<1>8. L[N] \in SUBSET Slots /\ L[N] = Below(sl, {r}) \cup {r}
  <2>1. N \in 0 .. N
    BY <1>2
  <2>2. \A s : s \in L[N] <=> s \in Below(sl, {r}) \cup {r}
    BY <1>1, <1>7
  <2> QED
    BY <1>1, <2>1, <2>2
<1> QED
  BY <1>1, <1>7, <1>8 DEF Closed

LEMMA BelowIsLeast ==
  ASSUME NEW sl, NEW r \in Slots, NEW X \in SUBSET Slots, r \in X, Closed(sl, X)
  PROVE  Below(sl, {r}) \subseteq X
<1> DEFINE L == Levels(sl, {r})
           N == NSlots
           H == {n \in 0 .. N : L[n] \subseteq X}
<1>1. /\ Below(sl, {r}) = L[N] \ {r} /\ L \in [0 .. N -> SUBSET Slots] /\ L[0] = {r}
      /\ \A n \in 1 .. N : L[n] = Grown(sl, L[n - 1])
  BY BelowLevels, {r} \in SUBSET Slots
<1> HIDE DEF L
<1>2. N \in Nat
  BY NSlotsType
<1>3. 0 \in H
  BY <1>1, <1>2
<1>4. ASSUME NEW n \in 1 .. N, n - 1 \in H
      PROVE  n \in H
  <2>1. L[n] = Grown(sl, L[n - 1]) /\ n \in 0 .. N /\ L[n - 1] \subseteq X
    BY <1>1, <1>2, <1>4
  <2>2. L[n] \subseteq X
    BY <2>1 DEF Grown, Closed
  <2> QED
    BY <2>1, <2>2
<1>5. N \in H
  <2>1. H \in SUBSET Nat
    OBVIOUS
  <2> HIDE DEF H
  <2> QED
    BY <1>2, <1>3, <1>4, <2>1, Induct
<1> QED
  BY <1>1, <1>5

\* What is below hangs from the slot or from what is below it.
LEMMA BelowHangs ==
  ASSUME NEW sl, NEW r \in Slots, NEW s \in Below(sl, {r})
  PROVE  s \in Slots \ {r} /\ IsOverlay(sl, s) /\ sl[s].parent \in Below(sl, {r}) \cup {r}
<1> DEFINE B == Below(sl, {r})
           X == {r} \cup {t \in B : IsOverlay(sl, t) /\ sl[t].parent \in B \cup {r}}
<1>1. B \in SUBSET (Slots \ {r}) /\ Closed(sl, B \cup {r})
  BY BelowIsClosed
<1> HIDE DEF B
<1>2. X \in SUBSET Slots /\ r \in X /\ Closed(sl, X)
  BY <1>1 DEF Closed
<1>3. Below(sl, {r}) \subseteq X
  BY <1>2, BelowIsLeast
<1>4. s \in X /\ s # r
  BY <1>1, <1>3 DEF B
<1> QED
  BY <1>1, <1>4 DEF B

\* Without a cycle the search for the toplevel comes to an end in time.
LEMMA TopIsReached ==
  ASSUME NEW sl \in [Slots -> SlotType], Acyclic(sl), NEW s \in Slots
  PROVE  Climb(sl, s)[NSlots] = None \/ ~IsOverlay(sl, Climb(sl, s)[NSlots])
<1> DEFINE C == Climb(sl, s)
           N == NSlots
           A(n) == {C[i] : i \in 0 .. n}
           stopped(n) == C[n] = None \/ ~IsOverlay(sl, C[n])
           goes(n) == \A i \in 0 .. n : C[i] \in Slots /\ IsOverlay(sl, C[i])
           H == {n \in 0 .. N : \/ stopped(n)
                                \/ goes(n) /\ IsFiniteSet(A(n)) /\ Cardinality(A(n)) = n + 1}
<1>1. /\ C \in [0 .. N -> Slots \cup {None}] /\ C[0] = s
      /\ \A n \in 1 .. N : C[n] = Up(sl, C[n - 1])
  BY ClimbSteps
<1> HIDE DEF C
<1>2. N \in Nat /\ IsFiniteSet(Slots) /\ Cardinality(Slots) = N
  BY NSlotsType, SurfacesAssumption DEF NSlots
<1>3. 0 \in H
  <2>1. A(0) = {s}
    BY <1>1
  <2>2. IsFiniteSet(A(0)) /\ Cardinality(A(0)) = 0 + 1
    <3>1. IsFiniteSet({s}) /\ Cardinality({s}) = 1
      BY FS_Singleton, Zenon
    <3> HIDE DEF A
    <3> QED
      BY <2>1, <3>1
  <2>3. stopped(0) \/ goes(0)
    BY <1>1
  <2>4. 0 \in 0 .. N
    BY <1>2
  <2> HIDE DEF A, goes, stopped
  <2> QED
    BY <2>2, <2>3, <2>4
<1>4. ASSUME NEW n \in 1 .. N, n - 1 \in H
      PROVE  n \in H
  <2>1. n - 1 \in 0 .. N /\ n \in 0 .. N /\ C[n] = Up(sl, C[n - 1]) /\ C[n] \in Slots \cup {None}
    BY <1>1, <1>2
  <2>2. CASE stopped(n - 1)
    <3>1. stopped(n)
      BY <2>1, <2>2 DEF Up
    <3> QED
      BY <2>1, <3>1
  <2>3. CASE ~stopped(n - 1) /\ ~stopped(n)
    <3>1. goes(n - 1) /\ IsFiniteSet(A(n - 1)) /\ Cardinality(A(n - 1)) = n
      BY <1>4, <2>3
    <3>2. C[n] \in Slots /\ IsOverlay(sl, C[n]) /\ C[n] = sl[C[n - 1]].parent
      BY <2>1, <2>3 DEF Up
    <3>3. goes(n)
      BY <3>1, <3>2
    <3>4. ASSUME NEW i \in 0 .. n - 1
          PROVE  sl[C[i]].parent = C[i + 1]
      <4>1. i + 1 \in 1 .. N /\ (i + 1) - 1 = i
        BY <1>2, <2>1
      <4>2. C[i + 1] = Up(sl, C[i])
        BY <1>1, <4>1
      <4> QED
        BY <3>1, <4>2, SurfacesAssumption DEF Up
    <3>5. C[n] \notin A(n - 1)
      <4> SUFFICES ASSUME C[n] \in A(n - 1) PROVE FALSE
        OBVIOUS
      <4>1. A(n - 1) \in SUBSET Slots /\ A(n - 1) # {}
        BY <3>1, <2>1
      <4>2. ASSUME NEW x \in A(n - 1) PROVE sl[x].parent \in A(n - 1)
        <5>1. PICK i \in 0 .. n - 1 : x = C[i]
          BY <4>2
        <5>2. sl[x].parent = C[i + 1]
          BY <3>4, <5>1
        <5>3. CASE i = n - 1
          <6>1. i + 1 = n
            BY <5>3
          <6> QED
            BY <5>2, <6>1
        <5>4. CASE i # n - 1
          <6>1. i + 1 \in 0 .. n - 1
            BY <5>4
          <6> QED
            BY <5>2, <6>1
        <5> QED
          BY <5>3, <5>4
      <4> HIDE DEF A
      <4> QED
        BY <4>1, <4>2 DEF Acyclic
    <3>6. A(n) = A(n - 1) \cup {C[n]}
      <4>1. ASSUME NEW i \in 0 .. n PROVE i \in 0 .. n - 1 \/ i = n
        BY <2>1
      <4>2. n \in 0 .. n /\ \A i \in 0 .. n - 1 : i \in 0 .. n
        BY <2>1
      <4> QED
        BY <4>1, <4>2
    <3>7. IsFiniteSet(A(n)) /\ Cardinality(A(n)) = n + 1
      <4> HIDE DEF A, N
      <4> QED
        BY <3>1, <3>5, <3>6, FS_AddElement
    <3> HIDE DEF A, goes, stopped
    <3> QED
      BY <2>1, <3>3, <3>7
  <2> HIDE DEF stopped, goes, A
  <2> QED
    BY <2>1, <2>2, <2>3
<1>5. N \in H
  <2>1. H \in SUBSET Nat
    OBVIOUS
  <2> HIDE DEF H
  <2> QED
    BY <1>2, <1>3, <1>4, <2>1, Induct
<1>6. CASE goes(N) /\ IsFiniteSet(A(N)) /\ Cardinality(A(N)) = N + 1
  <2>1. A(N) \in SUBSET Slots
    BY <1>6
  <2>2. Cardinality(A(N)) <= N
    <3> HIDE DEF A
    <3> QED
      BY <1>2, <2>1, FS_Subset
  <2> QED
    BY <1>2, <1>6, <2>2
<1> QED
  BY <1>5, <1>6 DEF C

\* The root of an overlay is that of its parent, and a toplevel is its own.
LEMMA RootOfParent ==
  ASSUME NEW sl \in [Slots -> SlotType], Acyclic(sl), NEW s \in Slots,
         IsOverlay(sl, s), sl[s].parent \in Slots
  PROVE  RootToplevel(sl, s) = RootToplevel(sl, sl[s].parent)
<1> DEFINE N == NSlots
           p == sl[s].parent
           C == Climb(sl, s)
           D == Climb(sl, p)
           H == {n \in 0 .. N : n = 0 \/ C[n] = D[n - 1]}
<1>1. /\ C \in [0 .. N -> Slots \cup {None}] /\ C[0] = s
      /\ \A n \in 1 .. N : C[n] = Up(sl, C[n - 1])
  BY ClimbSteps
<1>2. /\ D \in [0 .. N -> Slots \cup {None}] /\ D[0] = p
      /\ \A n \in 1 .. N : D[n] = Up(sl, D[n - 1])
  BY ClimbSteps
<1>3. /\ RootToplevel(sl, s) =
           IF C[N] # None /\ sl[C[N]].role = "toplevel" THEN C[N] ELSE None
      /\ RootToplevel(sl, p) =
           IF D[N] # None /\ sl[D[N]].role = "toplevel" THEN D[N] ELSE None
  BY ClimbSteps
<1>4. C[N] = None \/ ~IsOverlay(sl, C[N])
  BY TopIsReached
<1> HIDE DEF C, D
<1>5. N \in Nat /\ N # 0
  BY NSlotsType, SurfacesAssumption, FS_EmptySet DEF NSlots
<1>6. ASSUME NEW n \in 1 .. N, n - 1 \in H
      PROVE  n \in H
  <2>1. n \in 0 .. N /\ n - 1 \in 0 .. N /\ C[n] = Up(sl, C[n - 1])
    BY <1>1, <1>5
  <2>2. CASE n = 1
    BY <1>1, <1>2, <2>1, <2>2, SurfacesAssumption DEF Up
  <2>3. CASE n # 1
    <3>1. C[n - 1] = D[(n - 1) - 1] /\ n - 1 \in 1 .. N
      BY <1>6, <2>3
    <3>2. D[n - 1] = Up(sl, D[(n - 1) - 1])
      BY <1>2, <3>1
    <3> QED
      BY <2>1, <3>1, <3>2
  <2> QED
    BY <2>2, <2>3
<1>7. N \in H
  <2>1. H \in SUBSET Nat /\ 0 \in H
    BY <1>5
  <2> HIDE DEF H
  <2> QED
    BY <1>5, <1>6, <2>1, Induct
<1>8. C[N] = D[N - 1] /\ D[N] = Up(sl, D[N - 1])
  BY <1>2, <1>5, <1>7
<1>9. D[N] = C[N]
  BY <1>4, <1>8 DEF Up
<1> QED
  BY <1>3, <1>9

LEMMA RootOfToplevel ==
  ASSUME NEW sl \in [Slots -> SlotType], NEW s \in Slots, ~IsOverlay(sl, s)
  PROVE  RootToplevel(sl, s) = IF sl[s].role = "toplevel" THEN s ELSE None
<1> DEFINE N == NSlots
           C == Climb(sl, s)
           H == {n \in 0 .. N : C[n] = s}
<1>1. /\ C[0] = s /\ \A n \in 1 .. N : C[n] = Up(sl, C[n - 1])
      /\ RootToplevel(sl, s) =
           IF C[N] # None /\ sl[C[N]].role = "toplevel" THEN C[N] ELSE None
  BY ClimbSteps
<1> HIDE DEF C
<1>2. N \in Nat
  BY NSlotsType
<1>3. \A n \in 1 .. N : n - 1 \in H => n \in H
  BY <1>1 DEF Up
<1>4. N \in H
  <2>1. H \in SUBSET Nat /\ 0 \in H
    BY <1>1, <1>2
  <2> HIDE DEF H
  <2> QED
    BY <1>2, <1>3, <2>1, Induct
<1> QED
  BY <1>1, <1>4, SurfacesAssumption

\* The root of a slot depends on the slots above it.
LEMMA RootIsLocal ==
  ASSUME NEW sl \in [Slots -> SlotType], NEW tl \in [Slots -> SlotType], NEW S \in SUBSET Slots,
         \A s \in S : /\ IsOverlay(sl, s) => sl[s].parent \in S \cup {None}
                      /\ tl[s].role = sl[s].role /\ tl[s].parent = sl[s].parent,
         NEW s \in S
  PROVE  RootToplevel(tl, s) = RootToplevel(sl, s)
<1> DEFINE N == NSlots
           C == Climb(sl, s)
           D == Climb(tl, s)
           H == {n \in 0 .. N : C[n] = D[n] /\ C[n] \in S \cup {None}}
<1>1. /\ C[0] = s /\ \A n \in 1 .. N : C[n] = Up(sl, C[n - 1])
      /\ RootToplevel(sl, s) =
           IF C[N] # None /\ sl[C[N]].role = "toplevel" THEN C[N] ELSE None
  BY ClimbSteps
<1>2. /\ D[0] = s /\ \A n \in 1 .. N : D[n] = Up(tl, D[n - 1])
      /\ RootToplevel(tl, s) =
           IF D[N] # None /\ tl[D[N]].role = "toplevel" THEN D[N] ELSE None
  BY ClimbSteps
<1> HIDE DEF C, D
<1>3. N \in Nat
  BY NSlotsType
<1>4. \A n \in 1 .. N : n - 1 \in H => n \in H
  BY <1>1, <1>2, SurfacesAssumption DEF Up, IsOverlay
<1>5. N \in H
  <2>1. H \in SUBSET Nat /\ 0 \in H
    BY <1>1, <1>2, <1>3
  <2> HIDE DEF H
  <2> QED
    BY <1>3, <1>4, <2>1, Induct
<1> QED
  BY <1>1, <1>2, <1>5

-----------------------------------------------------------------------------
(***************************************************************************)
(* What a change of some slots leaves of the tree they form.               *)
(***************************************************************************)
\* Nothing hangs, at any depth, from itself.
LEMMA ParentIsAbove ==
  ASSUME NEW sl \in [Slots -> SlotType], Acyclic(sl), NEW s \in Slots
  PROVE  sl[s].parent # s /\ sl[s].parent \notin Below(sl, {s})
<1>1. sl[s].parent # s
  <2>1. {s} \in SUBSET Slots /\ {s} # {}
    OBVIOUS
  <2>2. \E t \in {s} : sl[t].parent \notin {s}
    BY <2>1 DEF Acyclic
  <2> QED
    BY <2>2
<1>2. ASSUME sl[s].parent \in Below(sl, {s}) PROVE FALSE
  <2> DEFINE X == Below(sl, {s}) \cup {s}
  <2>1. X \in SUBSET Slots /\ X # {}
    BY BelowIsClosed
  <2>2. \A x \in X : sl[x].parent \in X
    BY <1>2, BelowHangs
  <2> HIDE DEF X
  <2> QED
    BY <2>1, <2>2 DEF Acyclic
<1> QED
  BY <1>1, <1>2

LEMMA AcyclicStays ==
  ASSUME NEW sl, NEW tl, Acyclic(sl),
         \A s \in Slots : tl[s].parent \in {sl[s].parent, None}
  PROVE  Acyclic(tl)
BY SurfacesAssumption DEF Acyclic

\* What is below a slot stays below it when only slots of D, a set with all
\* that hangs from it, are taken from where they hang.
LEMMA BelowStays ==
  ASSUME NEW sl, NEW tl, NEW D \in SUBSET Slots, Closed(sl, D), NEW t \in Slots,
         \A x \in Slots \ D : IsOverlay(sl, x) /\ sl[x].parent \in Slots =>
                                IsOverlay(tl, x) /\ tl[x].parent = sl[x].parent,
         NEW s \in Below(sl, {t}), s \notin D
  PROVE  s \in Below(tl, {t})
<1> DEFINE B == Below(tl, {t})
           X == B \cup {t} \cup D
<1>1. B \in SUBSET Slots /\ Closed(tl, B \cup {t})
  BY BelowIsClosed
<1> HIDE DEF B
<1>2. X \in SUBSET Slots /\ t \in X
  BY <1>1
<1>3. Closed(sl, X)
  <2> SUFFICES ASSUME NEW y \in Slots, IsOverlay(sl, y), sl[y].parent \in X, y \notin D
               PROVE  y \in B \cup {t}
    BY DEF Closed
  <2>1. sl[y].parent \in B \cup {t}
    BY DEF Closed
  <2>2. IsOverlay(tl, y) /\ tl[y].parent \in B \cup {t}
    BY <1>1, <2>1
  <2> QED
    BY <1>1, <2>2 DEF Closed
<1>4. s \in X /\ s # t
  BY <1>2, <1>3, BelowIsLeast, BelowHangs
<1> QED
  BY <1>4 DEF B

\* The slots a grabbing popup's search for its toplevel goes through.
Hooks(sl) ==
    {s \in Slots : \/ "toplevel" \in sl[s].res
                   \/ "popup" \in sl[s].res /\ sl[s].parent # None}

LEMMA HooksAreClosed ==
  ASSUME NEW sl \in [Slots -> SlotType], \A s \in Slots : SlotFits(sl, s) /\ Hangs(sl, s)
  PROVE  /\ \A s \in Hooks(sl) : IsOverlay(sl, s) => sl[s].parent \in Hooks(sl)
         /\ Grabbing(sl) \subseteq {s \in Hooks(sl) : IsOverlay(sl, s)}
<1>1. ASSUME NEW s \in Hooks(sl), IsOverlay(sl, s)
      PROVE  sl[s].parent \in Hooks(sl)
  <2>1. SlotFits(sl, s) /\ Hangs(sl, s) /\ s \in Slots
    BY DEF Hooks
  <2>2. "popup" \in sl[s].res /\ sl[s].parent # None
    BY <1>1, <2>1 DEF Hooks, SlotFits, IsOverlay
  <2>3. sl[s].parent \in Slots
    BY <2>1, <2>2 DEF SlotType
  <2> QED
    BY <2>1, <2>2, <2>3 DEF Hooks, Hangs
<1>2. ASSUME NEW s \in Grabbing(sl)
      PROVE  s \in Hooks(sl) /\ IsOverlay(sl, s)
  BY DEF Grabbing, Hooks, SlotFits, IsOverlay
<1> QED
  BY <1>1, <1>2

\* The grabs stay nested when slots of D are taken away, or hung anew ones that
\* hung from nothing and from which no popup hung.
LEMMA NestedStays ==
  ASSUME NEW sl \in [Slots -> SlotType], NEW tl \in [Slots -> SlotType], TreeInv(sl),
         NEW D \in SUBSET Slots, Closed(sl, D),
         \A x \in Slots \ D : sl[x].parent # None \/ x \in Hooks(sl) =>
                                tl[x].role = sl[x].role /\ tl[x].parent = sl[x].parent,
         Grabbing(tl) \subseteq Grabbing(sl) \ D
  PROVE  Nested(tl)
<1> DEFINE S == Hooks(sl) \ D
<1>1. S \in SUBSET Slots
  BY DEF Hooks
<1>2. ASSUME NEW x \in S
      PROVE  /\ IsOverlay(sl, x) => sl[x].parent \in S \cup {None}
             /\ tl[x].role = sl[x].role /\ tl[x].parent = sl[x].parent
  BY <1>1, HooksAreClosed DEF TreeInv, Closed
<1>3. \A x \in Grabbing(tl) : x \in S /\ x \in Grabbing(sl) /\ x \in Slots
  BY HooksAreClosed DEF TreeInv, Grabbing
<1>4. \A x \in Slots \ D : IsOverlay(sl, x) /\ sl[x].parent \in Slots =>
                             IsOverlay(tl, x) /\ tl[x].parent = sl[x].parent
  BY SurfacesAssumption DEF IsOverlay
<1>5. ASSUME NEW x \in Grabbing(tl)
      PROVE  RootToplevel(tl, x) = RootToplevel(sl, x)
  <2>1. x \in S
    BY <1>3
  <2> HIDE DEF S
  <2> QED
    BY <1>1, <1>2, <2>1, RootIsLocal
<1>6. ASSUME NEW x \in Grabbing(tl), NEW y \in Grabbing(tl), x \in Below(sl, {y})
      PROVE  x \in Below(tl, {y})
  BY <1>3, <1>4, <1>6, BelowStays
<1> QED
  BY <1>3, <1>5, <1>6 DEF Nested, TreeInv

\* A slot below which no popup hangs is hung from a toplevel or a hanging popup.
LEMMA PopupIsHung ==
  ASSUME NEW sl \in [Slots -> SlotType], NEW tl \in [Slots -> SlotType], TreeInv(sl),
         NEW s \in Slots, s \notin Hooks(sl), tl[s].parent \in Hooks(sl),
         \A x \in Slots \ {s} : tl[x].parent = sl[x].parent
  PROVE  Acyclic(tl)
<1> SUFFICES ASSUME NEW X \in SUBSET Slots, X # {}, \A x \in X : tl[x].parent \in X
             PROVE  FALSE
  BY DEF Acyclic
<1>1. CASE s \notin X
  BY <1>1 DEF Acyclic, TreeInv
<1>2. CASE s \in X
  <2> DEFINE Y == X \cap Hooks(sl)
  <2>1. Y \in SUBSET Slots /\ Y # {}
    BY <1>2
  <2>2. ASSUME NEW y \in Y PROVE sl[y].parent \in Y
    <3>1. y \in Slots /\ y # s /\ sl[y].parent \in X /\ sl[y].parent # None
      BY <2>1, SurfacesAssumption
    <3>2. IsOverlay(sl, y)
      BY <3>1 DEF TreeInv, SlotFits, Hangs, HasOverlayRole, IsOverlay
    <3> QED
      BY <3>1, <3>2, HooksAreClosed DEF TreeInv
  <2> HIDE DEF Y
  <2> QED
    BY <2>1, <2>2 DEF Acyclic, TreeInv
<1> QED
  BY <1>1, <1>2

\* A slot that hung from nothing is hung from one that is not below it.
LEMMA SubsurfaceIsHung ==
  ASSUME NEW sl \in [Slots -> SlotType], NEW tl \in [Slots -> SlotType], TreeInv(sl),
         NEW s \in Slots, tl[s].parent # s, tl[s].parent \notin Below(sl, {s}),
         \A x \in Slots \ {s} : tl[x].parent = sl[x].parent
  PROVE  Acyclic(tl)
<1> SUFFICES ASSUME NEW X \in SUBSET Slots, X # {}, \A x \in X : tl[x].parent \in X
             PROVE  FALSE
  BY DEF Acyclic
<1>1. CASE s \notin X
  BY <1>1 DEF Acyclic, TreeInv
<1>2. CASE s \in X
  <2> DEFINE B == Below(sl, {s})
             Y == X \ (B \cup {s})
  <2>1. Y \in SUBSET Slots /\ Y # {}
    BY <1>2
  <2>2. ASSUME NEW y \in Y PROVE sl[y].parent \in Y
    <3>1. y \in Slots /\ y # s /\ sl[y].parent \in X /\ sl[y].parent # None
      BY <2>1, SurfacesAssumption
    <3>2. IsOverlay(sl, y)
      BY <3>1 DEF TreeInv, SlotFits, Hangs, HasOverlayRole, IsOverlay
    <3>3. Closed(sl, B \cup {s})
      BY BelowIsClosed
    <3> HIDE DEF B
    <3> QED
      BY <3>1, <3>2, <3>3 DEF Closed
  <2> HIDE DEF Y
  <2> QED
    BY <2>1, <2>2 DEF Acyclic, TreeInv
<1> QED
  BY <1>1, <1>2

\* Roots and what is below depend on roles and parents only.
LEMMA SameTree ==
  ASSUME NEW sl \in [Slots -> SlotType], NEW tl \in [Slots -> SlotType],
         \A x \in Slots : tl[x].role = sl[x].role /\ tl[x].parent = sl[x].parent
  PROVE  \A s \in Slots : /\ RootToplevel(tl, s) = RootToplevel(sl, s)
                          /\ Below(tl, {s}) = Below(sl, {s})
<1> SUFFICES ASSUME NEW s \in Slots
             PROVE  /\ RootToplevel(tl, s) = RootToplevel(sl, s)
                    /\ Below(tl, {s}) = Below(sl, {s})
  OBVIOUS
<1>1. RootToplevel(tl, s) = RootToplevel(sl, s)
  <2>1. \A x \in Slots : sl[x].parent \in Slots \cup {None}
    BY DEF SlotType
  <2> QED
    BY <2>1, Slots \in SUBSET Slots, RootIsLocal
<1>2. /\ \A x \in Slots : IsOverlay(sl, x) <=> IsOverlay(tl, x)
      /\ {} \in SUBSET Slots /\ Closed(sl, {}) /\ Closed(tl, {})
  BY DEF IsOverlay, Closed
<1>3. Below(sl, {s}) \subseteq Below(tl, {s})
  <2> SUFFICES ASSUME NEW x \in Below(sl, {s}) PROVE x \in Below(tl, {s})
    OBVIOUS
  <2> QED
    BY <1>2, BelowStays
<1>4. Below(tl, {s}) \subseteq Below(sl, {s})
  <2> SUFFICES ASSUME NEW x \in Below(tl, {s}) PROVE x \in Below(sl, {s})
    OBVIOUS
  <2> QED
    BY <1>2, BelowStays
<1> QED
  BY <1>1, <1>3, <1>4

\* A popup below another is below a popup that hangs from that other, or is it.
LEMMA PopupToward ==
  ASSUME NEW sl \in [Slots -> SlotType], TreeInv(sl), NEW u \in Slots,
         NEW t \in Below(sl, {u}), "popup" \in sl[t].res
  PROVE  \E c \in Slots : /\ "popup" \in sl[c].res /\ sl[c].parent = u
                          /\ t = c \/ t \in Below(sl, {c})
<1> DEFINE B == Below(sl, {u})
           C == {c \in Slots : "popup" \in sl[c].res /\ sl[c].parent = u}
           P == {y \in Slots : \E c \in C : y = c \/ y \in Below(sl, {c})}
           O == {y \in B : "popup" \notin sl[y].res}
           X == {u} \cup P \cup O
<1>1. B \in SUBSET Slots /\ Closed(sl, B \cup {u})
  BY BelowIsClosed
<1>2. \A y \in Slots : "popup" \in sl[y].res => IsOverlay(sl, y)
  BY DEF TreeInv, SlotFits, IsOverlay
<1>3. P \subseteq B
  <2> SUFFICES ASSUME NEW y \in P PROVE y \in B
    OBVIOUS
  <2>1. PICK c \in C : y = c \/ y \in Below(sl, {c})
    OBVIOUS
  <2>2. c \in B \cup {u} /\ c \in Slots
    BY <1>1, <1>2 DEF Closed
  <2>3. c # u
    BY <2>2, ParentIsAbove DEF TreeInv
  <2>4. Below(sl, {c}) \subseteq B \cup {u}
    <3> HIDE DEF B
    <3> QED
      BY <1>1, <2>2, BelowIsLeast
  <2>5. u \notin Below(sl, {c})
    BY <2>2, ParentIsAbove DEF TreeInv
  <2> QED
    BY <2>1, <2>2, <2>3, <2>4, <2>5
<1>4. ASSUME NEW y \in Slots, IsOverlay(sl, y), sl[y].parent \in X
      PROVE  y \in X
  <2>1. y \in B \cup {u}
    BY <1>1, <1>3, <1>4 DEF Closed
  <2>2. CASE "popup" \notin sl[y].res \/ y = u
    BY <2>1, <2>2
  <2>3. CASE "popup" \in sl[y].res /\ sl[y].parent = u
    BY <2>3
  <2>4. CASE "popup" \in sl[y].res /\ sl[y].parent \in P
    <3>1. PICK c \in C : sl[y].parent = c \/ sl[y].parent \in Below(sl, {c})
      BY <2>4
    <3>2. Closed(sl, Below(sl, {c}) \cup {c})
      BY BelowIsClosed
    <3>3. y \in Below(sl, {c}) \cup {c}
      BY <1>4, <3>1, <3>2 DEF Closed
    <3> QED
      BY <3>3
  <2>5. CASE "popup" \in sl[y].res /\ sl[y].parent \in O
    <3>1. LET p == sl[y].parent
          IN  p \in B /\ p \in Slots /\ "popup" \notin sl[p].res
      BY <1>1, <2>5
    <3>2. LET p == sl[y].parent
          IN  IsOverlay(sl, p) /\ "toplevel" \in sl[p].res
      BY <2>5, <3>1, BelowHangs, SurfacesAssumption DEF TreeInv, Hangs
    <3> QED
      BY <3>1, <3>2 DEF TreeInv, SlotFits, IsOverlay
  <2> QED
    BY <1>4, <2>2, <2>3, <2>4, <2>5
<1>5. X \in SUBSET Slots /\ u \in X /\ Closed(sl, X)
  <2>1. X \in SUBSET Slots /\ u \in X
    BY <1>1
  <2> HIDE DEF X
  <2> QED
    BY <1>4, <2>1 DEF Closed
<1> HIDE DEF X
<1>6. B \subseteq X
  BY <1>5, BelowIsLeast
<1>7. t \in X /\ t # u
  BY <1>1, <1>6, BelowHangs
<1> QED
  BY <1>7 DEF X

\* A popup may grab below the topmost grab, or where nothing has grabbed.
LEMMA GrabIsNested ==
  ASSUME NEW sl \in [Slots -> SlotType], NEW tl \in [Slots -> SlotType], TreeInv(sl),
         \A x \in Slots : tl[x].role = sl[x].role /\ tl[x].parent = sl[x].parent,
         NEW s \in Slots, Grabbing(tl) \subseteq Grabbing(sl) \cup {s},
         "popup" \in sl[s].res, sl[s].parent \in Slots,
         \/ \A t \in Grabbing(sl) \ {s} : RootToplevel(sl, t) # RootToplevel(sl, s)
         \/ /\ sl[s].parent \in Grabbing(sl)
            /\ \A c \in Slots \ {s} : "popup" \in sl[c].res => sl[c].parent # sl[s].parent
  PROVE  Nested(tl)
<1> DEFINE u == sl[s].parent
           nested(x, y) == x = y \/ x \in Below(sl, {y}) \/ y \in Below(sl, {x})
<1>0. u \in Slots
  OBVIOUS
<1>1. \A x \in Slots : /\ RootToplevel(tl, x) = RootToplevel(sl, x)
                       /\ Below(tl, {x}) = Below(sl, {x})
  BY SameTree
<1>2. Grabbing(sl) \subseteq Slots /\ Grabbing(tl) \subseteq Slots
  BY DEF Grabbing
<1>3. ASSUME NEW t \in Grabbing(sl), RootToplevel(sl, t) = RootToplevel(sl, s)
      PROVE  nested(s, t)
  <2>1. IsOverlay(sl, s)
    BY DEF TreeInv, SlotFits, IsOverlay
  <2>2. RootToplevel(sl, s) = RootToplevel(sl, u)
    BY <2>1, RootOfParent DEF TreeInv
  <2>3. CASE t # s /\ u \in Grabbing(sl)
             /\ \A c \in Slots \ {s} : "popup" \in sl[c].res => sl[c].parent # u
    <3>1. t = u \/ t \in Below(sl, {u}) \/ u \in Below(sl, {t})
      BY <1>3, <2>2, <2>3 DEF TreeInv, Nested
    <3>2. CASE t = u \/ u \in Below(sl, {t})
      <4>1. Closed(sl, Below(sl, {t}) \cup {t}) /\ t \in Slots
        BY <1>2, BelowIsClosed
      <4>2. s \in Below(sl, {t}) \cup {t}
        BY <2>1, <3>2, <4>1 DEF Closed
      <4> QED
        BY <4>2
    <3>3. CASE t \in Below(sl, {u})
      <4>1. "popup" \in sl[t].res
        BY DEF Grabbing
      <4>2. PICK c \in Slots : /\ "popup" \in sl[c].res /\ sl[c].parent = u
                               /\ t = c \/ t \in Below(sl, {c})
        <5> HIDE DEF u
        <5> QED
          BY <1>0, <3>3, <4>1, PopupToward
      <4>3. c = s
        BY <2>3, <4>2
      <4> QED
        BY <4>2, <4>3
    <3> QED
      BY <3>1, <3>2, <3>3
  <2> QED
    BY <1>3, <2>3
<1>4. ASSUME NEW x \in Grabbing(tl), NEW y \in Grabbing(tl),
             RootToplevel(sl, x) = RootToplevel(sl, y)
      PROVE  nested(x, y)
  <2>1. CASE x \in Grabbing(sl) /\ y \in Grabbing(sl)
    BY <1>4, <2>1 DEF TreeInv, Nested
  <2>2. CASE x = s /\ y \in Grabbing(sl)
    BY <1>3, <1>4, <2>2
  <2>3. CASE y = s /\ x \in Grabbing(sl)
    BY <1>3, <1>4, <2>3
  <2>4. CASE x = s /\ y = s
    BY <2>4
  <2> QED
    BY <2>1, <2>2, <2>3, <2>4
<1> QED
  BY <1>1, <1>2, <1>4 DEF Nested

-----------------------------------------------------------------------------
(***************************************************************************)
(* A change of one slot.                                                   *)
(***************************************************************************)
HasChild(sl, s) == \E c \in Slots : sl[c].parent = s

\* What refers to slot s may go on referring to it once it is r.
StillServes(w, s, r) ==
    LET old == w.surface[s]
    IN  /\ HasChild(w.surface, s) =>
             /\ "surface" \in r.res
             /\ "toplevel" \in old.res => "toplevel" \in r.res
             /\ "popup" \in old.res /\ old.parent # None => "popup" \in r.res /\ r.parent # None
        /\ "surface" \in old.res /\ "surface" \notin r.res =>
             /\ s \notin {w.seat.pointer, w.seat.grab, w.seat.cursor}
             /\ \A c \in Clients : w.told[c] # s
        /\ w.seat.keyboard = s => r.window /\ "surface" \in r.res /\ r.pixels
        /\ "surface" \in old.res \cap r.res => r.owner = old.owner

LEMMA SlotMayChange ==
  ASSUME NEW live, NEW w, WorldInv(w, live), NEW s \in Slots, NEW r \in SlotType, NEW v,
         v = [w EXCEPT !.surface[s] = r],
         SlotFits(v.surface, s), Hangs(v.surface, s), Acyclic(v.surface), Nested(v.surface),
         StillServes(w, s, r)
  PROVE  WorldInv(v, live)
<1> DEFINE sl == w.surface
           tl == v.surface
<1>1. /\ w \in WorldType /\ v \in WorldType /\ v.seat = w.seat /\ v.told = w.told
      /\ tl = [sl EXCEPT ![s] = r]
  BY DEF WorldInv, WorldType
<1>2. /\ sl \in [Slots -> SlotType] /\ tl \in [Slots -> SlotType] /\ tl[s] = r
      /\ \A x \in Slots \ {s} : tl[x] = sl[x]
  BY <1>1 DEF WorldType
<1>3. \A x \in Slots : SlotFits(sl, x) /\ Hangs(sl, x)
  BY DEF WorldInv, TreeInv
<1>4. ASSUME NEW x \in Slots PROVE SlotFits(tl, x)
  BY <1>2, <1>3 DEF SlotFits, MayHaveKeyboard
<1>5. ASSUME NEW x \in Slots PROVE Hangs(tl, x)
  <2>1. CASE x = s
    BY <2>1
  <2>2. CASE x # s /\ sl[x].parent # s
    <3>1. tl[x] = sl[x] /\ (sl[x].parent # None => sl[x].parent \in Slots \ {s})
      BY <1>2, <2>2 DEF SlotType
    <3> QED
      BY <1>2, <1>3, <3>1 DEF Hangs, HasOverlayRole
  <2>3. CASE x # s /\ sl[x].parent = s
    <3>1. HasChild(sl, s) /\ tl[x] = sl[x]
      BY <1>2, <2>3 DEF HasChild
    <3>2. "surface" \in r.res
      BY <3>1 DEF StillServes
    <3>3. "popup" \in sl[x].res => \/ "toplevel" \in sl[s].res
                                   \/ "popup" \in sl[s].res /\ sl[s].parent # None
      BY <1>3, <2>3, SurfacesAssumption DEF Hangs
    <3>4. "popup" \in sl[x].res => \/ "toplevel" \in r.res
                                   \/ "popup" \in r.res /\ r.parent # None
      BY <3>1, <3>3 DEF StillServes
    <3>5. HasOverlayRole(sl, x)
      BY <1>3, <2>3, SurfacesAssumption DEF Hangs
    <3> QED
      BY <1>2, <2>3, <3>1, <3>2, <3>4, <3>5 DEF Hangs, HasOverlayRole
  <2> QED
    BY <2>1, <2>2, <2>3
<1>6. SeatFits(v)
  <2>1. SeatFits(w)
    BY DEF WorldInv
  <2>2. w.seat.keyboard = s => r.window /\ "surface" \in r.res /\ r.pixels
    BY DEF StillServes
  <2>3. v.seat.keyboard # None => MayHaveKeyboard(tl, v.seat.keyboard)
    BY <1>1, <1>2, <2>1, <2>2 DEF SeatFits, MayHaveKeyboard
  <2>4. s \in {w.seat.keyboard, w.seat.pointer, w.seat.grab, w.seat.cursor} \ {None} =>
           "surface" \in r.res
    BY <2>1, <2>2 DEF StillServes, SeatFits
  <2>5. \A x \in {w.seat.keyboard, w.seat.pointer, w.seat.grab, w.seat.cursor} \ {None} :
           x \in Slots /\ "surface" \in tl[x].res
    BY <1>2, <2>1, <2>4 DEF SeatFits
  <2> QED
    BY <1>1, <2>1, <2>3, <2>5 DEF SeatFits
<1>7. ToldFits(v, live)
  <2>1. ToldFits(w, live) /\ SeatFits(w)
    BY DEF WorldInv
  <2>2. ASSUME NEW c \in Clients, w.told[c] # None
        PROVE  tl[w.told[c]].owner = c /\ "surface" \in tl[w.told[c]].res
    <3>1. w.told[c] \in Slots /\ sl[w.told[c]].owner = c /\ "surface" \in sl[w.told[c]].res
      BY <1>1, <2>1, <2>2 DEF ToldFits, WorldType
    <3> QED
      BY <1>2, <3>1 DEF StillServes
  <2>3. w.seat.keyboard # None => tl[w.seat.keyboard].owner = sl[w.seat.keyboard].owner
    <3>1. w.seat.keyboard # None => w.seat.keyboard \in Slots /\ "surface" \in sl[w.seat.keyboard].res
      BY <2>1 DEF SeatFits
    <3> QED
      BY <1>2, <3>1 DEF StillServes
  <2> QED
    BY <1>1, <2>1, <2>2, <2>3 DEF ToldFits
<1> QED
  BY <1>1, <1>4, <1>5, <1>6, <1>7 DEF WorldInv, TreeInv

\* The slot stays where it hangs, or hangs from nothing now; it does not grab
\* what it had not grabbed.
StaysHung(sl, s, r) ==
    /\ r.parent \in {sl[s].parent, None}
    /\ "popup" \in r.res /\ r.grabbed /\ ~r.dismissed => s \in Grabbing(sl)
    /\ \/ sl[s].parent # None \/ s \in Hooks(sl) => r.role = sl[s].role /\ r.parent = sl[s].parent
       \/ ~HasChild(sl, s) /\ ~("popup" \in r.res /\ r.grabbed /\ ~r.dismissed)

LEMMA SlotStays ==
  ASSUME NEW live, NEW w, WorldInv(w, live), NEW s \in Slots, NEW r \in SlotType, NEW v,
         v = [w EXCEPT !.surface[s] = r],
         SlotFits(v.surface, s), Hangs(v.surface, s),
         StillServes(w, s, r), StaysHung(w.surface, s, r)
  PROVE  WorldInv(v, live)
<1> DEFINE sl == w.surface
           tl == v.surface
<1>1. /\ sl \in [Slots -> SlotType] /\ tl \in [Slots -> SlotType] /\ tl[s] = r
      /\ \A x \in Slots \ {s} : tl[x] = sl[x]
  BY DEF WorldInv, WorldType
<1>2. TreeInv(sl)
  BY DEF WorldInv
<1>3. Acyclic(tl)
  <2>1. \A x \in Slots : tl[x].parent \in {sl[x].parent, None}
    BY <1>1 DEF StaysHung
  <2> QED
    BY <1>2, <2>1, AcyclicStays DEF TreeInv
<1>4. Grabbing(tl) \subseteq Grabbing(sl)
  BY <1>1 DEF Grabbing, StaysHung
<1>5. Nested(tl)
  <2>1. CASE sl[s].parent # None \/ s \in Hooks(sl) => r.role = sl[s].role /\ r.parent = sl[s].parent
    <3>1. \A x \in Slots \ {} : sl[x].parent # None \/ x \in Hooks(sl) =>
                                  tl[x].role = sl[x].role /\ tl[x].parent = sl[x].parent
      BY <1>1, <2>1
    <3>2. {} \in SUBSET Slots /\ Closed(sl, {})
      BY DEF Closed
    <3> HIDE DEF sl, tl
    <3> QED
      BY <1>1, <1>2, <1>4, <3>1, <3>2, NestedStays
  <2>2. CASE ~HasChild(sl, s) /\ ~("popup" \in r.res /\ r.grabbed /\ ~r.dismissed)
    <3>1. {s} \in SUBSET Slots /\ Closed(sl, {s})
      BY <2>2 DEF Closed, HasChild
    <3>2. Grabbing(tl) \subseteq Grabbing(sl) \ {s}
      BY <1>1, <1>4, <2>2 DEF Grabbing
    <3> HIDE DEF sl, tl
    <3> QED
      BY <1>1, <1>2, <3>1, <3>2, NestedStays
  <2> QED
    BY <2>1, <2>2 DEF StaysHung
<1> QED
  BY <1>3, <1>5, SlotMayChange

-----------------------------------------------------------------------------
(***************************************************************************)
(* The helpers.                                                            *)
(***************************************************************************)
\* A change of focus tells both clients of it.
LEMMA ChangedKeyboardFocus ==
  ASSUME NEW live, NEW w, WorldInv(w, live), NEW s \in Slots \cup {None}, NEW v,
         v = ChangeKeyboardFocus(w, s)
  PROVE  WorldInv(v, live) /\ v.surface = w.surface /\ v.seat.keyboard \in {s, None}
<1> DEFINE old == w.seat.keyboard
           new == IF s # None /\ MayHaveKeyboard(w.surface, s) THEN s ELSE None
           left == IF old # None /\ "surface" \in w.surface[old].res
                   THEN [w.told EXCEPT ![w.surface[old].owner] = None] ELSE w.told
           told2 == IF new = None THEN left ELSE [left EXCEPT ![w.surface[new].owner] = new]
<1>1. w \in WorldType /\ SeatFits(w) /\ ToldFits(w, live) /\ TreeInv(w.surface)
  BY DEF WorldInv
<1>2. new \in Slots \cup {None} /\ (new # None => new = s /\ MayHaveKeyboard(w.surface, s))
  OBVIOUS
<1>3. CASE old = new
  BY <1>3 DEF ChangeKeyboardFocus
<1>4. CASE old # new
  <2>1. v = [w EXCEPT !.seat.keyboard = new, !.told = told2]
    BY <1>4 DEF ChangeKeyboardFocus
  <2>2. old # None => old \in Slots /\ "surface" \in w.surface[old].res
    BY <1>1 DEF SeatFits
  <2>3. new # None => new \in Slots /\ "surface" \in w.surface[new].res
                      /\ w.surface[new].owner \in Clients
    BY <1>1, <1>2 DEF MayHaveKeyboard, TreeInv, SlotFits
  <2>4. left \in [Clients -> Slots \cup {None}]
    BY <1>1 DEF WorldType
  <2>5. told2 \in [Clients -> Slots \cup {None}]
    BY <2>3, <2>4
  <2>6. /\ \A c \in Clients : left[c] = IF old # None /\ w.surface[old].owner = c
                                        THEN None ELSE w.told[c]
        /\ \A c \in Clients : told2[c] = IF new # None /\ w.surface[new].owner = c
                                         THEN new ELSE left[c]
    <3>1. w.told \in [Clients -> Slots \cup {None}]
      BY <1>1 DEF WorldType
    <3>2. \A c \in Clients : left[c] = IF old # None /\ w.surface[old].owner = c
                                       THEN None ELSE w.told[c]
      BY <2>2, <3>1
    <3> HIDE DEF left, new, old
    <3> QED
      BY <2>3, <2>4, <3>2
  <2>7. /\ v.surface = w.surface /\ v.told = told2 /\ v.seat.keyboard = new
        /\ v.seat = [w.seat EXCEPT !.keyboard = new]
    BY <1>1, <2>1 DEF WorldType, SeatType
  <2>8. v \in WorldType
    <3> HIDE DEF new, told2
    <3> QED
      BY <1>1, <1>2, <2>1, <2>5 DEF WorldType, SeatType
  <2> HIDE DEF old, new, left, told2
  <2>9. SeatFits(v)
    <3>1. /\ v.seat.pointer = w.seat.pointer /\ v.seat.grab = w.seat.grab
          /\ v.seat.cursor = w.seat.cursor /\ v.seat.buttons = w.seat.buttons
      BY <1>1, <2>7 DEF WorldType, SeatType
    <3> QED
      BY <1>1, <1>2, <2>3, <2>7, <3>1 DEF SeatFits
  <2>10. ToldFits(v, live)
    BY <1>1, <1>2, <2>3, <2>6, <2>7 DEF ToldFits, old
  <2> QED
    BY <1>1, <1>2, <2>7, <2>8, <2>9, <2>10 DEF WorldInv
<1> QED
  BY <1>3, <1>4

\* Without a message, only a client that is not live is left with a focus.
LEMMA ClearedKeyboard ==
  ASSUME NEW live, NEW w, WorldInv(w, live), NEW s \in Slots, NEW send \in BOOLEAN, NEW v,
         v = ClearKeyboard(w, s, send),
         send \/ w.seat.keyboard # s \/ w.surface[s].owner \notin live
  PROVE  /\ WorldInv(v, live) /\ v.surface = w.surface /\ v.seat.keyboard # s
         /\ v.seat.pointer = w.seat.pointer /\ v.seat.grab = w.seat.grab
         /\ v.seat.cursor = w.seat.cursor
<1>1. w \in WorldType /\ SeatFits(w) /\ ToldFits(w, live) /\ TreeInv(w.surface)
  BY DEF WorldInv
<1>2. CASE w.seat.keyboard # s
  BY <1>2 DEF ClearKeyboard
<1>3. CASE w.seat.keyboard = s /\ send
  <2>1. v = ChangeKeyboardFocus(w, None)
    BY <1>3 DEF ClearKeyboard
  <2>2. WorldInv(v, live) /\ v.surface = w.surface /\ v.seat.keyboard = None
    BY <2>1, ChangedKeyboardFocus
  <2>3. v.seat = w.seat \/ v.seat = [w.seat EXCEPT !.keyboard = None]
    BY <1>1, <2>1 DEF ChangeKeyboardFocus, WorldType, SeatType
  <2> QED
    BY <1>1, <2>2, <2>3, SurfacesAssumption DEF WorldType, SeatType
<1>4. CASE w.seat.keyboard = s /\ ~send
  <2>1. v = [w EXCEPT !.seat.keyboard = None] /\ w.surface[s].owner \notin live
    BY <1>4 DEF ClearKeyboard
  <2>2. /\ v \in WorldType /\ v.surface = w.surface /\ v.told = w.told
        /\ v.seat = [w.seat EXCEPT !.keyboard = None]
    BY <1>1, <2>1 DEF WorldType, SeatType
  <2>3. /\ v.seat.pointer = w.seat.pointer /\ v.seat.grab = w.seat.grab
        /\ v.seat.cursor = w.seat.cursor /\ v.seat.buttons = w.seat.buttons
        /\ v.seat.keyboard = None
    BY <1>1, <2>2 DEF WorldType, SeatType
  <2>4. SeatFits(v)
    BY <1>1, <2>2, <2>3 DEF SeatFits
  <2>5. ToldFits(v, live)
    BY <1>1, <1>4, <2>1, <2>2, <2>3, SurfacesAssumption DEF ToldFits
  <2> QED
    BY <1>1, <2>2, <2>3, <2>4, <2>5, SurfacesAssumption DEF WorldInv
<1> QED
  BY <1>2, <1>3, <1>4

\* The pointer may leave anything, and be over what has a surface.
LEMMA MovedPointer ==
  ASSUME NEW live, NEW w, WorldInv(w, live), NEW v \in WorldType,
         v.surface = w.surface, v.told = w.told, v.seat.keyboard = w.seat.keyboard,
         {v.seat.pointer, v.seat.grab, v.seat.cursor} \ {None} \subseteq
            {s \in Slots : "surface" \in w.surface[s].res},
         (v.seat.grab # None) = (v.seat.buttons # {})
  PROVE  WorldInv(v, live)
BY DEF WorldInv, SeatFits, ToldFits

CancelledSeat(w, v) ==
    /\ v \in WorldType /\ v.surface = w.surface /\ v.told = w.told
    /\ v.seat.keyboard = w.seat.keyboard /\ v.seat.pointer = None
    /\ v.seat.grab = None /\ v.seat.cursor = None /\ v.seat.buttons = {}

LEMMA PointerCancelled ==
  ASSUME NEW w \in WorldType, NEW v, v = CancelPointer(w)
  PROVE  CancelledSeat(w, v)
<1> DEFINE seat2 == [w.seat EXCEPT !.buttons = {}, !.grab = None, !.pointer = None,
                                   !.cursor = None]
<1>1. seat2 \in SeatType
  BY DEF WorldType, SeatType
<1>2. /\ seat2.keyboard = w.seat.keyboard /\ seat2.pointer = None /\ seat2.grab = None
      /\ seat2.cursor = None /\ seat2.buttons = {}
  BY DEF WorldType, SeatType
<1>3. v = [w EXCEPT !.seat = seat2]
  BY DEF CancelPointer, WorldType, SeatType
<1> HIDE DEF seat2
<1> QED
  BY <1>1, <1>2, <1>3 DEF WorldType, CancelledSeat

LEMMA ClearedPointer ==
  ASSUME NEW live, NEW w, WorldInv(w, live), NEW gone \in SUBSET Slots, NEW v,
         v = ClearPointer(w, gone)
  PROVE  /\ WorldInv(v, live) /\ v.surface = w.surface /\ v.told = w.told
         /\ v.seat.keyboard = w.seat.keyboard
         /\ v.seat.pointer \in {w.seat.pointer, None} \ gone
         /\ v.seat.grab \in {w.seat.grab, None} \ gone
         /\ v.seat.cursor \in {w.seat.cursor, None} \ gone
<1>1. w \in WorldType /\ SeatFits(w)
  BY DEF WorldInv
<1>2. /\ v \in WorldType /\ v.surface = w.surface /\ v.told = w.told
      /\ v.seat.keyboard = w.seat.keyboard
      /\ v.seat.pointer \in {w.seat.pointer, None} \ gone
      /\ v.seat.grab \in {w.seat.grab, None} \ gone
      /\ v.seat.cursor \in {w.seat.cursor, None} \ gone
      /\ (v.seat.grab # None) = (v.seat.buttons # {})
  <2>1. CASE {w.seat.pointer, w.seat.grab} \cap gone # {}
    <3>1. v = [w EXCEPT !.seat.buttons = {}, !.seat.grab = None,
                        !.seat.pointer = None, !.seat.cursor = None]
      BY <2>1 DEF ClearPointer, CancelPointer
    <3>2. CancelledSeat(w, v)
      BY <1>1, <3>1, PointerCancelled DEF CancelPointer
    <3> QED
      BY <3>2, SurfacesAssumption DEF CancelledSeat
  <2>2. CASE {w.seat.pointer, w.seat.grab} \cap gone = {} /\ w.seat.cursor \in gone
    <3>1. v = [w EXCEPT !.seat.cursor = None]
      BY <2>2 DEF ClearPointer
    <3>2. w.seat.pointer \notin gone /\ w.seat.grab \notin gone
      BY <2>2
    <3>3. /\ v \in WorldType /\ v.surface = w.surface /\ v.told = w.told
          /\ v.seat = [w.seat EXCEPT !.cursor = None]
      BY <1>1, <3>1 DEF WorldType, SeatType
    <3>4. /\ v.seat.keyboard = w.seat.keyboard /\ v.seat.pointer = w.seat.pointer
          /\ v.seat.grab = w.seat.grab /\ v.seat.cursor = None
          /\ v.seat.buttons = w.seat.buttons
      BY <1>1, <3>3 DEF WorldType, SeatType
    <3> QED
      BY <1>1, <3>2, <3>3, <3>4, SurfacesAssumption DEF SeatFits
  <2>3. CASE {w.seat.pointer, w.seat.grab} \cap gone = {} /\ w.seat.cursor \notin gone
    BY <1>1, <2>3 DEF ClearPointer, SeatFits
  <2> QED
    BY <2>1, <2>2, <2>3
<1>3. {v.seat.pointer, v.seat.grab, v.seat.cursor} \ {None} \subseteq
            {s \in Slots : "surface" \in w.surface[s].res}
  BY <1>1, <1>2 DEF SeatFits
<1> QED
  BY <1>2, <1>3, MovedPointer

LEMMA NotConfiguredFields ==
  ASSUME NEW r \in SlotType
  PROVE  LET n == NotConfigured(r)
         IN  /\ n \in SlotType
             /\ n.owner = r.owner /\ n.res = r.res /\ n.role = r.role /\ n.parent = r.parent
             /\ n.dismissed = r.dismissed /\ n.grabbed = r.grabbed /\ n.pixels = r.pixels
             /\ n.window = r.window
BY DEF NotConfigured, SlotType

LEMMA DismissedFields ==
  ASSUME NEW r \in SlotType
  PROVE  LET d == Dismissed(r)
         IN  /\ d \in SlotType
             /\ d.owner = r.owner /\ d.res = r.res /\ d.role = r.role /\ d.parent = None
             /\ ~d.grabbed /\ ~d.pixels /\ d.window = r.window
<1> DEFINE n == NotConfigured(r)
           m == n.dismissed \/ r.role = "popup"
<1>1. /\ n \in SlotType
      /\ n.owner = r.owner /\ n.res = r.res /\ n.role = r.role /\ n.window = r.window
  BY NotConfiguredFields
<1> HIDE DEF n
<1>2. m \in BOOLEAN
  OBVIOUS
<1>3. Dismissed(r) = [n EXCEPT !.dismissed = m, !.frames = 0, !.pixels = FALSE,
                               !.parent = None, !.grabbed = FALSE]
  BY DEF Dismissed, n
<1> HIDE DEF m
<1> DEFINE d == Dismissed(r)
<1>4. /\ d.owner = n.owner /\ d.res = n.res /\ d.role = n.role /\ d.window = n.window
      /\ d.parent = None /\ d.grabbed = FALSE /\ d.pixels = FALSE
  BY <1>1, <1>3 DEF SlotType
<1>5. d \in SlotType
  <2> DEFINE e == [n EXCEPT !.dismissed = m, !.frames = 0]
  <2>1. e \in SlotType
    BY <1>1, <1>2 DEF SlotType
  <2>2. d = [e EXCEPT !.pixels = FALSE, !.parent = None, !.grabbed = FALSE]
    BY <1>3
  <2> HIDE DEF e, d
  <2> QED
    BY <2>1, <2>2 DEF SlotType
<1> QED
  BY <1>1, <1>4, <1>5

\* What hung from a slot is dismissed; the rest is as it was.
DismissedIn(w, v, s) ==
    \A x \in Slots : v.surface[x] = IF x \in Below(w.surface, {s}) THEN Dismissed(w.surface[x])
                                    ELSE w.surface[x]

SeatOnlyLoses(w, v) ==
    /\ v.seat.pointer \in {w.seat.pointer, None} /\ v.seat.grab \in {w.seat.grab, None}
    /\ v.seat.cursor \in {w.seat.cursor, None}

LEMMA OverlaysDismissed ==
  ASSUME NEW live, NEW w, WorldInv(w, live), NEW s \in Slots, NEW v,
         v = DismissOverlays(w, {s})
  PROVE  /\ WorldInv(v, live) /\ DismissedIn(w, v, s) /\ ~HasChild(v.surface, s)
         /\ v.surface[s] = w.surface[s]
         /\ v.told = w.told /\ v.seat.keyboard = w.seat.keyboard /\ SeatOnlyLoses(w, v)
<1> DEFINE B == Below(w.surface, {s})
           sl == w.surface
           tl == [x \in Slots |-> IF x \in B THEN Dismissed(sl[x]) ELSE sl[x]]
           u == ClearPointer(w, B)
<1>1. B \in SUBSET (Slots \ {s}) /\ Closed(sl, B \cup {s})
  BY BelowIsClosed
<1>2. \A x \in B : x \in Slots \ {s} /\ IsOverlay(sl, x)
  BY BelowHangs
<1>3. w \in WorldType /\ TreeInv(sl) /\ sl \in [Slots -> SlotType]
  BY DEF WorldInv, WorldType
<1>4. sl[s].parent # s /\ sl[s].parent \notin B
  BY <1>3, ParentIsAbove DEF TreeInv
<1> HIDE DEF B
<1>5. /\ WorldInv(u, live) /\ u.surface = w.surface /\ u.told = w.told
      /\ u.seat.keyboard = w.seat.keyboard /\ SeatOnlyLoses(w, u)
  BY <1>1, ClearedPointer DEF SeatOnlyLoses
<1>6. v = [u EXCEPT !.surface = tl]
  BY <1>5 DEF DismissOverlays, B
<1> HIDE DEF u
<1>7. Closed(sl, B)
  BY <1>1, <1>4 DEF Closed
<1>8. /\ \A x \in Slots : /\ Dismissed(sl[x]) \in SlotType
                          /\ Dismissed(sl[x]).res = sl[x].res /\ Dismissed(sl[x]).role = sl[x].role
                          /\ Dismissed(sl[x]).owner = sl[x].owner
                          /\ Dismissed(sl[x]).window = sl[x].window
                          /\ Dismissed(sl[x]).parent = None /\ ~Dismissed(sl[x]).grabbed
  BY <1>3, DismissedFields
<1>9. /\ tl \in [Slots -> SlotType]
      /\ \A x \in B : tl[x] = Dismissed(sl[x])
      /\ \A x \in Slots \ B : tl[x] = sl[x]
      /\ \A x \in Slots : /\ tl[x].res = sl[x].res /\ tl[x].role = sl[x].role
                          /\ tl[x].owner = sl[x].owner /\ tl[x].window = sl[x].window
  BY <1>1, <1>3, <1>8
<1>10. /\ v \in WorldType /\ v.surface = tl /\ v.seat = u.seat /\ v.told = u.told
  BY <1>5, <1>6, <1>9 DEF WorldInv, WorldType
<1> HIDE DEF tl, sl
<1>11. ASSUME NEW x \in Slots PROVE SlotFits(tl, x)
  <2>1. SlotFits(sl, x)
    BY <1>3 DEF TreeInv
  <2>2. CASE x \in B
    BY <1>2, <1>8, <1>9, <2>1, <2>2 DEF SlotFits, IsOverlay, Free
  <2>3. CASE x \notin B
    BY <1>9, <2>1, <2>3 DEF SlotFits, MayHaveKeyboard
  <2> QED
    BY <2>2, <2>3
<1>12. ASSUME NEW x \in Slots PROVE Hangs(tl, x)
  <2>1. Hangs(sl, x) /\ SlotFits(sl, x)
    BY <1>3 DEF TreeInv
  <2>2. CASE x \in B
    BY <1>8, <1>9, <2>2 DEF Hangs
  <2>3. CASE x \notin B /\ sl[x].parent # None
    <3>1. IsOverlay(sl, x) /\ sl[x].parent \in Slots /\ tl[x] = sl[x]
      BY <1>3, <1>9, <2>1, <2>3 DEF Hangs, SlotFits, HasOverlayRole, IsOverlay, SlotType
    <3>2. sl[x].parent \notin B
      BY <1>7, <2>3, <3>1 DEF Closed
    <3>3. tl[sl[x].parent] = sl[sl[x].parent]
      BY <1>9, <3>1, <3>2
    <3> QED
      BY <2>1, <3>1, <3>3 DEF Hangs, HasOverlayRole
  <2>4. CASE x \notin B /\ sl[x].parent = None
    BY <1>9, <2>4 DEF Hangs
  <2> QED
    BY <2>2, <2>3, <2>4
<1>13. Acyclic(tl)
  <2>1. \A x \in Slots : tl[x].parent \in {sl[x].parent, None}
    BY <1>8, <1>9
  <2> QED
    BY <1>3, <2>1, AcyclicStays DEF TreeInv
<1>14. Nested(tl)
  <2>1. Grabbing(tl) \subseteq Grabbing(sl) \ B
    BY <1>8, <1>9 DEF Grabbing
  <2>2. B \in SUBSET Slots
    BY <1>1
  <2> QED
    BY <1>3, <1>7, <1>9, <2>1, <2>2, NestedStays
<1>15. SeatFits(v) /\ ToldFits(v, live)
  <2>1. SeatFits(u) /\ ToldFits(u, live) /\ u.surface = sl
    BY <1>5 DEF WorldInv, sl
  <2>2. u.seat.keyboard # None => u.seat.keyboard \in Slots /\ MayHaveKeyboard(sl, u.seat.keyboard)
    BY <2>1 DEF SeatFits
  <2>3. u.seat.keyboard \notin B
    BY <1>1, <1>2, <1>3, <2>2, SurfacesAssumption
       DEF MayHaveKeyboard, TreeInv, SlotFits, IsOverlay
  <2>4. u.seat.keyboard # None => tl[u.seat.keyboard] = sl[u.seat.keyboard]
    BY <1>9, <2>2, <2>3
  <2>5. SeatFits(v)
    <3>1. u.seat.keyboard # None => MayHaveKeyboard(tl, u.seat.keyboard)
      BY <2>2, <2>4 DEF MayHaveKeyboard
    <3>2. {x \in Slots : "surface" \in tl[x].res} = {x \in Slots : "surface" \in sl[x].res}
      BY <1>9
    <3> QED
      BY <1>10, <2>1, <3>1, <3>2 DEF SeatFits
  <2>6. ToldFits(v, live)
    <3>1. \A c \in Clients : u.told[c] # None => u.told[c] \in Slots
      BY <1>5 DEF WorldInv, WorldType
    <3> QED
      BY <1>9, <1>10, <2>1, <2>2, <3>1 DEF ToldFits
  <2> QED
    BY <2>5, <2>6
<1>16. ~HasChild(tl, s)
  <2> SUFFICES ASSUME NEW x \in Slots, tl[x].parent = s PROVE FALSE
    BY DEF HasChild
  <2>1. x \notin B /\ sl[x].parent = s
    BY <1>8, <1>9, SurfacesAssumption
  <2>2. IsOverlay(sl, x)
    BY <1>3, <2>1, SurfacesAssumption DEF TreeInv, Hangs, SlotFits, HasOverlayRole, IsOverlay
  <2>3. x = s
    BY <1>1, <2>1, <2>2 DEF Closed, sl
  <2> QED
    BY <1>4, <2>1, <2>3
<1>17. WorldInv(v, live)
  BY <1>10, <1>11, <1>12, <1>13, <1>14, <1>15 DEF WorldInv, TreeInv
<1>18. DismissedIn(w, v, s) /\ v.surface[s] = w.surface[s]
  BY <1>1, <1>9, <1>10 DEF DismissedIn, B, sl
<1> QED
  BY <1>5, <1>10, <1>16, <1>17, <1>18 DEF SeatOnlyLoses

LEMMA Unmapped ==
  ASSUME NEW live, NEW w, WorldInv(w, live), NEW s \in Slots, NEW send \in BOOLEAN, NEW v,
         v = Unmap(w, s, send),
         send \/ w.seat.keyboard # s \/ w.surface[s].owner \notin live
  PROVE  /\ WorldInv(v, live) /\ ~HasChild(v.surface, s) /\ v.seat.keyboard # s
         /\ v.surface[s] = [w.surface[s] EXCEPT !.window = FALSE] /\ SeatOnlyLoses(w, v)
<1> DEFINE alone == DismissOverlays(w, {s})
           away == ClearKeyboard(alone, s, send)
           off == ClearPointer(away, {s})
           r == [w.surface[s] EXCEPT !.window = FALSE]
<1>1. /\ WorldInv(alone, live) /\ ~HasChild(alone.surface, s)
      /\ alone.surface[s] = w.surface[s]
      /\ alone.seat.keyboard = w.seat.keyboard /\ SeatOnlyLoses(w, alone)
  BY OverlaysDismissed
<1> HIDE DEF alone
<1>2. w.surface[s] \in SlotType /\ r \in SlotType
  BY DEF WorldInv, WorldType, SlotType
<1>3. CASE ~alone.surface[s].window
  <2>1. v = alone
    BY <1>3 DEF Unmap, alone
  <2>2. w.surface[s] = r
    BY <1>1, <1>2, <1>3 DEF SlotType
  <2>3. alone.seat.keyboard # s
    BY <1>1, <1>3, SurfacesAssumption DEF WorldInv, SeatFits, MayHaveKeyboard
  <2> QED
    BY <1>1, <2>1, <2>2, <2>3
<1>4. CASE alone.surface[s].window
  <2>1. v = [off EXCEPT !.surface[s].window = FALSE]
    BY <1>4 DEF Unmap, alone
  <2>2. /\ WorldInv(away, live) /\ away.surface = alone.surface /\ away.seat.keyboard # s
        /\ SeatOnlyLoses(w, away)
    <3>1. /\ WorldInv(away, live) /\ away.surface = alone.surface /\ away.seat.keyboard # s
          /\ away.seat.pointer = alone.seat.pointer /\ away.seat.grab = alone.seat.grab
          /\ away.seat.cursor = alone.seat.cursor
      <4>1. send \/ alone.seat.keyboard # s \/ alone.surface[s].owner \notin live
        BY <1>1
      <4> HIDE DEF away
      <4> QED
        BY <1>1, <4>1, ClearedKeyboard DEF away
    <3> QED
      BY <1>1, <3>1 DEF SeatOnlyLoses
  <2> HIDE DEF away
  <2>3. /\ WorldInv(off, live) /\ off.surface = alone.surface /\ off.seat.keyboard # s
        /\ SeatOnlyLoses(w, off)
    <3>1. {s} \in SUBSET Slots
      OBVIOUS
    <3> QED
      BY <2>2, <3>1, ClearedPointer DEF SeatOnlyLoses
  <2> HIDE DEF off
  <2>4. v = [off EXCEPT !.surface[s] = r] /\ off.surface[s] = w.surface[s]
    BY <1>1, <2>1, <2>3
  <2>5. /\ v.surface[s] = r /\ v.seat = off.seat
        /\ \A x \in Slots \ {s} : v.surface[x] = off.surface[x]
    BY <2>3, <2>4 DEF WorldInv, WorldType
  <2>6. /\ r.res = w.surface[s].res /\ r.role = w.surface[s].role /\ r.owner = w.surface[s].owner
        /\ r.parent = w.surface[s].parent /\ r.grabbed = w.surface[s].grabbed
        /\ r.dismissed = w.surface[s].dismissed /\ ~r.window
    BY <1>2 DEF SlotType
  <2>7. SlotFits(off.surface, s) /\ Hangs(off.surface, s) /\ ~HasChild(off.surface, s)
        /\ w.surface[s].parent # s
    BY <1>1, <2>3 DEF WorldInv, TreeInv, HasChild
  <2>8. SlotFits(v.surface, s)
    BY <1>4, <1>1, <2>3, <2>5, <2>6, <2>7 DEF SlotFits, MayHaveKeyboard, Free
  <2>9. Hangs(v.surface, s)
    <3>1. w.surface[s].parent \in Slots \cup {None}
      BY <1>2 DEF SlotType
    <3>2. w.surface[s].parent # None =>
            v.surface[w.surface[s].parent] = off.surface[w.surface[s].parent]
      BY <2>5, <2>7, <3>1
    <3> QED
      BY <1>1, <2>3, <2>5, <2>6, <2>7, <3>2 DEF Hangs, HasOverlayRole
  <2>10. StillServes(off, s, r) /\ StaysHung(off.surface, s, r)
    BY <1>1, <2>3, <2>6, <2>7 DEF StillServes, StaysHung, Grabbing
  <2> HIDE DEF r
  <2>11. WorldInv(v, live)
    BY <1>2, <2>3, <2>4, <2>8, <2>9, <2>10, SlotStays
  <2>12. ~HasChild(v.surface, s) /\ v.seat.keyboard # s /\ SeatOnlyLoses(w, v)
    BY <2>3, <2>5, <2>6, <2>7 DEF HasChild, SeatOnlyLoses
  <2> QED
    BY <2>5, <2>11, <2>12 DEF r
<1> QED
  BY <1>3, <1>4

\* What slot s is once an object of it is gone: nothing hangs from it, it has no
\* window, and what is left of it fits.
Remains(w, s, r) ==
    LET old == w.surface[s]
    IN  /\ ~HasChild(w.surface, s) /\ ~r.window /\ w.seat.keyboard # s
        /\ "surface" \notin r.res =>
             /\ s \notin {w.seat.pointer, w.seat.grab, w.seat.cursor}
             /\ \A c \in Clients : w.told[c] # s
        /\ r.owner = old.owner /\ r.res \subseteq old.res
        /\ \A kind \in {"toplevel", "popup", "subsurface"} : kind \in r.res => r.role = kind
        /\ r.parent # None =>
             r.parent = old.parent /\ r.role = old.role /\ r.res \cap {"popup", "subsurface"} # {}
        /\ r.grabbed => old.grabbed /\ "popup" \in r.res /\ r.parent # None
        /\ r.dismissed = old.dismissed \/ ~r.grabbed

LEMMA NothingBelow ==
  ASSUME NEW sl, NEW s \in Slots, ~HasChild(sl, s)
  PROVE  Below(sl, {s}) = {}
<1>1. {s} \in SUBSET Slots /\ Closed(sl, {s})
  BY DEF Closed, HasChild
<1>2. Below(sl, {s}) \subseteq {s}
  BY <1>1, BelowIsLeast
<1> QED
  BY <1>2, BelowIsClosed

LEMMA ReleasedOrNot ==
  ASSUME NEW live, NEW w, WorldInv(w, live), NEW s \in Slots, NEW r \in SlotType, NEW v,
         v = [w EXCEPT !.surface[s] = r], Remains(w, s, r)
  PROVE  Release(v, s) = IF r.res = {} THEN [w EXCEPT !.surface[s] = Free] ELSE v
<1>1. /\ w \in WorldType /\ v \in WorldType /\ v.seat = w.seat /\ v.told = w.told
      /\ v.surface = [w.surface EXCEPT ![s] = r] /\ v.surface[s] = r
      /\ v.surface \in [Slots -> SlotType]
  BY DEF WorldInv, WorldType
<1>2. CASE r.res # {}
  BY <1>1, <1>2 DEF Release, Occupied
<1>3. CASE r.res = {}
  <2>1. ~HasChild(v.surface, s)
    BY <1>1, <1>3, SurfacesAssumption DEF HasChild, Remains, WorldType
  <2>2. Below(v.surface, {s}) = {}
    BY <2>1, NothingBelow
  <2>3. ClearPointer(v, {s}) = v
    BY <1>1, <1>3 DEF ClearPointer, Remains
  <2>4. ClearPointer(v, {}) = v
    BY DEF ClearPointer
  <2>5. DismissOverlays(v, {s}) = v
    <3>1. DismissOverlays(v, {s}) =
            [v EXCEPT !.surface = [x \in Slots |-> v.surface[x]]]
      BY <2>2, <2>4 DEF DismissOverlays
    <3>2. [x \in Slots |-> v.surface[x]] = v.surface
      BY <1>1
    <3> QED
      BY <1>1, <3>1, <3>2 DEF WorldType
  <2>6. Unmap(v, s, FALSE) = v
    BY <1>1, <2>5 DEF Unmap, Remains
  <2>7. Release(v, s) = [v EXCEPT !.surface[s] = Free]
    BY <1>1, <1>3, <2>3, <2>6 DEF Release, Occupied
  <2>8. [v EXCEPT !.surface[s] = Free] = [w EXCEPT !.surface[s] = Free]
    <3>1. [v.surface EXCEPT ![s] = Free] = [w.surface EXCEPT ![s] = Free]
      BY <1>1 DEF WorldType
    <3> QED
      BY <1>1, <3>1 DEF WorldType
  <2> QED
    BY <1>3, <2>7, <2>8
<1> QED
  BY <1>2, <1>3

LEMMA Settled ==
  ASSUME NEW live, NEW w, WorldInv(w, live), NEW s \in Slots, NEW r \in SlotType,
         Remains(w, s, r)
  PROVE  WorldInv(Release([w EXCEPT !.surface[s] = r], s), live)
<1> DEFINE q == IF r.res = {} THEN Free ELSE r
           z == [w EXCEPT !.surface[s] = q]
<1>1. Release([w EXCEPT !.surface[s] = r], s) = z
  BY ReleasedOrNot
<1>2. Free \in SlotType
  BY DEF Free, SlotType, Nobody, Kinds, Roles
<1>3. q \in SlotType /\ w \in WorldType /\ TreeInv(w.surface) /\ SeatFits(w)
  BY <1>2 DEF WorldInv
<1>4. /\ z.surface[s] = q
      /\ \A x \in Slots \ {s} : z.surface[x] = w.surface[x]
  BY <1>3 DEF WorldType
<1>5. SlotFits(w.surface, s) /\ Hangs(w.surface, s) /\ ~HasChild(w.surface, s)
      /\ w.surface[s].parent # s /\ w.surface[s].parent \in Slots \cup {None}
  BY <1>3 DEF TreeInv, Remains, HasChild, WorldType, SlotType
<1>6. CASE r.res = {}
  <2>1. q = Free
    BY <1>6
  <2>2. SlotFits(z.surface, s) /\ Hangs(z.surface, s)
    BY <1>4, <2>1 DEF SlotFits, Hangs, Free
  <2>3. StillServes(w, s, q)
    BY <1>5, <1>6, <2>1 DEF StillServes, Remains, Free
  <2>4. StaysHung(w.surface, s, q)
    BY <1>5, <2>1 DEF StaysHung, Free
  <2> QED
    BY <1>1, <1>3, <2>2, <2>3, <2>4, SlotStays
<1>7. CASE r.res # {}
  <2>1. q = r
    BY <1>7
  <2>2. SlotFits(z.surface, s)
    BY <1>4, <1>5, <1>7, <2>1 DEF SlotFits, Remains
  <2>3. Hangs(z.surface, s)
    <3>1. CASE r.parent = None
      BY <1>4, <2>1, <3>1 DEF Hangs
    <3>2. CASE r.parent # None
      <4>1. r.parent = w.surface[s].parent /\ r.parent \in Slots \ {s}
            /\ r.res \cap {"popup", "subsurface"} # {} /\ r.res \subseteq w.surface[s].res
        BY <1>5, <3>2 DEF Remains
      <4>2. z.surface[r.parent] = w.surface[r.parent]
        BY <1>4, <4>1
      <4> QED
        BY <1>4, <1>5, <2>1, <3>2, <4>1, <4>2 DEF Hangs, HasOverlayRole
    <3> QED
      BY <3>1, <3>2
  <2>4. StillServes(w, s, q)
    BY <1>5, <2>1 DEF StillServes, Remains
  <2>5. StaysHung(w.surface, s, q)
    <3>1. r.parent \in {w.surface[s].parent, None}
      BY DEF Remains
    <3>2. "popup" \in r.res /\ r.grabbed /\ ~r.dismissed =>
            s \in Grabbing(w.surface) /\ r.parent = w.surface[s].parent
            /\ r.role = w.surface[s].role
      BY DEF Remains, Grabbing
    <3> QED
      BY <1>5, <2>1, <3>1, <3>2 DEF StaysHung
  <2> QED
    BY <1>1, <1>3, <2>2, <2>3, <2>4, <2>5, SlotStays
<1> QED
  BY <1>6, <1>7

\* What each kind of object leaves when it is destroyed.
LEMMA SurfaceDestroyedFits ==
  ASSUME NEW live, NEW w, WorldInv(w, live), NEW s \in Slots, "surface" \in w.surface[s].res,
         w.seat.keyboard # s \/ w.surface[s].owner \notin live
  PROVE  WorldInv(SurfaceDestroyed(w, s), live)
<1> DEFINE off == ClearPointer(w, {s})
           gone == Unmap(off, s, FALSE)
           o == gone.surface[s].owner
           forgotten == IF gone.told[o] = s THEN [gone.told EXCEPT ![o] = None] ELSE gone.told
           f == [gone EXCEPT !.told = forgotten]
           r == WithoutSurface(gone.surface[s])
<1>1. /\ WorldInv(off, live) /\ off.surface = w.surface /\ off.seat.keyboard = w.seat.keyboard
      /\ s \notin {off.seat.pointer, off.seat.grab, off.seat.cursor}
  <2>1. {s} \in SUBSET Slots
    OBVIOUS
  <2> QED
    BY <2>1, ClearedPointer
<1> HIDE DEF off
<1>2. /\ WorldInv(gone, live) /\ ~HasChild(gone.surface, s) /\ gone.seat.keyboard # s
      /\ gone.surface[s] = [w.surface[s] EXCEPT !.window = FALSE]
      /\ s \notin {gone.seat.pointer, gone.seat.grab, gone.seat.cursor}
  <2>1. /\ WorldInv(gone, live) /\ ~HasChild(gone.surface, s) /\ gone.seat.keyboard # s
        /\ gone.surface[s] = [off.surface[s] EXCEPT !.window = FALSE] /\ SeatOnlyLoses(off, gone)
    BY <1>1, Unmapped
  <2> QED
    BY <1>1, <2>1, SurfacesAssumption DEF SeatOnlyLoses
<1>3. w.surface[s] \in SlotType /\ SlotFits(w.surface, s)
  BY DEF WorldInv, WorldType, TreeInv
<1> HIDE DEF gone
<1>4. /\ gone.surface[s] \in SlotType /\ gone.surface[s].res = w.surface[s].res
      /\ ~gone.surface[s].window /\ o = w.surface[s].owner /\ o \in Clients
      /\ gone \in WorldType /\ ToldFits(gone, live)
  BY <1>2, <1>3 DEF SlotType, SlotFits, WorldInv, WorldType
<1> HIDE DEF o
<1>5. /\ forgotten \in [Clients -> Slots \cup {None}]
      /\ \A c \in Clients : forgotten[c] = IF gone.told[c] = s THEN None ELSE gone.told[c]
  <2>1. \A c \in Clients : gone.told[c] = s => c = o
    BY <1>4, SurfacesAssumption DEF ToldFits, o
  <2>2. gone.told \in [Clients -> Slots \cup {None}]
    BY <1>4 DEF WorldType
  <2> QED
    BY <1>4, <2>1, <2>2
<1> HIDE DEF forgotten
<1>6. /\ f \in WorldType /\ f.surface = gone.surface /\ f.seat = gone.seat /\ f.told = forgotten
  BY <1>4, <1>5 DEF WorldType
<1>7. WorldInv(f, live)
  <2>1. ToldFits(f, live)
    BY <1>2, <1>4, <1>5, <1>6 DEF ToldFits
  <2> QED
    BY <1>2, <1>6, <2>1 DEF WorldInv, SeatFits
<1>8. SurfaceDestroyed(w, s) = Release([f EXCEPT !.surface[s] = r], s)
  <2>1. [gone EXCEPT !.surface[s] = r, !.told = forgotten] = [f EXCEPT !.surface[s] = r]
    <3> HIDE DEF r
    <3> QED
      BY <1>4, <1>6 DEF WorldType
  <2>2. SurfaceDestroyed(w, s) = Release([gone EXCEPT !.surface[s] = r, !.told = forgotten], s)
    BY DEF SurfaceDestroyed, off, gone, forgotten, o
  <2> QED
    BY <2>1, <2>2
<1>9. /\ r \in SlotType /\ r.res = gone.surface[s].res \ {"surface"} /\ ~r.window
      /\ r.owner = gone.surface[s].owner /\ r.role = gone.surface[s].role
      /\ r.parent = gone.surface[s].parent /\ r.grabbed = gone.surface[s].grabbed
      /\ r.dismissed = gone.surface[s].dismissed
  BY <1>4 DEF SlotType, WithoutSurface
<1> HIDE DEF r, f
<1>10. Remains(f, s, r)
  <2>1. SlotFits(gone.surface, s) /\ Hangs(gone.surface, s)
    BY <1>2 DEF WorldInv, TreeInv
  <2>2. \A c \in Clients : f.told[c] # s
    BY <1>5, <1>6, SurfacesAssumption
  <2> QED
    BY <1>2, <1>6, <1>9, <2>1, <2>2 DEF Remains, SlotFits, Hangs, HasOverlayRole
<1> QED
  BY <1>7, <1>8, <1>9, <1>10, Settled

LEMMA ToplevelDestroyedFits ==
  ASSUME NEW live, NEW w, WorldInv(w, live), NEW s \in Slots, "toplevel" \in w.surface[s].res,
         w.seat.keyboard # s \/ w.surface[s].owner \notin live
  PROVE  WorldInv(ToplevelDestroyed(w, s), live)
<1> DEFINE gone == Unmap(w, s, FALSE)
           r == WithoutToplevel(gone.surface[s])
           n == NotConfigured(gone.surface[s])
<1>1. /\ WorldInv(gone, live) /\ ~HasChild(gone.surface, s) /\ gone.seat.keyboard # s
      /\ gone.surface[s] = [w.surface[s] EXCEPT !.window = FALSE]
  <2>1. PICK send \in BOOLEAN : send = FALSE
    OBVIOUS
  <2>2. gone = Unmap(w, s, send) /\ (send \/ w.seat.keyboard # s \/ w.surface[s].owner \notin live)
    BY <2>1
  <2> HIDE DEF gone
  <2> QED
    BY <2>2, Unmapped
<1>2. w.surface[s] \in SlotType /\ SlotFits(w.surface, s) /\ Hangs(w.surface, s)
  BY DEF WorldInv, WorldType, TreeInv
<1> HIDE DEF gone
<1>3. /\ gone.surface[s] \in SlotType /\ gone.surface[s].res = w.surface[s].res
      /\ gone.surface[s].parent = w.surface[s].parent /\ gone.surface[s].role = w.surface[s].role
      /\ ~gone.surface[s].window /\ gone.surface[s].grabbed = w.surface[s].grabbed
  BY <1>1, <1>2 DEF SlotType
<1>4. /\ n \in SlotType
      /\ n.owner = gone.surface[s].owner /\ n.res = gone.surface[s].res
      /\ n.role = gone.surface[s].role /\ n.parent = gone.surface[s].parent
      /\ n.grabbed = gone.surface[s].grabbed /\ n.window = gone.surface[s].window
  BY <1>3, NotConfiguredFields
<1>5. r = [n EXCEPT !.pixels = FALSE, !.res = n.res \ {"toplevel"}]
  BY DEF WithoutToplevel
<1> HIDE DEF n, r
<1>6. /\ r \in SlotType /\ r.res = gone.surface[s].res \ {"toplevel"} /\ ~r.window
      /\ r.owner = gone.surface[s].owner /\ r.role = gone.surface[s].role
      /\ r.parent = gone.surface[s].parent /\ r.grabbed = gone.surface[s].grabbed
  BY <1>3, <1>4, <1>5 DEF SlotType
<1>7. w.surface[s].parent = None /\ ~w.surface[s].grabbed
  BY <1>2 DEF SlotFits, Hangs, HasOverlayRole
<1>8. Remains(gone, s, r)
  <2>1. SlotFits(gone.surface, s) /\ SeatFits(gone) /\ ToldFits(gone, live)
    BY <1>1 DEF WorldInv, TreeInv
  <2>2. "surface" \notin r.res => /\ s \notin {gone.seat.pointer, gone.seat.grab, gone.seat.cursor}
                                  /\ \A c \in Clients : gone.told[c] # s
    BY <1>6, <2>1, SurfacesAssumption DEF SeatFits, ToldFits
  <2> QED
    BY <1>1, <1>3, <1>6, <1>7, <2>1, <2>2 DEF Remains, SlotFits
<1>9. ToplevelDestroyed(w, s) = Release([gone EXCEPT !.surface[s] = r], s)
  BY DEF ToplevelDestroyed, gone, r
<1> QED
  BY <1>1, <1>6, <1>8, <1>9, Settled

LEMMA WithoutOverlayFields ==
  ASSUME NEW r \in SlotType
  PROVE  LET o == WithoutOverlay(r)
         IN  /\ o \in SlotType
             /\ o.owner = r.owner /\ o.window = r.window
             /\ o.res = r.res \ {"popup", "subsurface"}
             /\ o.role = (IF r.role = "subsurface" THEN "none" ELSE r.role)
             /\ o.parent = None /\ ~o.grabbed
<1> DEFINE n == NotConfigured(r)
           e == [n EXCEPT !.frames = 0, !.pixels = FALSE, !.parent = None]
           role == IF n.role = "subsurface" THEN "none" ELSE n.role
           res == n.res \ {"popup", "subsurface"}
           o == WithoutOverlay(r)
<1>1. /\ n \in SlotType
      /\ n.owner = r.owner /\ n.res = r.res /\ n.role = r.role /\ n.window = r.window
  BY NotConfiguredFields
<1>2. o = [e EXCEPT !.grabbed = FALSE, !.dismissed = FALSE, !.role = role, !.res = res]
  BY DEF WithoutOverlay
<1> HIDE DEF n, o
<1>3. e \in SlotType /\ e.owner = n.owner /\ e.window = n.window /\ e.parent = None
  BY <1>1 DEF SlotType
<1>4. role \in Roles /\ res \in SUBSET Kinds
  BY <1>1 DEF SlotType, Roles
<1> HIDE DEF e, role, res
<1>5. o \in SlotType
  BY <1>2, <1>3, <1>4 DEF SlotType
<1>6. /\ o.owner = e.owner /\ o.window = e.window /\ o.parent = e.parent /\ o.grabbed = FALSE
      /\ o.role = role /\ o.res = res
  BY <1>2, <1>3 DEF SlotType
<1> QED
  BY <1>1, <1>3, <1>5, <1>6 DEF o, role, res

LEMMA OverlayDestroyedFits ==
  ASSUME NEW live, NEW w, WorldInv(w, live), NEW s \in Slots, HasOverlayRole(w.surface, s)
  PROVE  WorldInv(OverlayDestroyed(w, s), live)
<1> DEFINE alone == DismissOverlays(w, {s})
           off == ClearPointer(alone, {s})
           gone == ClearKeyboard(off, s, FALSE)
           r == WithoutOverlay(gone.surface[s])
<1>1. w.surface[s] \in SlotType /\ SlotFits(w.surface, s) /\ SeatFits(w)
  BY DEF WorldInv, WorldType, TreeInv
<1>2. w.seat.keyboard # s /\ ~w.surface[s].window
  BY <1>1, SurfacesAssumption DEF SlotFits, HasOverlayRole, SeatFits, MayHaveKeyboard
<1>3. /\ WorldInv(alone, live) /\ ~HasChild(alone.surface, s)
      /\ alone.surface[s] = w.surface[s] /\ alone.seat.keyboard = w.seat.keyboard
  BY OverlaysDismissed
<1> HIDE DEF alone
<1>4. /\ WorldInv(off, live) /\ off.surface = alone.surface
      /\ off.seat.keyboard = alone.seat.keyboard
      /\ s \notin {off.seat.pointer, off.seat.grab, off.seat.cursor}
  <2>1. {s} \in SUBSET Slots
    OBVIOUS
  <2> QED
    BY <1>3, <2>1, ClearedPointer
<1> HIDE DEF off
<1>5. gone = off
  BY <1>2, <1>3, <1>4 DEF ClearKeyboard
<1> HIDE DEF gone
<1>6. /\ r \in SlotType
      /\ r.owner = w.surface[s].owner /\ ~r.window
      /\ r.res = w.surface[s].res \ {"popup", "subsurface"}
      /\ r.role = (IF w.surface[s].role = "subsurface" THEN "none" ELSE w.surface[s].role)
      /\ r.parent = None /\ ~r.grabbed
  <2>1. gone.surface[s] = w.surface[s]
    BY <1>3, <1>4, <1>5
  <2> QED
    BY <1>1, <1>2, <2>1, WithoutOverlayFields
<1> HIDE DEF r
<1>7. Remains(off, s, r)
  <2>1. SlotFits(off.surface, s) /\ SeatFits(off) /\ ToldFits(off, live)
    BY <1>4 DEF WorldInv, TreeInv
  <2>2. "surface" \notin r.res => \A c \in Clients : off.told[c] # s
    BY <1>3, <1>4, <1>6, <2>1, SurfacesAssumption DEF ToldFits
  <2>3. \A kind \in {"toplevel", "popup", "subsurface"} : kind \in r.res => r.role = kind
    BY <1>1, <1>6 DEF SlotFits
  <2> QED
    BY <1>2, <1>3, <1>4, <1>6, <2>2, <2>3 DEF Remains
<1>8. OverlayDestroyed(w, s) = Release([gone EXCEPT !.surface[s] = r], s)
  BY DEF OverlayDestroyed, gone, r, off, alone
<1> QED
  BY <1>4, <1>5, <1>6, <1>7, <1>8, Settled

LEMMA XdgDestroyedFits ==
  ASSUME NEW live, NEW w, WorldInv(w, live), NEW s \in Slots, "xdg" \in w.surface[s].res
  PROVE  WorldInv(XdgDestroyed(w, s), live)
<1> DEFINE old == w.surface[s]
           r == [old EXCEPT !.res = old.res \ {"xdg"}]
           v == [w EXCEPT !.surface[s] = r]
<1>1. /\ w \in WorldType /\ old \in SlotType /\ SlotFits(w.surface, s) /\ Hangs(w.surface, s)
      /\ TreeInv(w.surface) /\ SeatFits(w) /\ ToldFits(w, live)
  BY DEF WorldInv, WorldType, TreeInv
<1>2. /\ r \in SlotType /\ r.res = old.res \ {"xdg"} /\ r.owner = old.owner
      /\ r.role = old.role /\ r.parent = old.parent /\ r.grabbed = old.grabbed
      /\ r.dismissed = old.dismissed /\ r.window = old.window /\ r.pixels = old.pixels
  BY <1>1 DEF SlotType
<1>3. XdgDestroyed(w, s) = Release(v, s)
  <2>1. [w EXCEPT !.surface[s].res = @ \ {"xdg"}] = v
    BY <1>1 DEF WorldType
  <2> QED
    BY <2>1 DEF XdgDestroyed
<1>4. v.surface[s] = r /\ \A x \in Slots \ {s} : v.surface[x] = w.surface[x]
  BY <1>1 DEF WorldType
<1>5. CASE r.res = {}
  <2>1. old.res = {"xdg"}
    BY <1>2, <1>5
  <2>2. ~HasChild(w.surface, s)
    BY <1>1, <2>1, SurfacesAssumption DEF HasChild, TreeInv, Hangs
  <2>3. ~old.window /\ w.seat.keyboard # s
        /\ s \notin {w.seat.pointer, w.seat.grab, w.seat.cursor}
        /\ \A c \in Clients : w.told[c] # s
    BY <1>1, <2>1, SurfacesAssumption DEF SlotFits, MayHaveKeyboard, SeatFits, ToldFits
  <2>4. old.parent = None /\ ~old.grabbed
    BY <1>1, <2>1 DEF Hangs, HasOverlayRole, SlotFits
  <2>5. Remains(w, s, r)
    BY <1>2, <1>5, <2>2, <2>3, <2>4 DEF Remains
  <2> HIDE DEF r
  <2> QED
    BY <1>2, <1>3, <2>5, Settled
<1>6. CASE r.res # {}
  <2>1. XdgDestroyed(w, s) = v
    BY <1>3, <1>4, <1>6 DEF Release, Occupied
  <2>2. SlotFits(v.surface, s)
    BY <1>1, <1>2, <1>4, <1>6 DEF SlotFits, MayHaveKeyboard
  <2>3. Hangs(v.surface, s)
    <3>1. old.parent # None => old.parent \in Slots \ {s}
      BY <1>1, ParentIsAbove DEF SlotType, TreeInv, WorldType
    <3> QED
      BY <1>1, <1>2, <1>4, <3>1 DEF Hangs, HasOverlayRole
  <2>4. StillServes(w, s, r)
    <3>1. HasChild(w.surface, s) => "surface" \in old.res
      BY <1>1, SurfacesAssumption DEF HasChild, TreeInv, Hangs
    <3>2. w.seat.keyboard = s => old.window /\ "surface" \in old.res /\ old.pixels
      BY <1>1, SurfacesAssumption DEF SeatFits, MayHaveKeyboard
    <3> QED
      BY <1>2, <3>1, <3>2 DEF StillServes
  <2>5. StaysHung(w.surface, s, r)
    BY <1>2 DEF StaysHung, Grabbing
  <2> HIDE DEF r
  <2> QED
    BY <1>2, <2>1, <2>2, <2>3, <2>4, <2>5, SlotStays
<1> QED
  BY <1>5, <1>6

LEMMA DestroyedFits ==
  ASSUME NEW live, NEW w, WorldInv(w, live), NEW s \in Slots, NEW kind \in Kinds,
         kind \in w.surface[s].res,
         kind \in {"surface", "toplevel"} =>
           w.seat.keyboard # s \/ w.surface[s].owner \notin live
  PROVE  WorldInv(Destroyed(w, s, kind), live)
<1>1. CASE kind = "surface"
  BY <1>1, SurfaceDestroyedFits DEF Destroyed
<1>2. CASE kind = "xdg"
  BY <1>2, XdgDestroyedFits DEF Destroyed
<1>3. CASE kind = "toplevel"
  BY <1>3, ToplevelDestroyedFits DEF Destroyed
<1>4. CASE kind \in {"popup", "subsurface"}
  <2>1. HasOverlayRole(w.surface, s)
    BY <1>4 DEF HasOverlayRole
  <2> QED
    BY <1>4, <2>1, OverlayDestroyedFits DEF Destroyed
<1> QED
  BY <1>1, <1>2, <1>3, <1>4 DEF Kinds

\* A slot in use gets more objects, a role it had not, another configure or
\* contents, and stays where it hangs.
GrowsTo(old, r) ==
    /\ old.res # {} /\ old.res \subseteq r.res /\ r.owner = old.owner
    /\ \A kind \in {"toplevel", "popup", "subsurface"} : kind \in r.res => r.role = kind
    /\ r.role = old.role \/ old.role = "none"
    /\ r.parent = old.parent /\ r.grabbed = old.grabbed /\ (old.dismissed => r.dismissed)
    /\ old.window => r.window
    /\ r.window => r.role = "toplevel" /\ "surface" \in r.res /\ r.pixels

LEMMA SlotGrows ==
  ASSUME NEW live, NEW w, WorldInv(w, live), NEW s \in Slots, NEW r \in SlotType, NEW v,
         v = [w EXCEPT !.surface[s] = r], GrowsTo(w.surface[s], r)
  PROVE  WorldInv(v, live)
<1> DEFINE old == w.surface[s]
<1>1. /\ w \in WorldType /\ SlotFits(w.surface, s) /\ Hangs(w.surface, s) /\ TreeInv(w.surface)
      /\ SeatFits(w)
  BY DEF WorldInv, TreeInv
<1>2. v.surface[s] = r /\ \A x \in Slots \ {s} : v.surface[x] = w.surface[x]
  BY <1>1 DEF WorldType
<1>3. old.role = "none" => old.parent = None /\ s \notin Hooks(w.surface) /\ ~old.grabbed
  BY <1>1 DEF SlotFits, Hangs, HasOverlayRole, Hooks
<1>4. SlotFits(v.surface, s)
  BY <1>1, <1>2 DEF GrowsTo, SlotFits, MayHaveKeyboard
<1>5. Hangs(v.surface, s)
  <2>1. CASE r.parent = None
    BY <1>2, <2>1 DEF Hangs
  <2>2. CASE r.parent # None
    <3>1. r.parent = old.parent /\ r.parent \in Slots \ {s} /\ r.role = old.role
      BY <1>1, <1>3, <2>2, ParentIsAbove DEF GrowsTo, SlotType, TreeInv, WorldType
    <3>2. v.surface[r.parent] = w.surface[r.parent]
      BY <1>2, <3>1
    <3>3. /\ HasOverlayRole(w.surface, s)
          /\ "surface" \in w.surface[r.parent].res
          /\ "popup" \in old.res =>
               \/ "toplevel" \in w.surface[r.parent].res
               \/ "popup" \in w.surface[r.parent].res /\ w.surface[r.parent].parent # None
      BY <1>1, <2>2, <3>1 DEF Hangs
    <3>4. "popup" \in r.res => "popup" \in old.res
      BY <1>1, <3>1, <3>3 DEF GrowsTo, SlotFits, HasOverlayRole
    <3>5. r.res \cap {"popup", "subsurface"} # {}
      BY <3>3 DEF GrowsTo, HasOverlayRole
    <3> QED
      BY <1>2, <3>2, <3>3, <3>4, <3>5 DEF Hangs, HasOverlayRole
  <2> QED
    BY <2>1, <2>2
<1>6. StillServes(w, s, r)
  <2>1. HasChild(w.surface, s) => "surface" \in old.res
    BY <1>1, SurfacesAssumption DEF HasChild, TreeInv, Hangs
  <2>2. w.seat.keyboard = s => old.window
    BY <1>1, SurfacesAssumption DEF SeatFits, MayHaveKeyboard
  <2> QED
    BY <2>1, <2>2 DEF StillServes, GrowsTo
<1>7. StaysHung(w.surface, s, r)
  <2>1. "popup" \in r.res /\ r.grabbed /\ ~r.dismissed => s \in Grabbing(w.surface)
    BY <1>1 DEF GrowsTo, SlotFits, Grabbing
  <2> QED
    BY <1>3, <2>1 DEF GrowsTo, StaysHung
<1> QED
  BY <1>4, <1>5, <1>6, <1>7, SlotStays

LEMMA FewerLive ==
  ASSUME NEW live, NEW few \in SUBSET live, NEW w, WorldInv(w, live)
  PROVE  WorldInv(w, few)
BY DEF WorldInv, ToldFits

LEMMA PointerFocusFits ==
  ASSUME NEW live, NEW w, WorldInv(w, live), NEW s \in Slots \cup {None}, NEW v,
         v = ChangePointerFocus(w, s)
  PROVE  WorldInv(v, live)
<1> DEFINE new == IF s # None /\ IsMapped(w.surface, s) THEN s ELSE None
<1>1. w \in WorldType /\ SeatFits(w)
  BY DEF WorldInv
<1>2. new # None => new \in Slots /\ "surface" \in w.surface[new].res
  BY MappedIsShown
<1>3. CASE w.seat.pointer = new
  <2>1. v = w
    BY <1>3 DEF ChangePointerFocus
  <2> QED
    BY <2>1
<1>4. CASE w.seat.pointer # new
  <2>1. v = [w EXCEPT !.seat.pointer = new, !.seat.cursor = None]
    BY <1>4 DEF ChangePointerFocus
  <2>2. new \in Slots \cup {None}
    BY <1>2
  <2> HIDE DEF new
  <2>3. v = [w EXCEPT !.seat = [w.seat EXCEPT !.pointer = new, !.cursor = None]]
    BY <1>1, <2>1 DEF WorldType, SeatType
  <2>4. [w.seat EXCEPT !.pointer = new, !.cursor = None] \in SeatType
    BY <1>1, <2>2 DEF WorldType, SeatType
  <2>5. /\ v \in WorldType /\ v.surface = w.surface /\ v.told = w.told
        /\ v.seat = [w.seat EXCEPT !.pointer = new, !.cursor = None]
    BY <1>1, <2>3, <2>4 DEF WorldType
  <2>6. /\ v.seat.keyboard = w.seat.keyboard /\ v.seat.pointer = new
        /\ v.seat.grab = w.seat.grab /\ v.seat.cursor = None /\ v.seat.buttons = w.seat.buttons
    BY <1>1, <2>5 DEF WorldType, SeatType
  <2>7. {v.seat.pointer, v.seat.grab, v.seat.cursor} \ {None} \subseteq
           {x \in Slots : "surface" \in w.surface[x].res}
    BY <1>1, <1>2, <2>6 DEF SeatFits, new
  <2>8. (v.seat.grab # None) = (v.seat.buttons # {})
    BY <1>1, <2>6 DEF SeatFits
  <2> QED
    BY <2>5, <2>6, <2>7, <2>8, MovedPointer
<1> QED
  BY <1>3, <1>4

-----------------------------------------------------------------------------
(***************************************************************************)
(* Requests.                                                               *)
(***************************************************************************)
\* A request or an event that leaves a world that fits.
LEMMA Accepted ==
  ASSUME SurfaceInv, NEW w, WorldInv(w, Live), Become(w), UNCHANGED client, handled' \in BOOLEAN
  PROVE  SurfaceInv'
<1>1. w \in WorldType
  BY DEF WorldInv
<1>2. World' = w
  BY <1>1 DEF World, Become, WorldType
<1>3. Live' = Live
  BY DEF Live
<1>4. WorldInv(World', Live')
  BY <1>2, <1>3
<1> QED
  BY <1>4 DEF SurfaceInv

\* A refused one.
LEMMA Refused ==
  ASSUME SurfaceInv, NEW c \in Clients, Refuse(c), Stays, handled' \in BOOLEAN
  PROVE  SurfaceInv'
<1>1. client \in [Clients -> {"live", "dying"}] /\ WorldInv(World, Live)
  BY DEF SurfaceInv
<1>2. client' \in [Clients -> {"live", "dying"}] /\ Live' \in SUBSET Live
  BY <1>1 DEF Refuse, Live
<1>3. World' = World
  BY DEF Stays, World
<1>4. WorldInv(World, Live')
  BY <1>1, <1>2, FewerLive
<1> QED
  BY <1>2, <1>3, <1>4 DEF SurfaceInv

LEMMA WorldFields ==
  World.surface = surface /\ World.seat = seat /\ World.told = told
BY DEF World

\* What is known of a slot in use.
LEMMA SlotFacts ==
  ASSUME NEW live, NEW w, WorldInv(w, live), NEW s \in Slots
  PROVE  /\ w \in WorldType /\ TreeInv(w.surface)
         /\ w.surface[s] \in SlotType /\ SlotFits(w.surface, s) /\ Hangs(w.surface, s)
         /\ w.surface[s].res # {} => GrowsTo(w.surface[s], w.surface[s])
<1>1. w \in WorldType /\ SlotFits(w.surface, s) /\ Hangs(w.surface, s) /\ TreeInv(w.surface)
  BY DEF WorldInv, TreeInv
<1>2. w.surface[s] \in SlotType
  BY <1>1 DEF WorldType
<1>3. w.surface[s].res # {} => GrowsTo(w.surface[s], w.surface[s])
  BY <1>1 DEF GrowsTo, SlotFits, MayHaveKeyboard
<1> QED
  BY <1>1, <1>2, <1>3

\* A request that lets its slot grow.
LEMMA SetFits ==
  ASSUME SurfaceInv, NEW s \in Slots, NEW r \in SlotType, GrowsTo(surface[s], r),
         Accept(Set(s, r)), handled' \in BOOLEAN
  PROVE  SurfaceInv'
<1>1. WorldInv(World, Live)
  BY DEF SurfaceInv
<1>2. WorldInv(Set(s, r), Live)
  BY <1>1, SlotGrows, WorldFields DEF Set
<1> QED
  BY <1>2, Accepted DEF Accept

LEMMA CreateSurfaceFits ==
  ASSUME SurfaceInv, NEW c \in Clients, CreateSurface(c)
  PROVE  SurfaceInv'
<1>0. handled' \in BOOLEAN
  BY DEF SurfaceInv, CreateSurface
<1>1. CASE Refuse(c) /\ Stays
  BY <1>0, <1>1, Refused
<1>2. ASSUME NEW s \in Slots, ~Occupied(surface, s),
             Accept(Set(s, [Free EXCEPT !.owner = c, !.res = {"surface"}]))
      PROVE  SurfaceInv'
  <2> DEFINE r == [Free EXCEPT !.owner = c, !.res = {"surface"}]
             v == Set(s, r)
  <2>1. WorldInv(World, Live)
    BY DEF SurfaceInv
  <2>2. /\ World \in WorldType /\ TreeInv(surface) /\ SlotFits(surface, s)
    BY <2>1, SlotFacts, WorldFields
  <2>3. surface[s] = Free /\ surface[s].res = {} /\ surface[s].parent = None
        /\ surface[s].role = "none"
    BY <1>2, <2>2 DEF SlotFits, Occupied, Free
  <2>4. /\ r \in SlotType
        /\ r.owner = c /\ r.res = {"surface"} /\ r.role = "none" /\ r.parent = None
        /\ ~r.window /\ ~r.grabbed
    BY DEF Free, SlotType, Kinds, Roles
  <2>5. v = [World EXCEPT !.surface[s] = r]
    BY DEF Set
  <2>6. v.surface[s] = r
    BY <2>2, <2>5 DEF WorldType
  <2>7. ~HasChild(surface, s) /\ s \notin Hooks(surface) /\ seat.keyboard # s
    BY <2>1, <2>2, <2>3, SurfacesAssumption, WorldFields
       DEF WorldInv, SeatFits, HasChild, TreeInv, Hangs, Hooks, MayHaveKeyboard
  <2>8. SlotFits(v.surface, s) /\ Hangs(v.surface, s)
    BY <2>4, <2>6 DEF SlotFits, Hangs
  <2>9. StillServes(World, s, r) /\ StaysHung(World.surface, s, r)
    BY <2>3, <2>4, <2>7, WorldFields DEF StillServes, StaysHung
  <2> HIDE DEF r, v
  <2>10. WorldInv(v, Live)
    BY <2>1, <2>4, <2>5, <2>8, <2>9, SlotStays
  <2> QED
    BY <1>0, <1>2, <2>10, Accepted DEF v, r, Accept
<1> QED
  BY <1>1, <1>2 DEF CreateSurface

LEMMA GetXdgSurfaceFits ==
  ASSUME SurfaceInv, NEW c \in Clients, NEW s \in Slots, NEW attached \in BOOLEAN,
         GetXdgSurface(c, s, attached)
  PROVE  SurfaceInv'
<1> DEFINE r == surface[s]
           q == [r EXCEPT !.res = r.res \cup {"xdg"}]
<1>0. handled' \in BOOLEAN
  BY DEF SurfaceInv, GetXdgSurface
<1>1. CASE Refuse(c) /\ Stays
  BY <1>0, <1>1, Refused
<1>2. CASE Accept(Set(s, q))
  <2>1. r \in SlotType /\ GrowsTo(r, r)
    BY SlotFacts, WorldFields DEF SurfaceInv, GetXdgSurface, Asks
  <2>2. q \in SlotType /\ GrowsTo(r, q)
    BY <2>1 DEF SlotType, Kinds, GrowsTo
  <2> QED
    BY <1>0, <1>2, <2>2, SetFits
<1> QED
  BY <1>1, <1>2 DEF GetXdgSurface

LEMMA GetToplevelFits ==
  ASSUME SurfaceInv, NEW c \in Clients, NEW s \in Slots, GetToplevel(c, s)
  PROVE  SurfaceInv'
<1> DEFINE r == surface[s]
           n == NotConfigured(r)
           q == [n EXCEPT !.role = "toplevel", !.res = n.res \cup {"toplevel"}]
<1>0. handled' \in BOOLEAN
  BY DEF SurfaceInv, GetToplevel
<1>1. CASE Refuse(c) /\ Stays
  BY <1>0, <1>1, Refused
<1>2. CASE Accept(Set(s, q)) /\ r.role \in {"none", "toplevel"}
  <2>1. r \in SlotType /\ GrowsTo(r, r) /\ SlotFits(surface, s)
    BY SlotFacts, WorldFields DEF SurfaceInv, GetToplevel, Asks
  <2>2. /\ n \in SlotType
        /\ n.owner = r.owner /\ n.res = r.res /\ n.role = r.role /\ n.parent = r.parent
        /\ n.dismissed = r.dismissed /\ n.grabbed = r.grabbed /\ n.pixels = r.pixels
        /\ n.window = r.window
    BY <2>1, NotConfiguredFields
  <2> HIDE DEF n
  <2>3. /\ q \in SlotType
        /\ q.owner = n.owner /\ q.res = n.res \cup {"toplevel"} /\ q.role = "toplevel"
        /\ q.parent = n.parent /\ q.dismissed = n.dismissed /\ q.grabbed = n.grabbed
        /\ q.pixels = n.pixels /\ q.window = n.window
    BY <2>2 DEF SlotType, Kinds, Roles
  <2> HIDE DEF q
  <2>4. GrowsTo(r, q)
    BY <1>2, <2>1, <2>2, <2>3 DEF GrowsTo
  <2> QED
    BY <1>0, <1>2, <2>3, <2>4, SetFits
<1> QED
  BY <1>1, <1>2 DEF GetToplevel

LEMMA GetPopupFits ==
  ASSUME SurfaceInv, NEW c \in Clients, NEW s \in Slots, NEW p \in Slots, GetPopup(c, s, p)
  PROVE  SurfaceInv'
<1> DEFINE r == surface[s]
           q == [r EXCEPT !.role = "popup", !.parent = p, !.res = r.res \cup {"popup"}]
           v == Set(s, q)
<1>0. handled' \in BOOLEAN
  BY DEF SurfaceInv, GetPopup
<1>1. CASE Refuse(c) /\ Stays
  BY <1>0, <1>1, Refused
<1>2. CASE /\ Accept(v) /\ "popup" \notin r.res /\ r.role \in {"none", "popup"}
           /\ HasXdgRole(surface, p) /\ IsMapped(surface, p)
  <2>1. /\ World \in WorldType /\ TreeInv(surface) /\ surface \in [Slots -> SlotType]
        /\ r \in SlotType /\ SlotFits(surface, s) /\ Hangs(surface, s) /\ r.res # {}
        /\ SlotFits(surface, p) /\ WorldInv(World, Live)
    BY SlotFacts, WorldFields DEF SurfaceInv, GetPopup, Asks, WorldType
  <2>2. r.parent = None /\ ~r.grabbed /\ s \notin Hooks(surface) /\ p # s
    BY <1>2, <2>1 DEF SlotFits, Hangs, HasOverlayRole, HasXdgRole, Hooks
  <2>3. /\ "surface" \in surface[p].res
        /\ \/ "toplevel" \in surface[p].res
           \/ HasOverlayRole(surface, p) /\ surface[p].parent \in Slots
    BY <1>2, MappedIsShown
  <2>4. p \in Hooks(surface)
    BY <1>2, <2>1, <2>3, SurfacesAssumption DEF Hooks, HasXdgRole
  <2>5. /\ q \in SlotType
        /\ q.owner = r.owner /\ q.res = r.res \cup {"popup"} /\ q.role = "popup" /\ q.parent = p
        /\ ~q.grabbed /\ q.window = r.window /\ q.pixels = r.pixels
    BY <2>1, <2>2 DEF SlotType, Kinds, Roles
  <2>6. v = [World EXCEPT !.surface[s] = q]
    BY DEF Set
  <2> HIDE DEF q, v
  <2>7. /\ v.surface[s] = q /\ \A x \in Slots \ {s} : v.surface[x] = surface[x]
        /\ v.surface \in [Slots -> SlotType]
    BY <2>1, <2>5, <2>6, WorldFields DEF WorldType
  <2>8. SlotFits(v.surface, s)
    BY <1>2, <2>1, <2>5, <2>7 DEF SlotFits
  <2>9. Hangs(v.surface, s)
    <3>1. v.surface[p] = surface[p]
      BY <2>2, <2>7
    <3>2. \/ "toplevel" \in surface[p].res
          \/ "popup" \in surface[p].res /\ surface[p].parent # None
      BY <1>2, <2>3, SurfacesAssumption DEF HasXdgRole
    <3> QED
      BY <2>3, <2>5, <2>7, <3>1, <3>2 DEF Hangs, HasOverlayRole
  <2>10. Acyclic(v.surface)
    BY <2>1, <2>2, <2>4, <2>5, <2>7, PopupIsHung
  <2>11. Nested(v.surface)
    <3>1. {} \in SUBSET Slots /\ Closed(surface, {})
      BY DEF Closed
    <3>2. \A x \in Slots \ {} : surface[x].parent # None \/ x \in Hooks(surface) =>
             v.surface[x].role = surface[x].role /\ v.surface[x].parent = surface[x].parent
      BY <2>2, <2>7
    <3>3. Grabbing(v.surface) \subseteq Grabbing(surface) \ {}
      BY <2>5, <2>7 DEF Grabbing
    <3> QED
      BY <2>1, <2>7, <3>1, <3>2, <3>3, NestedStays
  <2>12. StillServes(World, s, q)
    <3>1. HasChild(surface, s) => "surface" \in r.res
      BY <2>1, SurfacesAssumption DEF HasChild, TreeInv, Hangs
    <3>2. seat.keyboard = s => r.window /\ "surface" \in r.res /\ r.pixels
      BY <2>1, SurfacesAssumption, WorldFields DEF WorldInv, SeatFits, MayHaveKeyboard
    <3> QED
      BY <1>2, <2>5, <3>1, <3>2, WorldFields DEF StillServes
  <2>13. WorldInv(v, Live)
    BY <2>1, <2>5, <2>6, <2>8, <2>9, <2>10, <2>11, <2>12, SlotMayChange
  <2> QED
    BY <1>0, <1>2, <2>13, Accepted DEF Accept
<1> QED
  BY <1>1, <1>2 DEF GetPopup

LEMMA GetSubsurfaceFits ==
  ASSUME SurfaceInv, NEW c \in Clients, NEW s \in Slots, NEW p \in Slots, GetSubsurface(c, s, p)
  PROVE  SurfaceInv'
<1> DEFINE r == surface[s]
           q == [r EXCEPT !.role = "subsurface", !.parent = p, !.res = r.res \cup {"subsurface"}]
           v == Set(s, q)
<1>0. handled' \in BOOLEAN /\ "surface" \in surface[p].res /\ p \notin Below(surface, {s})
  BY DEF SurfaceInv, GetSubsurface
<1>1. CASE Refuse(c) /\ Stays
  BY <1>0, <1>1, Refused
<1>2. CASE /\ Accept(v) /\ s # p
           /\ r.role \in {"none", "subsurface"} /\ "subsurface" \notin r.res
  <2>1. /\ World \in WorldType /\ TreeInv(surface) /\ surface \in [Slots -> SlotType]
        /\ r \in SlotType /\ SlotFits(surface, s) /\ Hangs(surface, s) /\ r.res # {}
        /\ WorldInv(World, Live)
    BY SlotFacts, WorldFields DEF SurfaceInv, GetSubsurface, Asks, WorldType
  <2>2. r.parent = None /\ ~r.grabbed /\ s \notin Hooks(surface)
        /\ r.res \cap {"toplevel", "popup"} = {}
    BY <1>2, <2>1 DEF SlotFits, Hangs, HasOverlayRole, Hooks
  <2>3. /\ q \in SlotType
        /\ q.owner = r.owner /\ q.res = r.res \cup {"subsurface"} /\ q.role = "subsurface"
        /\ q.parent = p /\ ~q.grabbed /\ q.window = r.window /\ q.pixels = r.pixels
    BY <2>1, <2>2 DEF SlotType, Kinds, Roles
  <2>4. v = [World EXCEPT !.surface[s] = q]
    BY DEF Set
  <2> HIDE DEF q, v
  <2>5. /\ v.surface[s] = q /\ \A x \in Slots \ {s} : v.surface[x] = surface[x]
        /\ v.surface \in [Slots -> SlotType]
    BY <2>1, <2>3, <2>4, WorldFields DEF WorldType
  <2>6. SlotFits(v.surface, s)
    BY <1>2, <2>1, <2>2, <2>3, <2>5 DEF SlotFits
  <2>7. Hangs(v.surface, s)
    <3>1. v.surface[p] = surface[p]
      BY <1>2, <2>5
    <3> QED
      BY <1>0, <2>2, <2>3, <2>5, <3>1 DEF Hangs, HasOverlayRole
  <2>8. Acyclic(v.surface)
    BY <1>0, <1>2, <2>1, <2>3, <2>5, SubsurfaceIsHung
  <2>9. Nested(v.surface)
    <3>1. {} \in SUBSET Slots /\ Closed(surface, {})
      BY DEF Closed
    <3>2. \A x \in Slots \ {} : surface[x].parent # None \/ x \in Hooks(surface) =>
             v.surface[x].role = surface[x].role /\ v.surface[x].parent = surface[x].parent
      BY <2>2, <2>5
    <3>3. Grabbing(v.surface) \subseteq Grabbing(surface) \ {}
      BY <2>3, <2>5 DEF Grabbing
    <3> QED
      BY <2>1, <2>5, <3>1, <3>2, <3>3, NestedStays
  <2>10. StillServes(World, s, q)
    <3>1. HasChild(surface, s) => "surface" \in r.res
      BY <2>1, SurfacesAssumption DEF HasChild, TreeInv, Hangs
    <3>2. seat.keyboard = s => r.window /\ "surface" \in r.res /\ r.pixels
      BY <2>1, SurfacesAssumption, WorldFields DEF WorldInv, SeatFits, MayHaveKeyboard
    <3> QED
      BY <2>2, <2>3, <3>1, <3>2, WorldFields DEF StillServes
  <2>11. WorldInv(v, Live)
    BY <2>1, <2>3, <2>4, <2>6, <2>7, <2>8, <2>9, <2>10, SlotMayChange
  <2> QED
    BY <1>0, <1>2, <2>11, Accepted DEF Accept
<1> QED
  BY <1>1, <1>2 DEF GetSubsurface

LEMMA PopupGrabFits ==
  ASSUME SurfaceInv, NEW c \in Clients, NEW s \in Slots, NEW right \in BOOLEAN,
         PopupGrab(c, s, right)
  PROVE  SurfaceInv'
<1> DEFINE r == surface[s]
           q == [r EXCEPT !.grabbed = TRUE]
           v == Set(s, q)
           topmost == CASE surface[r.parent].role = "popup" ->
                             /\ surface[r.parent].grabbed /\ ~surface[r.parent].dismissed
                             /\ ~PopupHasLiveChild(r.parent, s)
                        [] OTHER -> ~OtherPopupGrab(RootToplevel(surface, s), s)
<1>0. handled' \in BOOLEAN /\ "popup" \in r.res
  BY DEF SurfaceInv, PopupGrab, Asks
<1>1. CASE Refuse(c) /\ Stays
  BY <1>0, <1>1, Refused
<1>2. CASE Accept(v) /\ r.parent # None /\ topmost
  <2>1. /\ World \in WorldType /\ TreeInv(surface) /\ surface \in [Slots -> SlotType]
        /\ r \in SlotType /\ SlotFits(surface, s) /\ Hangs(surface, s)
        /\ WorldInv(World, Live)
    BY SlotFacts, WorldFields DEF SurfaceInv, WorldType
  <2>2. r.parent \in Slots /\ r.parent # s
    BY <1>2, <2>1, ParentIsAbove DEF SlotType, TreeInv
  <2>3. /\ q \in SlotType
        /\ q.owner = r.owner /\ q.res = r.res /\ q.role = r.role
        /\ q.parent = r.parent /\ q.grabbed /\ q.window = r.window /\ q.pixels = r.pixels
    BY <2>1 DEF SlotType
  <2>4. v = [World EXCEPT !.surface[s] = q]
    BY DEF Set
  <2>5. \/ \A t \in Grabbing(surface) \ {s} : RootToplevel(surface, t) # RootToplevel(surface, s)
        \/ /\ r.parent \in Grabbing(surface)
           /\ \A x \in Slots \ {s} : "popup" \in surface[x].res => surface[x].parent # r.parent
    <3>1. CASE surface[r.parent].role = "popup"
      <4>1. /\ surface[r.parent].grabbed /\ ~surface[r.parent].dismissed
            /\ ~PopupHasLiveChild(r.parent, s)
        BY <1>2, <3>1
      <4>2. "popup" \in surface[r.parent].res
        BY <2>1, <2>2, <4>1 DEF TreeInv, SlotFits
      <4> QED
        BY <2>2, <4>1, <4>2 DEF Grabbing, PopupHasLiveChild
    <3>2. CASE surface[r.parent].role # "popup"
      <4>1. ~OtherPopupGrab(RootToplevel(surface, s), s)
        BY <1>2, <3>2
      <4> QED
        BY <4>1 DEF OtherPopupGrab, Grabbing
    <3> QED
      BY <3>1, <3>2
  <2> HIDE DEF q, v, topmost
  <2>6. /\ v.surface[s] = q /\ \A x \in Slots \ {s} : v.surface[x] = surface[x]
        /\ v.surface \in [Slots -> SlotType]
    BY <2>1, <2>3, <2>4, WorldFields DEF WorldType
  <2>7. SlotFits(v.surface, s)
    BY <1>0, <1>2, <2>1, <2>3, <2>6 DEF SlotFits, MayHaveKeyboard
  <2>8. Hangs(v.surface, s)
    BY <2>1, <2>2, <2>3, <2>6 DEF Hangs, HasOverlayRole
  <2>9. \A x \in Slots : /\ v.surface[x].role = surface[x].role
                         /\ v.surface[x].parent = surface[x].parent
    BY <2>3, <2>6
  <2>10. Acyclic(v.surface)
    <3>1. \A x \in Slots : v.surface[x].parent \in {surface[x].parent, None}
      BY <2>9
    <3> QED
      BY <2>1, <3>1, AcyclicStays DEF TreeInv
  <2>11. Nested(v.surface)
    <3>1. Grabbing(v.surface) \subseteq Grabbing(surface) \cup {s}
      BY <2>6 DEF Grabbing
    <3> QED
      BY <1>0, <2>1, <2>2, <2>5, <2>6, <2>9, <3>1, GrabIsNested
  <2>12. StillServes(World, s, q)
    <3>1. HasChild(surface, s) => "surface" \in r.res
      BY <2>1, SurfacesAssumption DEF HasChild, TreeInv, Hangs
    <3>2. seat.keyboard = s => r.window /\ "surface" \in r.res /\ r.pixels
      BY <2>1, SurfacesAssumption, WorldFields DEF WorldInv, SeatFits, MayHaveKeyboard
    <3> QED
      BY <2>3, <3>1, <3>2, WorldFields DEF StillServes
  <2>13. WorldInv(v, Live)
    BY <2>1, <2>3, <2>4, <2>7, <2>8, <2>10, <2>11, <2>12, SlotMayChange
  <2> QED
    BY <1>0, <1>2, <2>13, Accepted DEF Accept
<1> QED
  BY <1>1, <1>2 DEF PopupGrab

LEMMA ConfigureFields ==
  ASSUME NEW old, NEW r \in SlotType, GrowsTo(old, r)
  PROVE  Configure(r) \in SlotType /\ GrowsTo(old, Configure(r))
BY DEF Configure, SlotType, GrowsTo

LEMMA RepositionFits ==
  ASSUME SurfaceInv, NEW c \in Clients, NEW s \in Slots, Reposition(c, s)
  PROVE  SurfaceInv'
<1>0. handled' \in BOOLEAN
  BY DEF SurfaceInv, Reposition
<1>1. CASE Refuse(c) /\ Stays
  BY <1>0, <1>1, Refused
<1>2. CASE Accept(Set(s, Configure(surface[s])))
  <2>1. surface[s] \in SlotType /\ GrowsTo(surface[s], surface[s])
    BY SlotFacts, WorldFields DEF SurfaceInv, Reposition, Asks
  <2>2. Configure(surface[s]) \in SlotType /\ GrowsTo(surface[s], Configure(surface[s]))
    BY <2>1, ConfigureFields
  <2> QED
    BY <1>0, <1>2, <2>2, SetFits
<1> QED
  BY <1>1, <1>2 DEF Reposition

LEMMA AckConfigureFits ==
  ASSUME SurfaceInv, NEW c \in Clients, NEW s \in Slots, NEW right \in BOOLEAN,
         AckConfigure(c, s, right)
  PROVE  SurfaceInv'
<1> DEFINE q == [surface[s] EXCEPT !.configured = TRUE, !.unacked = FALSE]
<1>0. handled' \in BOOLEAN
  BY DEF SurfaceInv, AckConfigure
<1>1. CASE Refuse(c) /\ Stays
  BY <1>0, <1>1, Refused
<1>2. CASE Accept(Set(s, q))
  <2>1. surface[s] \in SlotType /\ GrowsTo(surface[s], surface[s])
    BY SlotFacts, WorldFields DEF SurfaceInv, AckConfigure, Asks
  <2>2. q \in SlotType /\ GrowsTo(surface[s], q)
    BY <2>1 DEF SlotType, GrowsTo
  <2> QED
    BY <1>0, <1>2, <2>2, SetFits
<1> QED
  BY <1>1, <1>2 DEF AckConfigure

LEMMA SetCursorFits ==
  ASSUME SurfaceInv, NEW c \in Clients, NEW s \in Slots, NEW fresh \in BOOLEAN,
         SetCursor(c, s, fresh)
  PROVE  SurfaceInv'
<1> DEFINE r == surface[s]
           q == [r EXCEPT !.role = "cursor"]
           w == Set(s, q)
           v == [w EXCEPT !.seat.cursor = s]
<1>0. /\ handled' \in BOOLEAN /\ WorldInv(World, Live) /\ "surface" \in r.res
      /\ World \in WorldType /\ r \in SlotType /\ GrowsTo(r, r) /\ SlotFits(surface, s)
  BY SlotFacts, WorldFields DEF SurfaceInv, SetCursor, Asks
<1>1. CASE Refuse(c) /\ Stays
  BY <1>0, <1>1, Refused
<1>2. CASE UNCHANGED client /\ Stays
  <2>1. Become(World)
    BY <1>2, WorldFields DEF Become, Stays
  <2> QED
    BY <1>0, <1>2, <2>1, Accepted
<1>3. CASE /\ Accept([World EXCEPT !.surface[s].role = "cursor", !.seat.cursor = s])
           /\ r.role \in {"none", "cursor"}
  <2>1. q \in SlotType /\ q.role = "cursor" /\ q.res = r.res /\ GrowsTo(r, q)
    BY <1>0, <1>3 DEF SlotType, Roles, GrowsTo, SlotFits
  <2>2. w = [World EXCEPT !.surface[s] = q]
    BY DEF Set
  <2>3. [World EXCEPT !.surface[s].role = "cursor", !.seat.cursor = s] = v
    BY <2>2, WorldFields
  <2> HIDE DEF q, w
  <2>4. WorldInv(w, Live)
    BY <1>0, <2>1, <2>2, SlotGrows, WorldFields
  <2>5. w \in WorldType /\ w.seat = seat /\ w.surface[s] = q
        /\ \A x \in Slots \ {s} : w.surface[x] = surface[x]
    BY <1>0, <2>2, <2>4, WorldFields DEF WorldInv, WorldType
  <2>6. /\ v \in WorldType /\ v.surface = w.surface /\ v.told = w.told
        /\ v.seat.keyboard = seat.keyboard /\ v.seat.pointer = seat.pointer
        /\ v.seat.grab = seat.grab /\ v.seat.cursor = s /\ v.seat.buttons = seat.buttons
    BY <2>5 DEF WorldType, SeatType
  <2>7. SeatFits(w)
    BY <2>4 DEF WorldInv
  <2>8. {v.seat.pointer, v.seat.grab, v.seat.cursor} \ {None} \subseteq
           {x \in Slots : "surface" \in w.surface[x].res}
    BY <1>0, <2>1, <2>5, <2>6, <2>7 DEF SeatFits
  <2>9. (v.seat.grab # None) = (v.seat.buttons # {})
    BY <2>5, <2>6, <2>7 DEF SeatFits
  <2>10. WorldInv(v, Live)
    BY <2>4, <2>5, <2>6, <2>8, <2>9, MovedPointer
  <2> QED
    BY <1>0, <1>3, <2>3, <2>10, Accepted DEF Accept
<1> QED
  BY <1>1, <1>2, <1>3 DEF SetCursor

\* A slot in use may grow and is then still in use.
LEMMA GrownFits ==
  ASSUME NEW live, NEW w, WorldInv(w, live), NEW s \in Slots, NEW r \in SlotType, NEW v,
         v = [w EXCEPT !.surface[s] = r], GrowsTo(w.surface[s], r)
  PROVE  WorldInv(v, live) /\ v.surface[s] = r /\ v.surface[s].res # {}
<1>1. w \in WorldType
  BY DEF WorldInv
<1>2. v.surface[s] = r
  BY <1>1 DEF WorldType
<1>3. r.res # {}
  BY DEF GrowsTo
<1> QED
  BY <1>2, <1>3, SlotGrows

LEMMA MappingsFit ==
  ASSUME NEW live, NEW w, WorldInv(w, live), NEW s \in Slots, "surface" \in w.surface[s].res,
         NEW v \in Mappings(w, s)
  PROVE  WorldInv(v, live) /\ v.surface[s].res # {}
<1> DEFINE r == w.surface[s]
           opened(q) == [q EXCEPT !.window = TRUE]
<1>1. r \in SlotType /\ GrowsTo(r, r) /\ Configure(r) \in SlotType /\ GrowsTo(r, Configure(r))
  BY SlotFacts, ConfigureFields
<1>2. CASE v = w
  BY <1>2
<1>3. ASSUME r.role = "toplevel", r.pixels, NEW q \in {r, Configure(r)},
             v = [w EXCEPT !.surface[s] = opened(q)]
      PROVE  WorldInv(v, live) /\ v.surface[s].res # {}
  <2>1. q \in SlotType /\ GrowsTo(r, q) /\ q.pixels
    BY <1>1, <1>3 DEF Configure, SlotType
  <2>2. opened(q) \in SlotType /\ GrowsTo(r, opened(q))
    BY <1>3, <2>1 DEF SlotType, GrowsTo
  <2> HIDE DEF opened
  <2> QED
    BY <1>3, <2>2, GrownFits
<1>4. \/ v = w
      \/ /\ r.role = "toplevel" /\ r.pixels
         /\ v \in {[w EXCEPT !.surface[s] = opened(r)], [w EXCEPT !.surface[s] = opened(Configure(r))]}
  BY DEF Mappings
<1> QED
  BY <1>2, <1>3, <1>4

\* The contents of a slot are taken away.
Blank(w, s) == [w EXCEPT !.surface[s] = [w.surface[s] EXCEPT !.pixels = FALSE]]

LEMMA BlankFields ==
  ASSUME NEW w \in WorldType, NEW s \in Slots
  PROVE  /\ Blank(w, s) \in WorldType
         /\ Blank(w, s).seat = w.seat /\ Blank(w, s).told = w.told
         /\ Blank(w, s).surface = [w.surface EXCEPT ![s] = [w.surface[s] EXCEPT !.pixels = FALSE]]
         /\ \A x \in Slots : /\ Blank(w, s).surface[x].role = w.surface[x].role
                             /\ Blank(w, s).surface[x].parent = w.surface[x].parent
                             /\ Blank(w, s).surface[x].res = w.surface[x].res
                             /\ Blank(w, s).surface[x].owner = w.surface[x].owner
                             /\ Blank(w, s).surface[x].window = w.surface[x].window
<1>1. /\ Blank(w, s).seat = w.seat /\ Blank(w, s).told = w.told
      /\ Blank(w, s).surface = [w.surface EXCEPT ![s] = [w.surface[s] EXCEPT !.pixels = FALSE]]
  BY DEF Blank, WorldType
<1>2. w.surface[s] \in SlotType /\ [w.surface[s] EXCEPT !.pixels = FALSE] \in SlotType
  BY DEF WorldType, SlotType
<1>3. Blank(w, s) \in WorldType
  BY <1>2 DEF Blank, WorldType
<1>4. \A x \in Slots \ {s} : Blank(w, s).surface[x] = w.surface[x]
  BY <1>1 DEF WorldType
<1>5. Blank(w, s).surface[s] = [w.surface[s] EXCEPT !.pixels = FALSE]
  BY <1>1 DEF WorldType
<1> HIDE DEF Blank
<1>6. /\ Blank(w, s).surface[s].role = w.surface[s].role
      /\ Blank(w, s).surface[s].parent = w.surface[s].parent
      /\ Blank(w, s).surface[s].res = w.surface[s].res
      /\ Blank(w, s).surface[s].owner = w.surface[s].owner
      /\ Blank(w, s).surface[s].window = w.surface[s].window
  BY <1>2, <1>5 DEF SlotType
<1> QED
  BY <1>1, <1>3, <1>4, <1>6

\* A world with another seat or other beliefs.
LEMMA BlankSeat ==
  ASSUME NEW w \in WorldType, NEW s \in Slots, NEW v \in WorldType, NEW u \in WorldType,
         v.surface = w.surface, u.surface = Blank(w, s).surface, u.seat = v.seat, u.told = v.told
  PROVE  u = Blank(v, s)
<1>1. /\ Blank(v, s) \in WorldType /\ Blank(v, s).seat = v.seat /\ Blank(v, s).told = v.told
      /\ Blank(v, s).surface = [v.surface EXCEPT ![s] = [v.surface[s] EXCEPT !.pixels = FALSE]]
  BY BlankFields
<1>2. u.surface = [w.surface EXCEPT ![s] = [w.surface[s] EXCEPT !.pixels = FALSE]]
  BY BlankFields
<1> DEFINE z == Blank(v, s)
<1>3. /\ z \in WorldType /\ z.surface = u.surface /\ z.seat = u.seat /\ z.told = u.told
  BY <1>1, <1>2
<1> HIDE DEF z
<1>4. /\ z = [surface |-> z.surface, seat |-> z.seat, told |-> z.told]
      /\ u = [surface |-> u.surface, seat |-> u.seat, told |-> u.told]
  BY <1>3 DEF WorldType
<1>5. u = z
  BY <1>3, <1>4
<1> QED
  BY <1>5 DEF z

LEMMA PointerOfBlank ==
  ASSUME NEW w \in WorldType, NEW s \in Slots, NEW gone \in SUBSET Slots
  PROVE  ClearPointer(Blank(w, s), gone) = Blank(ClearPointer(w, gone), s)
<1> DEFINE b == Blank(w, s)
           u == ClearPointer(b, gone)
           v == ClearPointer(w, gone)
           x == [w.seat EXCEPT !.buttons = {}, !.grab = None]
           y == [x EXCEPT !.pointer = None, !.cursor = None]
           z == [w.seat EXCEPT !.cursor = None]
           q == IF {w.seat.pointer, w.seat.grab} \cap gone # {} THEN y
                ELSE IF w.seat.cursor \in gone THEN z ELSE w.seat
<1>1. b \in WorldType /\ b.seat = w.seat /\ b.told = w.told
  BY BlankFields
<1>2. x \in SeatType /\ z \in SeatType /\ w.seat \in SeatType
  BY DEF WorldType, SeatType
<1>3. y \in SeatType
  BY <1>2 DEF SeatType
<1> HIDE DEF b
<1>4. ASSUME NEW a \in WorldType, a.seat = w.seat
      PROVE  /\ ClearPointer(a, gone) \in WorldType
             /\ ClearPointer(a, gone).surface = a.surface
             /\ ClearPointer(a, gone).told = a.told
             /\ ClearPointer(a, gone).seat = q
  <2>1. CancelPointer(a) = [a EXCEPT !.seat = y]
    BY <1>4 DEF CancelPointer, WorldType
  <2>2. [a EXCEPT !.seat.cursor = None] = [a EXCEPT !.seat = z]
    BY <1>4 DEF WorldType
  <2>3. [a EXCEPT !.seat = a.seat] = a
    BY DEF WorldType
  <2>4. q \in SeatType
    BY <1>2, <1>3
  <2>5. ClearPointer(a, gone) = [a EXCEPT !.seat = q]
    <3> HIDE DEF y, z
    <3> QED
      BY <1>4, <2>1, <2>2, <2>3 DEF ClearPointer
  <2> HIDE DEF q
  <2> QED
    BY <2>4, <2>5 DEF WorldType
<1>5. /\ u \in WorldType /\ u.surface = b.surface /\ u.told = w.told /\ u.seat = q
  BY <1>1, <1>4
<1>6. /\ v \in WorldType /\ v.surface = w.surface /\ v.told = w.told /\ v.seat = q
  BY <1>4
<1> HIDE DEF u, v, q
<1>7. u = Blank(v, s)
  BY <1>5, <1>6, BlankSeat DEF b
<1> QED
  BY <1>7 DEF u, v, b

LEMMA KeyboardOfBlank ==
  ASSUME NEW live, NEW w, WorldInv(w, live), NEW s \in Slots
  PROVE  ClearKeyboard(Blank(w, s), s, TRUE) = Blank(ClearKeyboard(w, s, TRUE), s)
<1> DEFINE b == Blank(w, s)
           told2 == [w.told EXCEPT ![w.surface[s].owner] = None]
           q == [w.seat EXCEPT !.keyboard = None]
<1>1. /\ b \in WorldType /\ b.seat = w.seat /\ b.told = w.told
      /\ b.surface[s].res = w.surface[s].res /\ b.surface[s].owner = w.surface[s].owner
  BY BlankFields DEF WorldInv
<1> HIDE DEF b
<1>2. w \in WorldType /\ w.seat \in SeatType /\ w.told \in [Clients -> Slots \cup {None}]
  BY DEF WorldInv, WorldType
<1>3. CASE w.seat.keyboard # s
  BY <1>1, <1>3 DEF ClearKeyboard, b
<1>4. CASE w.seat.keyboard = s
  <2>1. "surface" \in w.surface[s].res /\ s # None
    BY <1>4, SurfacesAssumption DEF WorldInv, SeatFits, MayHaveKeyboard
  <2>2. told2 \in [Clients -> Slots \cup {None}] /\ q \in SeatType
    BY <1>2 DEF SeatType
  <2>3. ASSUME NEW a \in WorldType, a.seat = w.seat, a.told = w.told,
               a.surface[s].res = w.surface[s].res, a.surface[s].owner = w.surface[s].owner
        PROVE  /\ ClearKeyboard(a, s, TRUE) \in WorldType
               /\ ClearKeyboard(a, s, TRUE).surface = a.surface
               /\ ClearKeyboard(a, s, TRUE).seat = q /\ ClearKeyboard(a, s, TRUE).told = told2
    <3>1. ClearKeyboard(a, s, TRUE) = [a EXCEPT !.seat.keyboard = None, !.told = told2]
      BY <1>4, <2>1, <2>3 DEF ClearKeyboard, ChangeKeyboardFocus
    <3>2. ClearKeyboard(a, s, TRUE) = [a EXCEPT !.seat = q, !.told = told2]
      BY <2>3, <3>1 DEF WorldType
    <3> HIDE DEF q, told2
    <3> QED
      BY <2>2, <3>2 DEF WorldType
  <2> DEFINE u == ClearKeyboard(b, s, TRUE)
             v == ClearKeyboard(w, s, TRUE)
  <2>4. u \in WorldType /\ u.surface = b.surface /\ u.seat = q /\ u.told = told2
    BY <1>1, <2>3
  <2>5. v \in WorldType /\ v.surface = w.surface /\ v.seat = q /\ v.told = told2
    BY <1>2, <2>3
  <2> HIDE DEF u, v, q, told2
  <2>6. u = Blank(v, s)
    BY <1>2, <2>4, <2>5, BlankSeat DEF b
  <2> QED
    BY <2>6 DEF u, v, b
<1> QED
  BY <1>3, <1>4

LEMMA OverlaysOfBlank ==
  ASSUME NEW live, NEW w, WorldInv(w, live), NEW s \in Slots
  PROVE  DismissOverlays(Blank(w, s), {s}) = Blank(DismissOverlays(w, {s}), s)
<1> DEFINE b == Blank(w, s)
           B == Below(w.surface, {s})
           p == ClearPointer(w, B)
           q == ClearPointer(b, B)
           dismiss(sl) == [x \in Slots |-> IF x \in B THEN Dismissed(sl[x]) ELSE sl[x]]
           v == DismissOverlays(w, {s})
           u == DismissOverlays(b, {s})
<1>1. w \in WorldType /\ w.surface \in [Slots -> SlotType]
  BY DEF WorldInv, WorldType
<1>2. /\ b \in WorldType /\ b.surface \in [Slots -> SlotType]
      /\ b.surface = [w.surface EXCEPT ![s] = [w.surface[s] EXCEPT !.pixels = FALSE]]
      /\ \A x \in Slots : b.surface[x].role = w.surface[x].role
                          /\ b.surface[x].parent = w.surface[x].parent
  <2>1. /\ b \in WorldType
        /\ b.surface = [w.surface EXCEPT ![s] = [w.surface[s] EXCEPT !.pixels = FALSE]]
    BY <1>1, BlankFields
  <2>2. \A x \in Slots : b.surface[x].role = w.surface[x].role
                         /\ b.surface[x].parent = w.surface[x].parent
    BY <1>1, BlankFields
  <2> HIDE DEF b
  <2> QED
    BY <2>1, <2>2 DEF WorldType
<1> HIDE DEF b
<1>3. Below(b.surface, {s}) = B
  BY <1>1, <1>2, SameTree
<1>4. B \in SUBSET (Slots \ {s})
  BY BelowIsClosed
<1> HIDE DEF B
<1>5. q = Blank(p, s)
  BY <1>1, <1>4, PointerOfBlank DEF b
<1>6. WorldInv(p, live) /\ p.surface = w.surface /\ p \in WorldType
  <2>1. WorldInv(p, live) /\ p.surface = w.surface
    BY <1>4, ClearedPointer
  <2> QED
    BY <2>1 DEF WorldInv
<1> HIDE DEF p, q
<1>7. /\ q \in WorldType /\ q.surface = b.surface /\ q.seat = p.seat /\ q.told = p.told
  <2>1. b.surface = [p.surface EXCEPT ![s] = [p.surface[s] EXCEPT !.pixels = FALSE]]
    BY <1>2, <1>6
  <2> QED
    BY <1>5, <1>6, <2>1, BlankFields
<1>8. v = [p EXCEPT !.surface = dismiss(w.surface)] /\ u = [q EXCEPT !.surface = dismiss(b.surface)]
  <2>1. v = [p EXCEPT !.surface = dismiss(p.surface)]
    BY DEF DismissOverlays, B, p
  <2>2. u = [q EXCEPT !.surface = dismiss(q.surface)]
    BY <1>3 DEF DismissOverlays, q
  <2> QED
    BY <1>6, <1>7, <2>1, <2>2
<1>9. /\ v.surface = dismiss(w.surface) /\ v.seat = p.seat /\ v.told = p.told
      /\ u.surface = dismiss(b.surface) /\ u.seat = q.seat /\ u.told = q.told
  BY <1>6, <1>7, <1>8 DEF WorldType
<1>10. dismiss(b.surface) =
         [dismiss(w.surface) EXCEPT ![s] = [dismiss(w.surface)[s] EXCEPT !.pixels = FALSE]]
  <2>1. dismiss(w.surface)[s] = w.surface[s]
    BY <1>4
  <2>2. \A x \in Slots : dismiss(b.surface)[x] =
                           IF x = s THEN [w.surface[s] EXCEPT !.pixels = FALSE]
                           ELSE dismiss(w.surface)[x]
    BY <1>1, <1>2, <1>4
  <2> QED
    BY <2>1, <2>2
<1> HIDE DEF dismiss
<1>11. WorldInv(v, live)
  BY OverlaysDismissed
<1>12. v \in WorldType
  BY <1>11 DEF WorldInv
<1> HIDE DEF v
<1>13. /\ Blank(v, s) \in WorldType /\ Blank(v, s).seat = v.seat /\ Blank(v, s).told = v.told
       /\ Blank(v, s).surface = u.surface
  <2>1. /\ Blank(v, s) \in WorldType /\ Blank(v, s).seat = v.seat /\ Blank(v, s).told = v.told
        /\ Blank(v, s).surface = [v.surface EXCEPT ![s] = [v.surface[s] EXCEPT !.pixels = FALSE]]
    BY <1>12, BlankFields
  <2> QED
    BY <1>9, <1>10, <2>1
<1>14. u = [surface |-> u.surface, seat |-> u.seat, told |-> u.told]
  BY <1>7, <1>8, <1>9 DEF WorldType
<1>15. Blank(v, s) = [surface |-> Blank(v, s).surface, seat |-> Blank(v, s).seat,
                      told |-> Blank(v, s).told]
  BY <1>13 DEF WorldType
<1>16. u = Blank(v, s)
  BY <1>7, <1>9, <1>13, <1>14, <1>15
<1> QED
  BY <1>16 DEF u, v, b

\* It does not matter whether a surface loses its contents before it is
\* unmapped or after.
LEMMA UnmapOfBlank ==
  ASSUME NEW live, NEW w, WorldInv(w, live), NEW s \in Slots
  PROVE  Unmap(Blank(w, s), s, TRUE) = Blank(Unmap(w, s, TRUE), s)
<1> DEFINE alone == DismissOverlays(w, {s})
           away == ClearKeyboard(alone, s, TRUE)
           off == ClearPointer(away, {s})
           hidden(a) == [a EXCEPT !.surface[s].window = FALSE]
<1>1. DismissOverlays(Blank(w, s), {s}) = Blank(alone, s)
  BY OverlaysOfBlank
<1>2. WorldInv(alone, live)
  BY OverlaysDismissed
<1> HIDE DEF alone
<1>3. alone \in WorldType /\ Blank(alone, s).surface[s].window = alone.surface[s].window
  BY <1>2, BlankFields DEF WorldInv
<1>4. CASE ~alone.surface[s].window
  BY <1>1, <1>3, <1>4 DEF Unmap, alone
<1>5. CASE alone.surface[s].window
  <2>1. Unmap(Blank(w, s), s, TRUE) =
          hidden(ClearPointer(ClearKeyboard(Blank(alone, s), s, TRUE), {s}))
    BY <1>1, <1>3, <1>5 DEF Unmap
  <2>2. Unmap(w, s, TRUE) = hidden(off)
    BY <1>5 DEF Unmap, alone
  <2>3. ClearKeyboard(Blank(alone, s), s, TRUE) = Blank(away, s)
    BY <1>2, KeyboardOfBlank
  <2>4. WorldInv(away, live)
    <3>1. PICK send \in BOOLEAN : send = TRUE
      OBVIOUS
    <3>2. away = ClearKeyboard(alone, s, send)
          /\ (send \/ alone.seat.keyboard # s \/ alone.surface[s].owner \notin live)
      BY <3>1
    <3> HIDE DEF away
    <3> QED
      BY <1>2, <3>2, ClearedKeyboard
  <2> HIDE DEF away
  <2>5. {s} \in SUBSET Slots /\ away \in WorldType
    BY <2>4 DEF WorldInv
  <2>6. ClearPointer(Blank(away, s), {s}) = Blank(off, s)
    BY <2>5, PointerOfBlank
  <2>7. off \in WorldType
    BY <2>4, <2>5, ClearedPointer DEF WorldInv
  <2> HIDE DEF off
  <2>8. hidden(Blank(off, s)) = Blank(hidden(off), s)
    BY <2>7 DEF Blank, WorldType, SlotType
  <2> HIDE DEF hidden
  <2> QED
    BY <2>1, <2>2, <2>3, <2>6, <2>8
<1> QED
  BY <1>4, <1>5

LEMMA CommitsAttachFit ==
  ASSUME NEW live, WorldInv(World, live), NEW s \in Slots, "surface" \in surface[s].res,
         NEW attach, NEW v \in CommitsAttach(s, attach)
  PROVE  WorldInv(v, live) /\ v.surface[s].res # {}
<1> DEFINE r == surface[s]
<1>1. /\ r \in SlotType /\ GrowsTo(r, r) /\ SlotFits(surface, s) /\ World \in WorldType
  BY SlotFacts, WorldFields
<1>2. CASE attach # "null"
  <2> DEFINE q == [r EXCEPT !.pixels = TRUE]
             w == Set(s, q)
  <2>1. q \in SlotType /\ q.res = r.res /\ GrowsTo(r, q)
    BY <1>1 DEF SlotType, GrowsTo
  <2>2. w = [World EXCEPT !.surface[s] = q]
    BY DEF Set
  <2>3. v \in Mappings(w, s)
    BY <1>2 DEF CommitsAttach
  <2> HIDE DEF q, w
  <2>4. WorldInv(w, live) /\ w.surface[s] = q
    <3>1. GrowsTo(World.surface[s], q)
      BY <2>1, WorldFields
    <3>2. q \in SlotType
      BY <2>1
    <3>3. WorldInv(w, live)
      BY <2>2, <3>1, <3>2, SlotGrows
    <3> QED
      BY <2>2, <3>2, <3>3, <1>1 DEF WorldType
  <2> QED
    BY <2>1, <2>3, <2>4, MappingsFit
<1>3. CASE attach = "null"
  <2> DEFINE below == IF IsMapped(surface, s) THEN DismissOverlays(World, {s}) ELSE World
             empty == [below EXCEPT !.surface[s].pixels = FALSE]
             unmapped == IF r.role = "toplevel" THEN Unmap(empty, s, TRUE) ELSE empty
             gone == IF r.role = "toplevel" THEN Unmap(below, s, TRUE) ELSE below
             n == NotConfigured(unmapped.surface[s])
  <2>1. v = [unmapped EXCEPT !.surface[s] = n]
    BY <1>3 DEF CommitsAttach
  <2>2. WorldInv(below, live) /\ below.surface[s] = r
    BY OverlaysDismissed, WorldFields
  <2> HIDE DEF below
  <2>3. below \in WorldType
    BY <2>2 DEF WorldInv
  <2>4. empty = Blank(below, s)
    BY <2>3 DEF Blank, WorldType
  <2> HIDE DEF empty
  <2>5. unmapped = Blank(gone, s)
    BY <2>2, <2>4, UnmapOfBlank
  <2>6. WorldInv(gone, live) /\ gone.surface[s] = [r EXCEPT !.window = FALSE]
    <3>1. CASE r.role = "toplevel"
      <4>1. PICK send \in BOOLEAN : send = TRUE
        OBVIOUS
      <4>2. gone = Unmap(below, s, send)
            /\ (send \/ below.seat.keyboard # s \/ below.surface[s].owner \notin live)
        BY <3>1, <4>1
      <4> HIDE DEF gone
      <4> QED
        BY <2>2, <4>2, Unmapped
    <3>2. CASE r.role # "toplevel"
      <4>1. gone = below /\ ~r.window
        BY <1>1, <3>2 DEF SlotFits
      <4>2. r = [r EXCEPT !.window = FALSE]
        BY <1>1, <4>1 DEF SlotType
      <4> QED
        BY <2>2, <4>1, <4>2
    <3> QED
      BY <3>1, <3>2
  <2> HIDE DEF unmapped, gone
  <2>7. /\ gone.surface[s] \in SlotType /\ ~gone.surface[s].window
        /\ gone.surface[s].res = r.res /\ GrowsTo(gone.surface[s], gone.surface[s])
    <3>1. gone.surface[s] \in SlotType /\ gone.surface[s].res = r.res /\ ~gone.surface[s].window
      BY <1>1, <2>6 DEF SlotType
    <3> QED
      BY <2>6, <3>1, SlotFacts
  <2> DEFINE q == [gone.surface[s] EXCEPT !.pixels = FALSE]
  <2>8. q \in SlotType /\ GrowsTo(gone.surface[s], q)
    BY <2>7 DEF SlotType, GrowsTo
  <2>9. unmapped = [gone EXCEPT !.surface[s] = q]
    BY <2>5 DEF Blank
  <2> HIDE DEF q
  <2>10. WorldInv(unmapped, live) /\ unmapped.surface[s] = q /\ unmapped.surface[s].res # {}
    <3>1. WorldInv(unmapped, live)
      BY <2>6, <2>8, <2>9, SlotGrows
    <3>2. gone \in WorldType
      BY <2>6 DEF WorldInv
    <3>3. unmapped.surface[s] = q
      BY <2>8, <2>9, <3>2 DEF WorldType
    <3>4. q.res # {}
      BY <2>8 DEF GrowsTo
    <3> QED
      BY <3>1, <3>3, <3>4
  <2>11. GrowsTo(unmapped.surface[s], unmapped.surface[s])
    BY <2>10, SlotFacts
  <2>12. n \in SlotType /\ GrowsTo(unmapped.surface[s], n)
    <3>1. /\ n \in SlotType
          /\ n.owner = q.owner /\ n.res = q.res /\ n.role = q.role /\ n.parent = q.parent
          /\ n.dismissed = q.dismissed /\ n.grabbed = q.grabbed /\ n.pixels = q.pixels
          /\ n.window = q.window
      BY <2>8, <2>10, NotConfiguredFields
    <3> QED
      BY <2>10, <2>11, <3>1 DEF GrowsTo
  <2> HIDE DEF n
  <2> QED
    BY <2>1, <2>10, <2>12, GrownFits
<1> QED
  BY <1>2, <1>3

LEMMA CommitFits ==
  ASSUME SurfaceInv, NEW c \in Clients, NEW s \in Slots, NEW attach, NEW frames \in Nat,
         Commit(c, s, attach, frames)
  PROVE  SurfaceInv'
<1> DEFINE r == surface[s]
           left ==
             IF ParentIsLost(s) THEN {Set(s, [r EXCEPT !.dismissed = TRUE])}
             ELSE IF HasXdgRole(surface, s) /\ ~r.sent THEN {Set(s, Configure(r))}
             ELSE IF attach # "none" THEN CommitsAttach(s, attach)
             ELSE IF r.pixels /\ "toplevel" \in r.res THEN Mappings(World, s)
             ELSE {World}
           once == r.role \in {"none", "subsurface"}
           done(w) == [w EXCEPT !.surface[s].committed = once, !.surface[s].frames = @ + frames]
<1>0. /\ handled' \in BOOLEAN /\ WorldInv(World, Live) /\ "surface" \in r.res
      /\ r \in SlotType /\ GrowsTo(r, r)
  BY SlotFacts, WorldFields DEF SurfaceInv, Commit, Asks
<1>1. CASE Refuse(c) /\ Stays
  BY <1>0, <1>1, Refused
<1>2. ASSUME NEW w \in left, Accept(done(w)) PROVE SurfaceInv'
  <2>1. WorldInv(w, Live) /\ w.surface[s].res # {}
    <3>1. CASE ParentIsLost(s)
      <4> DEFINE q == [r EXCEPT !.dismissed = TRUE]
      <4>1. q \in SlotType /\ GrowsTo(r, q)
        BY <1>0 DEF SlotType, GrowsTo
      <4>2. w = [World EXCEPT !.surface[s] = q]
        BY <3>1 DEF Set
      <4> HIDE DEF q
      <4> QED
        BY <1>0, <4>1, <4>2, GrownFits, WorldFields
    <3>2. CASE w = Set(s, Configure(r))
      <4>1. Configure(r) \in SlotType /\ GrowsTo(r, Configure(r))
        BY <1>0, ConfigureFields
      <4> QED
        BY <1>0, <3>2, <4>1, GrownFits, WorldFields DEF Set
    <3>3. CASE w \in CommitsAttach(s, attach)
      BY <1>0, <3>3, CommitsAttachFit
    <3>4. CASE w \in Mappings(World, s)
      BY <1>0, <3>4, MappingsFit, WorldFields
    <3>5. CASE w = World
      BY <1>0, <3>5, WorldFields
    <3> QED
      BY <3>1, <3>2, <3>3, <3>4, <3>5
  <2> DEFINE q == [w.surface[s] EXCEPT !.committed = once, !.frames = w.surface[s].frames + frames]
  <2>2. w.surface[s] \in SlotType /\ GrowsTo(w.surface[s], w.surface[s]) /\ w \in WorldType
    BY <2>1, SlotFacts
  <2>3. q \in SlotType /\ GrowsTo(w.surface[s], q)
    <3>1. once \in BOOLEAN
      OBVIOUS
    <3> HIDE DEF once, left, done
    <3>2. q \in SlotType
      <4> DEFINE m == w.surface[s].frames + frames
      <4>1. w.surface[s].frames \in Nat
        BY <2>2 DEF SlotType
      <4>2. m \in Nat
        BY <4>1
      <4>3. q = [w.surface[s] EXCEPT !.committed = once, !.frames = m]
        OBVIOUS
      <4> HIDE DEF m, q
      <4> QED
        BY <2>2, <3>1, <4>2, <4>3 DEF SlotType
    <3>3. /\ q.owner = w.surface[s].owner /\ q.res = w.surface[s].res
          /\ q.role = w.surface[s].role /\ q.parent = w.surface[s].parent
          /\ q.grabbed = w.surface[s].grabbed /\ q.dismissed = w.surface[s].dismissed
          /\ q.window = w.surface[s].window /\ q.pixels = w.surface[s].pixels
      BY <2>2 DEF SlotType
    <3> HIDE DEF q
    <3> QED
      BY <2>2, <3>2, <3>3 DEF GrowsTo
  <2>4. done(w) = [w EXCEPT !.surface[s] = q]
    BY <2>2 DEF WorldType, SlotType
  <2> HIDE DEF q, done
  <2>5. WorldInv(done(w), Live)
    BY <2>1, <2>3, <2>4, SlotGrows
  <2> QED
    BY <1>0, <1>2, <2>5, Accepted DEF Accept
<1>3. \/ Refuse(c) /\ Stays
      \/ \E w \in left : Accept(done(w))
  BY Zenon DEF Commit
<1> QED
  BY <1>1, <1>2, <1>3

LEMMA DestroyRequestFits ==
  ASSUME SurfaceInv, NEW c \in Clients, NEW s \in Slots, NEW kind \in Kinds,
         DestroyRequest(c, s, kind)
  PROVE  SurfaceInv'
<1> DEFINE before == IF kind \in {"surface", "toplevel"} THEN Unmap(World, s, TRUE) ELSE World
<1>0. handled' \in BOOLEAN /\ WorldInv(World, Live) /\ kind \in surface[s].res
      /\ surface[s] \in SlotType
  BY SlotFacts, WorldFields DEF SurfaceInv, DestroyRequest, Asks
<1>1. CASE Refuse(c) /\ Stays
  BY <1>0, <1>1, Refused
<1>2. CASE Accept(Destroyed(before, s, kind))
  <2>1. CASE kind \in {"surface", "toplevel"}
    <3>1. PICK send \in BOOLEAN : send = TRUE
      OBVIOUS
    <3>2. before = Unmap(World, s, send)
          /\ (send \/ World.seat.keyboard # s \/ World.surface[s].owner \notin Live)
      BY <2>1, <3>1
    <3> HIDE DEF before
    <3>3. /\ WorldInv(before, Live) /\ before.seat.keyboard # s
          /\ before.surface[s] = [surface[s] EXCEPT !.window = FALSE]
      BY <1>0, <3>2, Unmapped, WorldFields
    <3>4. kind \in before.surface[s].res
      BY <1>0, <3>3 DEF SlotType
    <3>5. WorldInv(Destroyed(before, s, kind), Live)
      BY <3>3, <3>4, DestroyedFits
    <3> QED
      BY <1>0, <1>2, <3>5, Accepted DEF Accept
  <2>2. CASE kind \notin {"surface", "toplevel"}
    <3>1. before = World
      BY <2>2
    <3> HIDE DEF before
    <3>2. WorldInv(Destroyed(before, s, kind), Live)
      BY <1>0, <2>2, <3>1, DestroyedFits, WorldFields
    <3> QED
      BY <1>0, <1>2, <3>2, Accepted DEF Accept
  <2> QED
    BY <2>1, <2>2
<1> QED
  BY <1>1, <1>2 DEF DestroyRequest

LEMMA DestroyOfDeadFits ==
  ASSUME SurfaceInv, NEW c \in Clients, NEW s \in Slots, NEW kind \in Kinds,
         DestroyOfDead(c, s, kind)
  PROVE  SurfaceInv'
<1>1. /\ handled' \in BOOLEAN /\ WorldInv(World, Live) /\ kind \in surface[s].res
      /\ surface[s].owner \notin Live /\ Accept(Destroyed(World, s, kind))
  BY DEF SurfaceInv, DestroyOfDead, Live
<1>2. WorldInv(Destroyed(World, s, kind), Live)
  BY <1>1, DestroyedFits, WorldFields
<1> QED
  BY <1>1, <1>2, Accepted DEF Accept

LEMMA DisconnectedFits ==
  ASSUME SurfaceInv, NEW c \in Clients, Disconnected(c)
  PROVE  SurfaceInv'
<1>1. /\ client \in [Clients -> {"live", "dying"}] /\ handled \in BOOLEAN /\ WorldInv(World, Live)
      /\ \A s \in Slots : surface[s].owner # c
  BY DEF SurfaceInv, Disconnected
<1>2. /\ client' \in [Clients -> {"live", "dying"}] /\ handled' = handled /\ World' = World
      /\ Live' = Live \cup {c}
  BY <1>1 DEF Disconnected, Live, World
<1>3. World \in WorldType /\ SeatFits(World) /\ ToldFits(World, Live)
  BY <1>1 DEF WorldInv
<1>4. told[c] = None /\ (seat.keyboard # None => surface[seat.keyboard].owner # c)
  BY <1>1, <1>3, WorldFields DEF ToldFits, SeatFits, WorldType
<1>5. ToldFits(World, Live \cup {c})
  BY <1>3, <1>4, WorldFields DEF ToldFits
<1>6. WorldInv(World, Live \cup {c})
  BY <1>1, <1>5 DEF WorldInv
<1> QED
  BY <1>1, <1>2, <1>6 DEF SurfaceInv

-----------------------------------------------------------------------------
(***************************************************************************)
(* The host's events.                                                      *)
(***************************************************************************)
LEMMA HandledFits ==
  ASSUME SurfaceInv, NEW w, WorldInv(w, Live), NEW ok \in BOOLEAN, Handle(w, ok)
  PROVE  SurfaceInv'
BY Accepted DEF Handle

LEMMA HoveredType ==
  ASSUME NEW hover \in Hovered
  PROVE  hover \in Slots \cup {None}
BY MappedIsShown DEF Hovered, Windows, IsMapped

\* Buttons and grab change together, and the grab is of the surface under the
\* pointer.
LEMMA GrabbedSeat ==
  ASSUME NEW live, NEW w, WorldInv(w, live), NEW g \in {w.seat.pointer, w.seat.grab, None},
         NEW b \in SUBSET Buttons, (g # None) = (b # {}), NEW v,
         v = [w EXCEPT !.seat.grab = g, !.seat.buttons = b]
  PROVE  WorldInv(v, live)
<1>1. w \in WorldType /\ SeatFits(w) /\ w.seat \in SeatType
  BY DEF WorldInv, WorldType
<1> DEFINE q == [w.seat EXCEPT !.grab = g, !.buttons = b]
<1>2. /\ q \in SeatType
      /\ q.keyboard = w.seat.keyboard /\ q.pointer = w.seat.pointer
      /\ q.cursor = w.seat.cursor /\ q.grab = g /\ q.buttons = b
  BY <1>1 DEF SeatType
<1>3. v = [w EXCEPT !.seat = q]
  BY <1>1 DEF WorldType
<1> HIDE DEF q
<1>4. v \in WorldType /\ v.surface = w.surface /\ v.told = w.told /\ v.seat = q
  BY <1>1, <1>2, <1>3 DEF WorldType
<1>5. {v.seat.pointer, v.seat.grab, v.seat.cursor} \ {None} \subseteq
         {s \in Slots : "surface" \in w.surface[s].res}
  BY <1>1, <1>2, <1>4 DEF SeatFits
<1> QED
  BY <1>2, <1>4, <1>5, MovedPointer

LEMMA PointerMotionFits ==
  ASSUME SurfaceInv, NEW hover \in Hovered, PointerMotion(hover)
  PROVE  SurfaceInv'
<1> DEFINE target == IF seat.grab # None THEN seat.grab ELSE hover
<1>1. WorldInv(World, Live) /\ World \in WorldType /\ target \in Slots \cup {None}
  BY HoveredType, WorldFields DEF SurfaceInv, WorldInv, WorldType, SeatType
<1>2. \/ Handle(ChangePointerFocus(World, None), FALSE)
      \/ Handle(ChangePointerFocus(World, target), TRUE)
  BY DEF PointerMotion
<1> HIDE DEF target
<1>3. WorldInv(ChangePointerFocus(World, None), Live)
      /\ WorldInv(ChangePointerFocus(World, target), Live)
  BY <1>1, PointerFocusFits
<1> QED
  BY <1>2, <1>3, HandledFits

LEMMA PointerPressFits ==
  ASSUME SurfaceInv, NEW b \in Buttons, NEW hover \in Hovered, PointerPress(b, hover)
  PROVE  SurfaceInv'
<1> DEFINE first == seat.buttons = {}
           w == IF first THEN ChangePointerFocus(World, hover) ELSE World
           target == IF first THEN w.seat.pointer ELSE seat.grab
           v == [w EXCEPT !.seat.grab = target, !.seat.buttons = @ \cup {b}]
<1>1. WorldInv(World, Live) /\ hover \in Slots \cup {None}
  BY HoveredType DEF SurfaceInv
<1>2. WorldInv(w, Live)
  BY <1>1, PointerFocusFits
<1>3. \/ target = None /\ Handle(w, TRUE)
      \/ target # None /\ Handle(v, TRUE)
  BY DEF PointerPress
<1>4. CASE target # None /\ Handle(v, TRUE)
  <2>1. target \in {w.seat.pointer, w.seat.grab, None}
    BY WorldFields
  <2> HIDE DEF w, target
  <2>2. w \in WorldType /\ w.seat.buttons \in SUBSET Buttons
    BY <1>2 DEF WorldInv, WorldType, SeatType
  <2> DEFINE held == w.seat.buttons \cup {b}
  <2>3. v = [w EXCEPT !.seat.grab = target, !.seat.buttons = held]
    BY <2>2 DEF WorldType, SeatType
  <2>4. held \in SUBSET Buttons /\ (target # None) = (held # {})
    BY <1>4, <2>2
  <2> HIDE DEF v, held
  <2>5. WorldInv(v, Live)
    BY <1>2, <2>1, <2>3, <2>4, GrabbedSeat
  <2> QED
    BY <1>4, <2>5, HandledFits
<1> QED
  BY <1>2, <1>3, <1>4, HandledFits

LEMMA PointerReleaseFits ==
  ASSUME SurfaceInv, NEW b \in Buttons, NEW hover \in Hovered, PointerRelease(b, hover)
  PROVE  SurfaceInv'
<1> DEFINE held == seat.buttons \ {b}
           w == [World EXCEPT !.seat.buttons = held]
           v == [w EXCEPT !.seat.grab = None]
<1>1. WorldInv(World, Live) /\ hover \in Slots \cup {None} /\ World \in WorldType
      /\ seat \in SeatType /\ SeatFits(World) /\ held \in SUBSET Buttons
  BY HoveredType, WorldFields DEF SurfaceInv, WorldInv, WorldType, SeatType
<1>2. w.seat.buttons = held
  BY <1>1, WorldFields DEF SeatType
<1>3. \/ held = {} /\ Handle(ChangePointerFocus(v, hover), TRUE)
      \/ held # {} /\ Handle(w, TRUE)
  <2>1. [World EXCEPT !.seat.buttons = @ \ {b}] = w
    BY WorldFields DEF World
  <2> HIDE DEF w, held
  <2> QED
    BY <1>2, <2>1 DEF PointerRelease
<1>4. CASE held = {}
  <2>1. v = [World EXCEPT !.seat.grab = None, !.seat.buttons = held]
    BY <1>1, WorldFields DEF WorldType, SeatType
  <2> HIDE DEF v, held
  <2>2. WorldInv(v, Live)
    BY <1>1, <1>4, <2>1, GrabbedSeat
  <2>3. WorldInv(ChangePointerFocus(v, hover), Live)
    BY <1>1, <2>2, PointerFocusFits
  <2> QED
    BY <1>3, <1>4, <2>3, HandledFits
<1>5. CASE held # {}
  <2>1. w = [World EXCEPT !.seat.grab = seat.grab, !.seat.buttons = held]
    BY <1>1, WorldFields DEF WorldType, SeatType
  <2>2. seat.grab # None
    BY <1>1, <1>5, WorldFields DEF SeatFits
  <2> HIDE DEF w, held
  <2>3. WorldInv(w, Live)
    BY <1>1, <1>5, <2>1, <2>2, GrabbedSeat, WorldFields
  <2> QED
    BY <1>3, <1>5, <2>3, HandledFits
<1> QED
  BY <1>4, <1>5

LEMMA PointerCancelFits ==
  ASSUME SurfaceInv, PointerCancel
  PROVE  SurfaceInv'
<1> DEFINE v == CancelPointer(World)
<1>1. WorldInv(World, Live) /\ World \in WorldType
  BY DEF SurfaceInv, WorldInv
<1>2. CancelledSeat(World, v)
  BY <1>1, PointerCancelled
<1> HIDE DEF v
<1>3. WorldInv(v, Live)
  BY <1>1, <1>2, MovedPointer DEF CancelledSeat
<1> QED
  BY <1>3, HandledFits DEF PointerCancel, v

LEMMA KeyboardFits ==
  ASSUME SurfaceInv, NEW s \in Slots \cup {None}, Handle(ChangeKeyboardFocus(World, s), TRUE)
  PROVE  SurfaceInv'
<1>1. WorldInv(ChangeKeyboardFocus(World, s), Live)
  BY ChangedKeyboardFocus DEF SurfaceInv
<1> QED
  BY <1>1, HandledFits

LEMMA WindowResizedFits ==
  ASSUME SurfaceInv, NEW s \in Slots, WindowResized(s)
  PROVE  SurfaceInv'
<1>1. WorldInv(World, Live) /\ World \in WorldType
  BY DEF SurfaceInv, WorldInv
<1>2. CASE Handle(World, FALSE)
  BY <1>1, <1>2, HandledFits
<1>3. CASE "toplevel" \in surface[s].res /\ Handle(Set(s, Configure(surface[s])), TRUE)
  <2>1. surface[s] \in SlotType /\ GrowsTo(surface[s], surface[s])
    BY <1>1, <1>3, SlotFacts, WorldFields
  <2>2. Configure(surface[s]) \in SlotType /\ GrowsTo(surface[s], Configure(surface[s]))
    BY <2>1, ConfigureFields
  <2>3. WorldInv(Set(s, Configure(surface[s])), Live)
    BY <1>1, <2>2, SlotGrows, WorldFields DEF Set
  <2> QED
    BY <1>3, <2>3, HandledFits
<1> QED
  BY <1>2, <1>3 DEF WindowResized

LEMMA RequestCloseFits ==
  ASSUME SurfaceInv, NEW s \in Slots, RequestClose(s)
  PROVE  SurfaceInv'
<1>1. WorldInv(World, Live)
  BY DEF SurfaceInv
<1>2. Handle(World, "toplevel" \in surface[s].res)
  BY DEF RequestClose
<1>3. ("toplevel" \in surface[s].res) \in BOOLEAN
  OBVIOUS
<1> QED
  BY <1>1, <1>2, <1>3, HandledFits

LEMMA FramePresentedFits ==
  ASSUME SurfaceInv, NEW hidden \in SUBSET Windows, FramePresented(hidden)
  PROVE  SurfaceInv'
<1> DEFINE shown(x) == IF RootToplevel(surface, x) \in hidden THEN surface[x]
                       ELSE [surface[x] EXCEPT !.frames = 0]
           tl == [x \in Slots |-> shown(x)]
           v == [World EXCEPT !.surface = tl]
<1>1. /\ WorldInv(World, Live) /\ World \in WorldType /\ TreeInv(surface)
      /\ surface \in [Slots -> SlotType] /\ SeatFits(World) /\ ToldFits(World, Live)
  BY WorldFields DEF SurfaceInv, WorldInv, WorldType
<1>2. Handle(v, TRUE)
  BY WorldFields DEF FramePresented
<1>3. ASSUME NEW x \in Slots
      PROVE  /\ shown(x) \in SlotType
             /\ shown(x).owner = surface[x].owner /\ shown(x).res = surface[x].res
             /\ shown(x).role = surface[x].role /\ shown(x).parent = surface[x].parent
             /\ shown(x).grabbed = surface[x].grabbed
             /\ shown(x).dismissed = surface[x].dismissed
             /\ shown(x).window = surface[x].window /\ shown(x).pixels = surface[x].pixels
             /\ surface[x] = Free => shown(x) = Free
  <2> DEFINE q == [surface[x] EXCEPT !.frames = 0]
  <2>1. surface[x] \in SlotType
    BY <1>1
  <2>2. /\ q \in SlotType
        /\ q.owner = surface[x].owner /\ q.res = surface[x].res
        /\ q.role = surface[x].role /\ q.parent = surface[x].parent
        /\ q.grabbed = surface[x].grabbed /\ q.dismissed = surface[x].dismissed
        /\ q.window = surface[x].window /\ q.pixels = surface[x].pixels
    BY <2>1 DEF SlotType
  <2>3. surface[x] = Free => q = Free
    <3>1. surface[x].frames = 0 => q = surface[x]
      BY <2>1 DEF SlotType
    <3>2. Free.frames = 0
      BY DEF Free
    <3> HIDE DEF q
    <3> QED
      BY <3>1, <3>2
  <2>4. shown(x) \in {surface[x], q}
    OBVIOUS
  <2> HIDE DEF shown, q
  <2> QED
    BY <2>1, <2>2, <2>3, <2>4
<1>4. tl \in [Slots -> SlotType] /\ \A x \in Slots : tl[x] = shown(x)
  <2> HIDE DEF shown
  <2> QED
    BY <1>3
<1> HIDE DEF shown, tl
<1>5. v \in WorldType /\ v.surface = tl /\ v.seat = seat /\ v.told = told
  BY <1>1, <1>4, WorldFields DEF WorldType
<1> HIDE DEF v
<1>6. ASSUME NEW x \in Slots PROVE SlotFits(tl, x) /\ Hangs(tl, x)
  <2>1. SlotFits(surface, x) /\ Hangs(surface, x) /\ tl[x] = shown(x)
    BY <1>1, <1>4 DEF TreeInv
  <2>2. SlotFits(tl, x)
    BY <1>3, <2>1 DEF SlotFits, MayHaveKeyboard, Free
  <2>3. tl[x].parent # None => tl[x].parent \in Slots
    BY <1>4 DEF SlotType
  <2>4. tl[x].parent # None => /\ tl[tl[x].parent].res = surface[tl[x].parent].res
                               /\ tl[tl[x].parent].parent = surface[tl[x].parent].parent
    BY <1>3, <1>4, <2>3
  <2>5. Hangs(tl, x)
    BY <1>3, <2>1, <2>4 DEF Hangs, HasOverlayRole
  <2> QED
    BY <2>2, <2>5
<1>7. \A x \in Slots : tl[x].role = surface[x].role /\ tl[x].parent = surface[x].parent
  BY <1>3, <1>4
<1>8. Acyclic(tl)
  <2>1. \A x \in Slots : tl[x].parent \in {surface[x].parent, None}
    BY <1>7
  <2> QED
    BY <1>1, <2>1, AcyclicStays DEF TreeInv
<1>9. Nested(tl)
  <2>1. {} \in SUBSET Slots /\ Closed(surface, {})
    BY DEF Closed
  <2>2. Grabbing(tl) \subseteq Grabbing(surface) \ {}
    BY <1>3, <1>4 DEF Grabbing
  <2> QED
    BY <1>1, <1>4, <1>7, <2>1, <2>2, NestedStays
<1>10. SeatFits(v)
  <2>1. \A x \in Slots : MayHaveKeyboard(surface, x) => MayHaveKeyboard(tl, x)
    BY <1>3, <1>4 DEF MayHaveKeyboard
  <2>2. {x \in Slots : "surface" \in tl[x].res} = {x \in Slots : "surface" \in surface[x].res}
    BY <1>3, <1>4
  <2> QED
    BY <1>1, <1>5, <2>1, <2>2, WorldFields DEF SeatFits
<1>11. ToldFits(v, Live)
  <2>1. \A x \in Slots : tl[x].owner = surface[x].owner /\ tl[x].res = surface[x].res
    BY <1>3, <1>4
  <2>2. \A c \in Clients : told[c] # None => told[c] \in Slots
    BY <1>1, WorldFields DEF WorldType
  <2>3. seat.keyboard # None => seat.keyboard \in Slots
    BY <1>1, WorldFields DEF SeatFits
  <2> QED
    BY <1>1, <1>5, <2>1, <2>2, <2>3, WorldFields DEF ToldFits
<1>12. WorldInv(v, Live)
  BY <1>5, <1>6, <1>8, <1>9, <1>10, <1>11 DEF WorldInv, TreeInv
<1> QED
  BY <1>2, <1>12, HandledFits

-----------------------------------------------------------------------------
(***************************************************************************)
(* The specification.                                                      *)
(***************************************************************************)
LEMMA InitFits == Init => SurfaceInv
<1> SUFFICES ASSUME Init PROVE SurfaceInv
  OBVIOUS
<1>1. Free \in SlotType
  BY DEF Free, SlotType, Nobody, Kinds, Roles
<1>2. /\ surface = [s \in Slots |-> Free] /\ \A s \in Slots : surface[s] = Free
      /\ seat = [keyboard |-> None, pointer |-> None, grab |-> None, cursor |-> None, buttons |-> {}]
      /\ told = [c \in Clients |-> None]
  BY DEF Init
<1>3. World \in WorldType
  <2>1. surface \in [Slots -> SlotType] /\ told \in [Clients -> Slots \cup {None}]
    BY <1>1, <1>2
  <2>2. seat \in SeatType
    BY <1>2 DEF SeatType
  <2> QED
    BY <2>1, <2>2 DEF World, WorldType
<1>4. TreeInv(surface)
  <2>1. ASSUME NEW s \in Slots PROVE SlotFits(surface, s) /\ Hangs(surface, s)
    BY <1>2 DEF SlotFits, Hangs, Free
  <2>2. Acyclic(surface)
    BY <1>2, SurfacesAssumption DEF Acyclic, Free
  <2>3. Nested(surface)
    BY <1>2 DEF Nested, Grabbing, Free
  <2> QED
    BY <2>1, <2>2, <2>3 DEF TreeInv
<1>5. SeatFits(World) /\ ToldFits(World, Live)
  BY <1>2, WorldFields DEF SeatFits, ToldFits
<1>6. client \in [Clients -> {"live", "dying"}] /\ handled \in BOOLEAN
  BY DEF Init
<1> QED
  BY <1>3, <1>4, <1>5, <1>6, WorldFields DEF SurfaceInv, WorldInv

LEMMA RequestFits ==
  ASSUME SurfaceInv, NEW c \in Clients, NEW s \in Slots, Request(c, s)
  PROVE  SurfaceInv'
<1>1. ASSUME NEW attached \in BOOLEAN, GetXdgSurface(c, s, attached) PROVE SurfaceInv'
  BY <1>1, GetXdgSurfaceFits
<1>2. CASE GetToplevel(c, s)
  BY <1>2, GetToplevelFits
<1>3. ASSUME NEW p \in Slots, GetPopup(c, s, p) \/ GetSubsurface(c, s, p) PROVE SurfaceInv'
  BY <1>3, GetPopupFits, GetSubsurfaceFits
<1>4. ASSUME NEW right \in BOOLEAN, PopupGrab(c, s, right) \/ AckConfigure(c, s, right)
      PROVE  SurfaceInv'
  BY <1>4, PopupGrabFits, AckConfigureFits
<1>5. CASE Reposition(c, s)
  BY <1>5, RepositionFits
<1>6. ASSUME NEW fresh \in BOOLEAN, SetCursor(c, s, fresh) PROVE SurfaceInv'
  BY <1>6, SetCursorFits
<1>7. ASSUME NEW attach \in {"none", "null", "buffer"}, NEW frames \in 0 .. 1,
             Commit(c, s, attach, frames)
      PROVE  SurfaceInv'
  <2>1. frames \in Nat
    OBVIOUS
  <2> QED
    BY <1>7, <2>1, CommitFits
<1>8. ASSUME NEW kind \in {"surface", "xdg", "toplevel", "popup", "subsurface"},
             DestroyRequest(c, s, kind) \/ DestroyOfDead(c, s, kind)
      PROVE  SurfaceInv'
  BY <1>8, DestroyRequestFits, DestroyOfDeadFits DEF Kinds
<1> QED
  BY <1>1, <1>2, <1>3, <1>4, <1>5, <1>6, <1>7, <1>8 DEF Request

LEMMA HostEventFits ==
  ASSUME SurfaceInv, HostEvent
  PROVE  SurfaceInv'
<1>1. ASSUME NEW hover \in Hovered, PointerMotion(hover) PROVE SurfaceInv'
  BY <1>1, PointerMotionFits
<1>2. ASSUME NEW hover \in Hovered, NEW b \in Buttons,
             PointerPress(b, hover) \/ PointerRelease(b, hover)
      PROVE  SurfaceInv'
  BY <1>2, PointerPressFits, PointerReleaseFits
<1>3. CASE PointerCancel
  BY <1>3, PointerCancelFits
<1>4. CASE KeyboardCancel
  BY <1>4, KeyboardFits DEF KeyboardCancel
<1>5. ASSUME NEW hidden \in SUBSET Windows, FramePresented(hidden) PROVE SurfaceInv'
  BY <1>5, FramePresentedFits
<1>6. ASSUME NEW s \in Slots, WindowResized(s) \/ RequestClose(s) PROVE SurfaceInv'
  BY <1>6, WindowResizedFits, RequestCloseFits
<1>7. ASSUME NEW s \in Slots \cup {None}, KeyboardFocus(s) PROVE SurfaceInv'
  BY <1>7, KeyboardFits DEF KeyboardFocus
<1> QED
  BY <1>1, <1>2, <1>3, <1>4, <1>5, <1>6, <1>7 DEF HostEvent

LEMMA NextFits == SurfaceInv /\ [Next]_vars => SurfaceInv'
<1> SUFFICES ASSUME SurfaceInv, [Next]_vars PROVE SurfaceInv'
  OBVIOUS
<1>1. ASSUME NEW c \in Clients, CreateSurface(c) PROVE SurfaceInv'
  BY <1>1, CreateSurfaceFits
<1>2. ASSUME NEW c \in Clients, Disconnects(c) PROVE SurfaceInv'
  <2>1. Refuse(c) /\ Stays /\ handled' \in BOOLEAN
    BY <1>2 DEF Disconnects, SurfaceInv
  <2> QED
    BY <2>1, Refused
<1>3. ASSUME NEW c \in Clients, Disconnected(c) PROVE SurfaceInv'
  BY <1>3, DisconnectedFits
<1>4. ASSUME NEW c \in Clients, NEW s \in Slots, Request(c, s) PROVE SurfaceInv'
  BY <1>4, RequestFits
<1>5. CASE HostEvent
  BY <1>5, HostEventFits
<1>6. CASE UNCHANGED vars
  BY <1>6 DEF vars, SurfaceInv, WorldInv, World, Live
<1> QED
  BY <1>1, <1>2, <1>3, <1>4, <1>5, <1>6 DEF Next

\* The inductive invariant: slots and seat have their types, a slot's objects
\* agree with its role, what hangs hangs without a cycle from what is there, the
\* grabs are nested, and clients know their focus, however objects are created
\* and destroyed.
THEOREM SurfaceInvariant == Spec => []SurfaceInv
BY InitFits, NextFits, PTL DEF Spec

\* surface_resource_destroyed and its siblings leave no reference to a surface
\* that is gone in the seat, in an overlay or in a window, and popup_grab leaves
\* the grabs of a toplevel nested: for any number of slots, clients and buttons.
THEOREM SurfacesFit == Spec => []SurfacesFitTogether
<1>1. SurfaceInv => SurfacesFitTogether
  <2> SUFFICES ASSUME SurfaceInv PROVE SurfacesFitTogether
    OBVIOUS
  <2>1. /\ TreeInv(surface) /\ SeatFits(World) /\ World \in WorldType
        /\ \A s \in Slots : surface[s] \in SlotType
    BY WorldFields DEF SurfaceInv, WorldInv, WorldType
  <2>2. NothingDangles
    <3>1. /\ {seat.keyboard, seat.pointer, seat.grab, seat.cursor} \ {None} \subseteq
               {s \in Slots : "surface" \in surface[s].res}
          /\ seat.keyboard # None => MayHaveKeyboard(surface, seat.keyboard)
          /\ (seat.grab # None) = (seat.buttons # {})
      BY <2>1, WorldFields DEF SeatFits
    <3>2. \A s \in Slots : surface[s].parent # None => "surface" \in surface[surface[s].parent].res
      BY <2>1 DEF TreeInv, Hangs
    <3>3. \A s \in Slots : surface[s].window => MayHaveKeyboard(surface, s)
      BY <2>1 DEF TreeInv, SlotFits
    <3> QED
      BY <3>1, <3>2, <3>3 DEF NothingDangles
  <2>3. GrabsAreNested
    BY <2>1 DEF GrabsAreNested, TreeInv, Nested, Grabbing
  <2> QED
    BY <2>2, <2>3 DEF SurfacesFitTogether
<1> QED
  BY <1>1, SurfaceInvariant, PTL

\* keyboard_change_focus, clear_surface_keyboard_state and the destruction of a
\* surface tell each client, for any number of them, of every change of its
\* keyboard focus: what it believes is true.
THEOREM FocusIsAlwaysTold == Spec => []FocusIsTold
<1>1. SurfaceInv => FocusIsTold
  <2> SUFFICES ASSUME SurfaceInv PROVE FocusIsTold
    OBVIOUS
  <2>1. ToldFits(World, Live)
    BY DEF SurfaceInv, WorldInv
  <2> QED
    BY <2>1, WorldFields DEF ToldFits, FocusIsTold, Live
<1> QED
  BY <1>1, SurfaceInvariant, PTL

=============================================================================
