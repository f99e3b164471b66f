------------------------ MODULE RootlessWindowsProofs ------------------------
(***************************************************************************)
(* The windows of X11 clients, for any number of windows and surfaces:     *)
(* ShellShowsX11.                                                          *)
(*                                                                         *)
(* The two sockets are read at different times, so every part of           *)
(* RootlessInv says what is still to be heard on one of them:              *)
(*                                                                         *)
(*  - X events come in an order that lets the manager know every mapped    *)
(*    window and forget every other (NewsFit, by Orderly);                 *)
(*  - requests come in an order that gives the server every surface of a   *)
(*    window and takes every other away (CallsFit, by Told);               *)
(*  - a surface is one window's, in both tables and in all that is under   *)
(*    way (OwnersFit), and what was drawn on it is not lost (DrawnFit,     *)
(*    ShownFit);                                                           *)
(*  - an entry of the manager's table, together with the news of its       *)
(*    window, tells what X11 says of it (EntriesFit, by Matches), and the  *)
(*    manager redirects what it believes it redirects (RedirectsFit).      *)
(*                                                                         *)
(* The parts speak of any X server x, table t and shell h, as the handlers *)
(* pass through worlds that are not yet the next state.  A group of lemmas *)
(* says what each kind of change of a world keeps (MakesFits ... EndedFits)*)
(* and each step of the system is shown to be of one of these kinds.       *)
(***************************************************************************)
EXTENDS RootlessWindows, FiniteSetTheorems, WellFoundedInduction, TLAPS

Turns == {"map", "unmap", "destroy"}
Asked == {"surface", "state"}
Redirections == {"no", "xwm", "other"}

Windows == [phase : {"out", "asked", "mapped", "gone"}, redirected : Redirections,
            surface : Surfaces \cup {NoId}, drawn : BOOLEAN, title : 1 .. 2]
Entries == [surface : Surfaces \cup {NoId}, associated : BOOLEAN, redirected : Redirections,
            fullscreen : BOOLEAN]
ShellSurfaces == [role : {"none", "xwayland"}, xwindow : Toplevels \cup {NoId},
                  pixels : BOOLEAN, title : 0 .. 2, fullscreen : BOOLEAN]
News == [type : Turns \cup {"property"}, window : Toplevels, arg : {NoId}]
        \cup [type : {"surface"}, window : Toplevels, arg : Surfaces]
        \cup [type : {"state"}, window : Toplevels, arg : BOOLEAN]
Calls == [type : {"create", "commit", "destroy"}, surface : Surfaces]
Stacks == {q \in Seq(Surfaces \cup {NoId}) :
             /\ \A i, j \in 1 .. Len(q) : q[i] = q[j] => i = j
             /\ \E i \in 1 .. Len(q) : q[i] = NoId}

Of(e, w, types) == e.window = w /\ e.type \in types
For(r, s, type) == r.surface = s /\ r.type = type

\* What is still to be heard of a window, given its phase and whether the
\* manager knows it.
Orderly(q, w, phase, known) ==
    /\ phase = "mapped" => known /\ \A i \in 1 .. Len(q) : ~Of(q[i], w, Turns)
    /\ known /\ phase # "mapped" =>
         \E j \in 1 .. Len(q) : /\ Of(q[j], w, {"unmap", "destroy"})
                                /\ \A i \in 1 .. Len(q) : i < j => ~Of(q[i], w, {"map"})
    /\ \A i \in 1 .. Len(q) :
         /\ Of(q[i], w, {"map"}) =>
              /\ phase \in {"asked", "gone"}
              /\ phase = "asked" => \A j \in 1 .. Len(q) : j > i => ~Of(q[j], w, Turns \cup Asked)
         /\ Of(q[i], w, Asked) =>
              known /\ \A j \in 1 .. Len(q) : j < i => ~Of(q[j], w, Turns)
         /\ Of(q[i], w, {"destroy"}) => phase = "gone"

\* What the server is still to hear of a surface, given whether it exists
\* there and whether it is the surface of a window.
Told(q, s, exists, live) ==
    /\ \A i \in 1 .. Len(q) :
         /\ For(q[i], s, "create") =>
              /\ ~exists
              /\ \A j \in 1 .. Len(q) : j < i => q[j].surface # s
              /\ \A j \in 1 .. Len(q) : j > i => ~For(q[j], s, "create")
         /\ For(q[i], s, "commit") =>
              /\ exists \/ \E j \in 1 .. Len(q) : j < i /\ For(q[j], s, "create")
              /\ \A j \in 1 .. Len(q) : j < i => ~For(q[j], s, "destroy")
    /\ exists \/ (\E i \in 1 .. Len(q) : For(q[i], s, "create")) =>
         live \/ \E i \in 1 .. Len(q) : For(q[i], s, "destroy")
    /\ live => /\ \A i \in 1 .. Len(q) : ~For(q[i], s, "destroy")
               /\ exists \/ \E i \in 1 .. Len(q) : For(q[i], s, "create")

-----------------------------------------------------------------------------
\* A message at the end, a message read.
LEMMA AtEnd ==
    ASSUME NEW T, NEW q \in Seq(T), NEW e \in T
    PROVE  /\ Append(q, e) \in Seq(T) /\ Len(Append(q, e)) = Len(q) + 1 /\ Len(q) \in Nat
           /\ \A i \in 1 .. Len(q) : Append(q, e)[i] = q[i]
           /\ Append(q, e)[Len(q) + 1] = e
OBVIOUS

LEMMA AtHead ==
    ASSUME NEW T, NEW q \in Seq(T), q # <<>>
    PROVE  /\ Tail(q) \in Seq(T) /\ Len(q) \in Nat /\ Len(q) >= 1
           /\ Len(Tail(q)) = Len(q) - 1
           /\ Head(q) = q[1] /\ Head(q) \in T
           /\ \A i \in 1 .. Len(q) - 1 : Tail(q)[i] = q[i + 1]
OBVIOUS

\* A message at the end that is not about w, or tells nothing new.
LEMMA OrderlyAppend ==
    ASSUME NEW q \in Seq(News), NEW e \in News, NEW w, NEW phase, NEW known \in BOOLEAN,
           Orderly(q, w, phase, known),
           \/ e.window # w
           \/ e.type = "property"
           \/ e.type \in Asked /\ phase = "mapped"
           \/ e.type = "unmap" /\ phase = "out"
    PROVE  Orderly(Append(q, e), w, phase, known)
<1> DEFINE p == Append(q, e)
<1>1. /\ p \in Seq(News) /\ Len(p) = Len(q) + 1 /\ Len(q) \in Nat
      /\ \A i \in 1 .. Len(q) : p[i] = q[i]
      /\ p[Len(q) + 1] = e
  BY AtEnd
<1> HIDE DEF p
<1>2. phase = "mapped" => known /\ \A i \in 1 .. Len(p) : ~Of(p[i], w, Turns)
  BY <1>1 DEF Orderly, Of, Turns, Asked
<1>3. known /\ phase # "mapped" =>
         \E j \in 1 .. Len(p) : /\ Of(p[j], w, {"unmap", "destroy"})
                                /\ \A i \in 1 .. Len(p) : i < j => ~Of(p[i], w, {"map"})
  <2> SUFFICES ASSUME known, phase # "mapped"
               PROVE  \E j \in 1 .. Len(p) : /\ Of(p[j], w, {"unmap", "destroy"})
                                /\ \A i \in 1 .. Len(p) : i < j => ~Of(p[i], w, {"map"})
    OBVIOUS
  <2>1. PICK j \in 1 .. Len(q) : /\ Of(q[j], w, {"unmap", "destroy"})
                                 /\ \A i \in 1 .. Len(q) : i < j => ~Of(q[i], w, {"map"})
    BY DEF Orderly
  <2>2. j \in 1 .. Len(p) /\ \A i \in 1 .. Len(p) : i < j => i \in 1 .. Len(q)
    BY <1>1
  <2> QED
    BY <1>1, <2>1, <2>2
<1>4. ASSUME NEW i \in 1 .. Len(p)
      PROVE  /\ Of(p[i], w, {"map"}) =>
                  /\ phase \in {"asked", "gone"}
                  /\ phase = "asked" => \A j \in 1 .. Len(p) : j > i => ~Of(p[j], w, Turns \cup Asked)
             /\ Of(p[i], w, Asked) =>
                  known /\ \A j \in 1 .. Len(p) : j < i => ~Of(p[j], w, Turns)
             /\ Of(p[i], w, {"destroy"}) => phase = "gone"
  BY <1>1 DEF Orderly, Of, Turns, Asked
<1> QED
  BY <1>2, <1>3, <1>4 DEF Orderly, p

\* A client asks for its window to be mapped.
LEMMA OrderlyMap ==
    ASSUME NEW q \in Seq(News), NEW e \in News, NEW w, NEW known \in BOOLEAN,
           Orderly(q, w, "out", known), Of(e, w, {"map"})
    PROVE  Orderly(Append(q, e), w, "asked", known)
<1> DEFINE p == Append(q, e)
<1>1. /\ p \in Seq(News) /\ Len(p) = Len(q) + 1 /\ Len(q) \in Nat
      /\ \A i \in 1 .. Len(q) : p[i] = q[i]
      /\ p[Len(q) + 1] = e
  BY AtEnd
<1> HIDE DEF p
<1>2. known => \E j \in 1 .. Len(p) : /\ Of(p[j], w, {"unmap", "destroy"})
                                      /\ \A i \in 1 .. Len(p) : i < j => ~Of(p[i], w, {"map"})
  <2> SUFFICES ASSUME known
               PROVE  \E j \in 1 .. Len(p) : /\ Of(p[j], w, {"unmap", "destroy"})
                                /\ \A i \in 1 .. Len(p) : i < j => ~Of(p[i], w, {"map"})
    OBVIOUS
  <2>1. PICK j \in 1 .. Len(q) : /\ Of(q[j], w, {"unmap", "destroy"})
                                 /\ \A i \in 1 .. Len(q) : i < j => ~Of(q[i], w, {"map"})
    BY DEF Orderly
  <2>2. j \in 1 .. Len(p) /\ \A i \in 1 .. Len(p) : i < j => i \in 1 .. Len(q)
    BY <1>1
  <2> QED
    BY <1>1, <2>1, <2>2
<1>3. \A i \in 1 .. Len(q) : ~Of(q[i], w, {"map"}) /\ ~Of(q[i], w, {"destroy"})
  BY DEF Orderly
<1>4. ASSUME NEW i \in 1 .. Len(p)
      PROVE  /\ Of(p[i], w, {"map"}) => \A j \in 1 .. Len(p) : j > i => ~Of(p[j], w, Turns \cup Asked)
             /\ Of(p[i], w, Asked) => known /\ \A j \in 1 .. Len(p) : j < i => ~Of(p[j], w, Turns)
             /\ ~Of(p[i], w, {"destroy"})
  BY <1>1, <1>3 DEF Orderly, Of, Turns, Asked
<1> QED
  BY <1>2, <1>4 DEF Orderly, p

\* A mapped window is unmapped, and a window that is not mapped destroyed.
LEMMA OrderlyEnd ==
    ASSUME NEW q \in Seq(News), NEW e \in News, NEW w, NEW phase, NEW known \in BOOLEAN,
           Orderly(q, w, phase, known), NEW next,
           \/ phase = "mapped" /\ next = "out" /\ Of(e, w, {"unmap"})
           \/ phase # "mapped" /\ next = "gone" /\ Of(e, w, {"destroy"})
    PROVE  Orderly(Append(q, e), w, next, known)
<1> DEFINE p == Append(q, e)
<1>1. /\ p \in Seq(News) /\ Len(p) = Len(q) + 1 /\ Len(q) \in Nat
      /\ \A i \in 1 .. Len(q) : p[i] = q[i]
      /\ p[Len(q) + 1] = e
  BY AtEnd
<1> HIDE DEF p
<1>2. known => \E j \in 1 .. Len(p) : /\ Of(p[j], w, {"unmap", "destroy"})
                                      /\ \A i \in 1 .. Len(p) : i < j => ~Of(p[i], w, {"map"})
  <2>1. CASE phase = "mapped"
    <3>1. Of(p[Len(q) + 1], w, {"unmap", "destroy"}) /\ Len(q) + 1 \in 1 .. Len(p)
      BY <1>1, <2>1 DEF Of
    <3>2. \A i \in 1 .. Len(p) : i < Len(q) + 1 => ~Of(p[i], w, {"map"})
      BY <1>1, <2>1 DEF Orderly, Of, Turns
    <3> QED
      BY <3>1, <3>2
  <2>2. CASE phase # "mapped" /\ known
    <3>1. PICK j \in 1 .. Len(q) : /\ Of(q[j], w, {"unmap", "destroy"})
                                   /\ \A i \in 1 .. Len(q) : i < j => ~Of(q[i], w, {"map"})
      BY <2>2 DEF Orderly
    <3>2. j \in 1 .. Len(p) /\ \A i \in 1 .. Len(p) : i < j => i \in 1 .. Len(q)
      BY <1>1
    <3> QED
      BY <1>1, <3>1, <3>2
  <2> QED
    BY <2>1, <2>2
<1>3. next \in {"out", "gone"}
  OBVIOUS
<1>4. ASSUME NEW i \in 1 .. Len(p)
      PROVE  /\ Of(p[i], w, {"map"}) => next = "gone"
             /\ Of(p[i], w, Asked) => known /\ \A j \in 1 .. Len(p) : j < i => ~Of(p[j], w, Turns)
             /\ Of(p[i], w, {"destroy"}) => next = "gone"
  BY <1>1 DEF Orderly, Of, Turns, Asked
<1> QED
  BY <1>2, <1>3, <1>4 DEF Orderly, p

\* A message that is read and was not about w, or turned nothing.
LEMMA OrderlyTail ==
    ASSUME NEW q \in Seq(News), q # <<>>, NEW w, NEW phase, NEW known \in BOOLEAN,
           Orderly(q, w, phase, known), ~Of(Head(q), w, Turns)
    PROVE  Orderly(Tail(q), w, phase, known)
<1> DEFINE p == Tail(q)
<1>1. /\ p \in Seq(News) /\ Len(p) = Len(q) - 1 /\ Len(q) \in Nat /\ Len(q) >= 1
      /\ \A i \in 1 .. Len(q) - 1 : p[i] = q[i + 1]
      /\ Head(q) = q[1]
  BY AtHead
<1> HIDE DEF p
<1>a. \A i \in 1 .. Len(p) : i + 1 \in 1 .. Len(q) /\ p[i] = q[i + 1]
  BY <1>1
<1>2. phase = "mapped" => known /\ \A i \in 1 .. Len(p) : ~Of(p[i], w, Turns)
  BY <1>a DEF Orderly
<1>3. known /\ phase # "mapped" =>
         \E j \in 1 .. Len(p) : /\ Of(p[j], w, {"unmap", "destroy"})
                                /\ \A i \in 1 .. Len(p) : i < j => ~Of(p[i], w, {"map"})
  <2> SUFFICES ASSUME known, phase # "mapped"
               PROVE  \E j \in 1 .. Len(p) : /\ Of(p[j], w, {"unmap", "destroy"})
                                /\ \A i \in 1 .. Len(p) : i < j => ~Of(p[i], w, {"map"})
    OBVIOUS
  <2>1. PICK j \in 1 .. Len(q) : /\ Of(q[j], w, {"unmap", "destroy"})
                                 /\ \A i \in 1 .. Len(q) : i < j => ~Of(q[i], w, {"map"})
    BY DEF Orderly
  <2>2. j # 1
    BY <1>1, <2>1 DEF Of, Turns
  <2>3. j - 1 \in 1 .. Len(p) /\ p[j - 1] = q[j]
    BY <1>1, <2>2
  <2>4. \A i \in 1 .. Len(p) : i < j - 1 => ~Of(p[i], w, {"map"})
    BY <1>1, <1>a, <2>1
  <2> QED
    BY <2>1, <2>3, <2>4
<1>4. ASSUME NEW i \in 1 .. Len(p)
      PROVE  /\ Of(p[i], w, {"map"}) =>
                  /\ phase \in {"asked", "gone"}
                  /\ phase = "asked" => \A j \in 1 .. Len(p) : j > i => ~Of(p[j], w, Turns \cup Asked)
             /\ Of(p[i], w, Asked) =>
                  known /\ \A j \in 1 .. Len(p) : j < i => ~Of(p[j], w, Turns)
             /\ Of(p[i], w, {"destroy"}) => phase = "gone"
  <2>1. i + 1 \in 1 .. Len(q) /\ p[i] = q[i + 1]
    BY <1>a
  <2>2. \A j \in 1 .. Len(p) : /\ j + 1 \in 1 .. Len(q) /\ p[j] = q[j + 1]
                               /\ (j > i => j + 1 > i + 1) /\ (j < i => j + 1 < i + 1)
    BY <1>a, <1>1
  <2> QED
    BY <2>1, <2>2 DEF Orderly
<1> QED
  BY <1>2, <1>3, <1>4 DEF Orderly, p

\* The news that a window was unmapped or destroyed: nothing more is to be
\* heard that the manager would have to know it for.
LEMMA OrderlyGone ==
    ASSUME NEW q \in Seq(News), q # <<>>, NEW w, NEW phase, NEW known \in BOOLEAN,
           Orderly(q, w, phase, known), Of(Head(q), w, {"unmap", "destroy"})
    PROVE  phase # "mapped" /\ Orderly(Tail(q), w, phase, FALSE)
           /\ (Of(Head(q), w, {"destroy"}) => phase = "gone")
<1> DEFINE p == Tail(q)
<1>1. /\ p \in Seq(News) /\ Len(p) = Len(q) - 1 /\ Len(q) \in Nat /\ Len(q) >= 1
      /\ \A i \in 1 .. Len(q) - 1 : p[i] = q[i + 1]
      /\ Head(q) = q[1]
  BY AtHead
<1> HIDE DEF p
<1>a. \A i \in 1 .. Len(p) : i + 1 \in 1 .. Len(q) /\ p[i] = q[i + 1] /\ 1 < i + 1
  BY <1>1
<1>b. 1 \in 1 .. Len(q) /\ Of(q[1], w, {"unmap", "destroy"}) /\ Of(q[1], w, Turns)
  BY <1>1 DEF Of, Turns
<1>2. phase # "mapped" /\ (Of(Head(q), w, {"destroy"}) => phase = "gone")
  BY <1>1, <1>b DEF Orderly
<1>4. ASSUME NEW i \in 1 .. Len(p)
      PROVE  /\ Of(p[i], w, {"map"}) =>
                  /\ phase \in {"asked", "gone"}
                  /\ phase = "asked" => \A j \in 1 .. Len(p) : j > i => ~Of(p[j], w, Turns \cup Asked)
             /\ ~Of(p[i], w, Asked)
             /\ Of(p[i], w, {"destroy"}) => phase = "gone"
  <2>1. i + 1 \in 1 .. Len(q) /\ p[i] = q[i + 1] /\ 1 < i + 1
    BY <1>a
  <2>2. \A j \in 1 .. Len(p) : /\ j + 1 \in 1 .. Len(q) /\ p[j] = q[j + 1]
                               /\ (j > i => j + 1 > i + 1)
    BY <1>a, <1>1
  <2> QED
    BY <1>b, <2>1, <2>2 DEF Orderly
<1> QED
  BY <1>2, <1>4 DEF Orderly, p

\* The manager reads that a client wants its window mapped.
LEMMA OrderlyAsked ==
    ASSUME NEW q \in Seq(News), q # <<>>, NEW w, NEW phase, NEW known \in BOOLEAN,
           Orderly(q, w, phase, known), Of(Head(q), w, {"map"})
    PROVE  /\ ~known /\ phase \in {"asked", "gone"}
           /\ phase = "gone" => Orderly(Tail(q), w, "gone", FALSE)
           /\ phase = "asked" => Orderly(Tail(q), w, "out", FALSE) /\ Orderly(Tail(q), w, "mapped", TRUE)
<1> DEFINE p == Tail(q)
<1>1. /\ p \in Seq(News) /\ Len(p) = Len(q) - 1 /\ Len(q) \in Nat /\ Len(q) >= 1
      /\ \A i \in 1 .. Len(q) - 1 : p[i] = q[i + 1]
      /\ Head(q) = q[1]
  BY AtHead
<1> HIDE DEF p
<1>a. \A i \in 1 .. Len(p) : i + 1 \in 1 .. Len(q) /\ p[i] = q[i + 1] /\ i + 1 > 1
  BY <1>1
<1>b. 1 \in 1 .. Len(q) /\ Of(q[1], w, {"map"}) /\ Of(q[1], w, Turns)
  BY <1>1 DEF Of, Turns
<1>2. phase \in {"asked", "gone"}
  BY <1>b DEF Orderly
<1>3. ~known
  <2> SUFFICES ASSUME known PROVE FALSE
    OBVIOUS
  <2>1. PICK j \in 1 .. Len(q) : /\ Of(q[j], w, {"unmap", "destroy"})
                                 /\ \A i \in 1 .. Len(q) : i < j => ~Of(q[i], w, {"map"})
    BY <1>2 DEF Orderly
  <2>2. j # 1
    BY <1>b, <2>1 DEF Of
  <2>3. 1 < j
    BY <2>2
  <2> QED
    BY <1>b, <2>1, <2>3
<1>4. CASE phase = "gone"
  <2>1. ASSUME NEW i \in 1 .. Len(p) PROVE ~Of(p[i], w, Asked)
    BY <1>3, <1>a DEF Orderly
  <2> QED
    BY <1>2, <1>3, <1>4, <2>1 DEF Orderly, p
<1>5. CASE phase = "asked"
  <2>1. ASSUME NEW i \in 1 .. Len(p) PROVE ~Of(p[i], w, Turns \cup Asked)
    BY <1>5, <1>a, <1>b DEF Orderly
  <2>2. \A i \in 1 .. Len(p) : ~Of(p[i], w, Turns) /\ ~Of(p[i], w, Asked) /\ ~Of(p[i], w, {"map"})
                               /\ ~Of(p[i], w, {"destroy"})
    BY <2>1 DEF Of, Turns
  <2> QED
    BY <1>3, <1>5, <2>2 DEF Orderly, p
<1> QED
  BY <1>2, <1>3, <1>4, <1>5

\* A request at the end: about another surface, or a commit of a window's.
LEMMA ToldAppend ==
    ASSUME NEW q \in Seq(Calls), NEW e \in Calls, NEW s, NEW exists \in BOOLEAN, NEW live \in BOOLEAN,
           Told(q, s, exists, live), e.surface # s \/ (live /\ For(e, s, "commit"))
    PROVE  Told(Append(q, e), s, exists, live)
<1> DEFINE p == Append(q, e)
<1>1. /\ p \in Seq(Calls) /\ Len(p) = Len(q) + 1 /\ Len(q) \in Nat
      /\ \A i \in 1 .. Len(q) : p[i] = q[i]
      /\ p[Len(q) + 1] = e
  BY AtEnd
<1> HIDE DEF p
<1>2. \A i \in 1 .. Len(q) : i \in 1 .. Len(p) /\ i < Len(q) + 1
  BY <1>1
<1>3. \A i \in 1 .. Len(p) : i \in 1 .. Len(q) \/ i = Len(q) + 1
  BY <1>1
<1>4. ~For(e, s, "create") /\ ~For(e, s, "destroy")
  BY DEF For
<1>5. ASSUME NEW i \in 1 .. Len(p)
      PROVE  /\ For(p[i], s, "create") =>
                  /\ ~exists
                  /\ \A j \in 1 .. Len(p) : j < i => p[j].surface # s
                  /\ \A j \in 1 .. Len(p) : j > i => ~For(p[j], s, "create")
             /\ For(p[i], s, "commit") =>
                  /\ exists \/ \E j \in 1 .. Len(p) : j < i /\ For(p[j], s, "create")
                  /\ \A j \in 1 .. Len(p) : j < i => ~For(p[j], s, "destroy")
  <2>1. CASE i \in 1 .. Len(q)
    <3>1. \A j \in 1 .. Len(p) : j < i => j \in 1 .. Len(q)
      BY <1>1, <2>1
    <3> QED
      BY <1>1, <1>2, <1>3, <1>4, <2>1, <3>1 DEF Told
  <2>2. CASE i = Len(q) + 1
    <3>1. For(p[i], s, "commit") => live
      BY <1>1, <2>2 DEF For
    <3>2. \A j \in 1 .. Len(p) : j < i => j \in 1 .. Len(q) /\ p[j] = q[j]
      BY <1>1, <2>2
    <3>3. live => /\ \A j \in 1 .. Len(q) : ~For(q[j], s, "destroy")
                  /\ exists \/ \E j \in 1 .. Len(q) : For(q[j], s, "create")
      BY DEF Told
    <3> QED
      BY <1>1, <1>2, <1>4, <2>2, <3>1, <3>2, <3>3
  <2> QED
    BY <1>3, <2>1, <2>2
<1>6. exists \/ (\E i \in 1 .. Len(p) : For(p[i], s, "create")) =>
         live \/ \E i \in 1 .. Len(p) : For(p[i], s, "destroy")
  BY <1>1, <1>2, <1>3, <1>4 DEF Told
<1>7. live => /\ \A i \in 1 .. Len(p) : ~For(p[i], s, "destroy")
              /\ exists \/ \E i \in 1 .. Len(p) : For(p[i], s, "create")
  BY <1>1, <1>2, <1>3, <1>4 DEF Told
<1> QED
  BY <1>5, <1>6, <1>7 DEF Told, p

\* Xwayland makes a surface that nobody has heard of.
LEMMA ToldCreate ==
    ASSUME NEW q \in Seq(Calls), NEW e \in Calls, NEW s, For(e, s, "create"),
           \A i \in 1 .. Len(q) : q[i].surface # s
    PROVE  Told(Append(q, e), s, FALSE, TRUE)
<1> DEFINE p == Append(q, e)
<1>1. /\ p \in Seq(Calls) /\ Len(p) = Len(q) + 1 /\ Len(q) \in Nat
      /\ \A i \in 1 .. Len(q) : p[i] = q[i]
      /\ p[Len(q) + 1] = e
  BY AtEnd
<1> HIDE DEF p
<1>2. \A i \in 1 .. Len(p) : (i \in 1 .. Len(q) /\ p[i].surface # s) \/ i = Len(q) + 1
  BY <1>1
<1>3. Len(q) + 1 \in 1 .. Len(p) /\ For(p[Len(q) + 1], s, "create")
  BY <1>1
<1>4. \A i \in 1 .. Len(p) : p[i].surface # s \/ p[i].type = "create"
  BY <1>1, <1>2 DEF For
<1> QED
  BY <1>2, <1>3, <1>4 DEF Told, For, p

\* A window's surface is destroyed.
LEMMA ToldDestroy ==
    ASSUME NEW q \in Seq(Calls), NEW e \in Calls, NEW s, NEW exists \in BOOLEAN,
           Told(q, s, exists, TRUE), For(e, s, "destroy")
    PROVE  Told(Append(q, e), s, exists, FALSE)
<1> DEFINE p == Append(q, e)
<1>1. /\ p \in Seq(Calls) /\ Len(p) = Len(q) + 1 /\ Len(q) \in Nat
      /\ \A i \in 1 .. Len(q) : p[i] = q[i]
      /\ p[Len(q) + 1] = e
  BY AtEnd
<1> HIDE DEF p
<1>2. \A i \in 1 .. Len(q) : i \in 1 .. Len(p) /\ i < Len(q) + 1
  BY <1>1
<1>3. \A i \in 1 .. Len(p) : i \in 1 .. Len(q) \/ i = Len(q) + 1
  BY <1>1
<1>4. ~For(e, s, "create") /\ ~For(e, s, "commit") /\ Len(q) + 1 \in 1 .. Len(p)
  BY <1>1 DEF For
<1>5. ASSUME NEW i \in 1 .. Len(p)
      PROVE  /\ For(p[i], s, "create") =>
                  /\ ~exists
                  /\ \A j \in 1 .. Len(p) : j < i => p[j].surface # s
                  /\ \A j \in 1 .. Len(p) : j > i => ~For(p[j], s, "create")
             /\ For(p[i], s, "commit") =>
                  /\ exists \/ \E j \in 1 .. Len(p) : j < i /\ For(p[j], s, "create")
                  /\ \A j \in 1 .. Len(p) : j < i => ~For(p[j], s, "destroy")
  <2>1. CASE i \in 1 .. Len(q)
    <3>1. \A j \in 1 .. Len(p) : j < i => j \in 1 .. Len(q)
      BY <1>1, <2>1
    <3> QED
      BY <1>1, <1>2, <1>3, <1>4, <2>1, <3>1 DEF Told
  <2>2. CASE i = Len(q) + 1
    BY <1>1, <1>4, <2>2
  <2> QED
    BY <1>3, <2>1, <2>2
<1> QED
  BY <1>1, <1>4, <1>5 DEF Told, p

\* A request about another surface, or a commit, is read.
LEMMA ToldTail ==
    ASSUME NEW q \in Seq(Calls), q # <<>>, NEW s, NEW exists \in BOOLEAN, NEW live \in BOOLEAN,
           Told(q, s, exists, live), Head(q).surface # s \/ For(Head(q), s, "commit")
    PROVE  /\ Told(Tail(q), s, exists, live)
           /\ For(Head(q), s, "commit") => exists
<1> DEFINE p == Tail(q)
<1>1. /\ p \in Seq(Calls) /\ Len(p) = Len(q) - 1 /\ Len(q) \in Nat /\ Len(q) >= 1
      /\ \A i \in 1 .. Len(q) - 1 : p[i] = q[i + 1]
      /\ Head(q) = q[1]
  BY AtHead
<1> HIDE DEF p
<1>2. \A i \in 1 .. Len(p) : i + 1 \in 1 .. Len(q) /\ p[i] = q[i + 1]
  BY <1>1
<1>3. \A i \in 1 .. Len(q) : i = 1 \/ (i - 1 \in 1 .. Len(p) /\ p[i - 1] = q[i] /\ i - 1 + 1 = i)
  BY <1>1
<1>4. ~For(q[1], s, "create") /\ ~For(q[1], s, "destroy") /\ 1 \in 1 .. Len(q)
  BY <1>1 DEF For
<1>5. ASSUME NEW i \in 1 .. Len(p)
      PROVE  /\ For(p[i], s, "create") =>
                  /\ ~exists
                  /\ \A j \in 1 .. Len(p) : j < i => p[j].surface # s
                  /\ \A j \in 1 .. Len(p) : j > i => ~For(p[j], s, "create")
             /\ For(p[i], s, "commit") =>
                  /\ exists \/ \E j \in 1 .. Len(p) : j < i /\ For(p[j], s, "create")
                  /\ \A j \in 1 .. Len(p) : j < i => ~For(p[j], s, "destroy")
  <2>1. \A j \in 1 .. Len(p) : j + 1 \in 1 .. Len(q) /\ p[j] = q[j + 1]
           /\ (j > i => j + 1 > i + 1) /\ (j < i => j + 1 < i + 1)
    BY <1>1, <1>2
  <2>2. i + 1 \in 1 .. Len(q) /\ p[i] = q[i + 1]
    BY <1>2
  <2>3. ASSUME For(p[i], s, "commit"), ~exists
        PROVE  \E j \in 1 .. Len(p) : j < i /\ For(p[j], s, "create")
    <3>1. PICK j \in 1 .. Len(q) : j < i + 1 /\ For(q[j], s, "create")
      BY <2>2, <2>3 DEF Told
    <3>2. j - 1 \in 1 .. Len(p) /\ p[j - 1] = q[j] /\ j - 1 < i
      BY <1>3, <1>4, <3>1
    <3> QED
      BY <3>1, <3>2
  <2> QED
    BY <2>1, <2>2, <2>3 DEF Told
<1>6. exists \/ (\E i \in 1 .. Len(p) : For(p[i], s, "create")) =>
         live \/ \E i \in 1 .. Len(p) : For(p[i], s, "destroy")
  BY <1>2, <1>3, <1>4 DEF Told
<1>7. live => /\ \A i \in 1 .. Len(p) : ~For(p[i], s, "destroy")
              /\ exists \/ \E i \in 1 .. Len(p) : For(p[i], s, "create")
  BY <1>2, <1>3, <1>4 DEF Told
<1>8. For(Head(q), s, "commit") => exists
  <2>1. ~\E j \in 1 .. Len(q) : j < 1 /\ For(q[j], s, "create")
    BY <1>1
  <2> QED
    BY <1>1, <1>4, <2>1 DEF Told
<1> QED
  BY <1>5, <1>6, <1>7, <1>8 DEF Told, p

\* The server makes a surface, or hears that one is gone.
LEMMA ToldNew ==
    ASSUME NEW q \in Seq(Calls), q # <<>>, NEW s, NEW exists \in BOOLEAN, NEW live \in BOOLEAN,
           Told(q, s, exists, live), For(Head(q), s, "create")
    PROVE  ~exists
<1>1. 1 \in 1 .. Len(q) /\ Head(q) = q[1]
  BY AtHead
<1> QED
  BY <1>1 DEF Told

LEMMA ToldMade ==
    ASSUME NEW q \in Seq(Calls), q # <<>>, NEW s, NEW exists \in BOOLEAN, NEW live \in BOOLEAN,
           Told(q, s, exists, live), For(Head(q), s, "create")
    PROVE  Told(Tail(q), s, TRUE, live)
<1> DEFINE p == Tail(q)
<1>1. /\ p \in Seq(Calls) /\ Len(p) = Len(q) - 1 /\ Len(q) \in Nat /\ Len(q) >= 1
      /\ \A i \in 1 .. Len(q) - 1 : p[i] = q[i + 1]
      /\ Head(q) = q[1]
  BY AtHead
<1> HIDE DEF p
<1>2. \A i \in 1 .. Len(p) : i + 1 \in 1 .. Len(q) /\ p[i] = q[i + 1] /\ i + 1 > 1
  BY <1>1
<1>3. \A i \in 1 .. Len(q) : i = 1 \/ (i - 1 \in 1 .. Len(p) /\ p[i - 1] = q[i])
  BY <1>1
<1>4. For(q[1], s, "create") /\ 1 \in 1 .. Len(q) /\ ~For(q[1], s, "destroy")
  BY <1>1 DEF For
<1>5. ~exists /\ \A i \in 1 .. Len(p) : ~For(p[i], s, "create")
  BY <1>2, <1>4 DEF Told
<1>6. live \/ \E i \in 1 .. Len(p) : For(p[i], s, "destroy")
  BY <1>3, <1>4 DEF Told
<1>7. live => \A i \in 1 .. Len(p) : ~For(p[i], s, "destroy")
  BY <1>2 DEF Told
<1>8. ASSUME NEW i \in 1 .. Len(p), For(p[i], s, "commit"), NEW j \in 1 .. Len(p), j < i
      PROVE  ~For(p[j], s, "destroy")
  <2>1. i + 1 \in 1 .. Len(q) /\ j + 1 \in 1 .. Len(q) /\ j + 1 < i + 1 /\ p[i] = q[i + 1] /\ p[j] = q[j + 1]
    BY <1>1, <1>2, <1>8
  <2> QED
    BY <1>8, <2>1 DEF Told
<1> QED
  BY <1>5, <1>6, <1>7, <1>8 DEF Told, p

LEMMA ToldGone ==
    ASSUME NEW q \in Seq(Calls), q # <<>>, NEW s, NEW exists \in BOOLEAN, NEW live \in BOOLEAN,
           Told(q, s, exists, live), For(Head(q), s, "destroy")
    PROVE  ~live /\ Told(Tail(q), s, FALSE, FALSE)
<1> DEFINE p == Tail(q)
<1>1. /\ p \in Seq(Calls) /\ Len(p) = Len(q) - 1 /\ Len(q) \in Nat /\ Len(q) >= 1
      /\ \A i \in 1 .. Len(q) - 1 : p[i] = q[i + 1]
      /\ Head(q) = q[1]
  BY AtHead
<1> HIDE DEF p
<1>2. \A i \in 1 .. Len(p) : i + 1 \in 1 .. Len(q) /\ p[i] = q[i + 1] /\ 1 < i + 1
  BY <1>1
<1>4. For(q[1], s, "destroy") /\ 1 \in 1 .. Len(q) /\ q[1].surface = s
  BY <1>1 DEF For
<1>5. ~live
  BY <1>4 DEF Told
<1>6. \A i \in 1 .. Len(p) : ~For(p[i], s, "create") /\ ~For(p[i], s, "commit")
  BY <1>2, <1>4 DEF Told
<1> QED
  BY <1>5, <1>6 DEF Told, p

(***************************************************************************)
(* The shell's stack.                                                      *)
(***************************************************************************)
On(q) == {q[i] : i \in DOMAIN q} \ {NoId}

\* Where what is at place i now was before the window at k left.
Was(i, k) == IF i < k THEN i ELSE i + 1

LEMMA Shift ==
    ASSUME NEW n \in Nat, NEW k \in 1 .. n, NEW i \in 1 .. n - 1
    PROVE  /\ Was(i, k) \in 1 .. n /\ Was(i, k) # k
           /\ \A j \in 1 .. n - 1 : Was(i, k) = Was(j, k) => i = j
BY DEF Was

LEMMA RemoveEffect ==
    ASSUME NEW q \in Stacks, NEW s \in Surfaces, s \in On(q)
    PROVE  /\ Remove(q, s) \in Stacks
           /\ On(Remove(q, s)) = On(q) \ {s}
           /\ \A i \in 1 .. Len(Remove(q, s)) : Remove(q, s)[i] # s
<1> DEFINE k == CHOOSE i \in DOMAIN q : q[i] = s
           p == Remove(q, s)
<1>1. q \in Seq(Surfaces \cup {NoId}) /\ Len(q) \in Nat /\ DOMAIN q = 1 .. Len(q)
  BY DEF Stacks
<1>2. k \in 1 .. Len(q) /\ q[k] = s
  BY <1>1 DEF On
<1>3. s # NoId
  BY RootlessAssumption
<1>4. p = [i \in 1 .. Len(q) - 1 |-> IF i < k THEN q[i] ELSE q[i + 1]]
  BY DEF Remove
<1> HIDE DEF k, p
<1>5. p \in Seq(Surfaces \cup {NoId}) /\ Len(p) = Len(q) - 1 /\ DOMAIN p = 1 .. Len(p)
  <2>1. p \in [1 .. Len(q) - 1 -> Surfaces \cup {NoId}]
    BY <1>1, <1>2, <1>4
  <2>2. Len(q) - 1 \in Nat
    BY <1>1, <1>2
  <2> QED
    BY <2>1, <2>2
<1>6. \A i \in 1 .. Len(p) : Was(i, k) \in 1 .. Len(q) /\ Was(i, k) # k /\ p[i] = q[Was(i, k)]
  <2> SUFFICES ASSUME NEW i \in 1 .. Len(p)
               PROVE  Was(i, k) \in 1 .. Len(q) /\ Was(i, k) # k /\ p[i] = q[Was(i, k)]
    OBVIOUS
  <2>1. i \in 1 .. Len(q) - 1
    BY <1>5
  <2>2. p[i] = q[Was(i, k)]
    BY <1>4, <2>1 DEF Was
  <2> QED
    BY <1>1, <1>2, <2>1, <2>2, Shift
<1>7. \A j \in 1 .. Len(q) : j # k => \E i \in 1 .. Len(p) : p[i] = q[j]
  <2> SUFFICES ASSUME NEW j \in 1 .. Len(q), j # k PROVE \E i \in 1 .. Len(p) : p[i] = q[j]
    OBVIOUS
  <2>1. CASE j < k
    BY SMTT(30), <1>1, <1>2, <1>4, <1>5, <2>1
  <2>2. CASE j > k
    <3>1. j - 1 \in 1 .. Len(p) /\ ~(j - 1 < k) /\ j - 1 + 1 = j
      BY <1>1, <1>2, <1>5, <2>2
    <3>2. p[j - 1] = q[j]
      BY <1>4, <1>5, <3>1
    <3> QED
      BY <3>1, <3>2
  <2> QED
    BY <1>2, <2>1, <2>2
<1>8. \A i, j \in 1 .. Len(q) : q[i] = q[j] => i = j
  BY DEF Stacks
<1>9. \A i, j \in 1 .. Len(p) : p[i] = p[j] => i = j
  <2> SUFFICES ASSUME NEW i \in 1 .. Len(p), NEW j \in 1 .. Len(p), p[i] = p[j] PROVE i = j
    OBVIOUS
  <2>1. Was(i, k) = Was(j, k)
    BY <1>6, <1>8
  <2>2. i \in 1 .. Len(q) - 1 /\ j \in 1 .. Len(q) - 1
    BY <1>5
  <2> QED
    BY <1>1, <1>2, <2>1, <2>2, Shift
<1>10. \E i \in 1 .. Len(p) : p[i] = NoId
  <2>1. PICK j \in 1 .. Len(q) : q[j] = NoId
    BY DEF Stacks
  <2> QED
    BY <1>2, <1>3, <1>7, <2>1
<1>11. \A i \in 1 .. Len(p) : p[i] # s
  BY <1>2, <1>6, <1>8
<1>12. On(p) = On(q) \ {s}
  <2>1. ASSUME NEW x \in On(p) PROVE x \in On(q) \ {s}
    BY <1>1, <1>5, <1>6, <1>11, <2>1 DEF On
  <2>2. ASSUME NEW x \in On(q) \ {s} PROVE x \in On(p)
    BY <1>1, <1>2, <1>5, <1>7, <2>2 DEF On
  <2> QED
    BY <2>1, <2>2
<1> QED
  BY <1>5, <1>9, <1>10, <1>11, <1>12 DEF Stacks, p

LEMMA PushEffect ==
    ASSUME NEW q \in Stacks, NEW s \in Surfaces, s \notin On(q)
    PROVE  /\ Append(q, s) \in Stacks
           /\ On(Append(q, s)) = On(q) \cup {s}
<1> DEFINE p == Append(q, s)
<1>1. q \in Seq(Surfaces \cup {NoId}) /\ DOMAIN q = 1 .. Len(q) /\ s \in Surfaces \cup {NoId}
  BY DEF Stacks
<1>2. /\ p \in Seq(Surfaces \cup {NoId}) /\ Len(p) = Len(q) + 1 /\ Len(q) \in Nat
      /\ \A i \in 1 .. Len(q) : p[i] = q[i]
      /\ p[Len(q) + 1] = s
  BY <1>1, AtEnd
<1>3. DOMAIN p = 1 .. Len(p)
  BY <1>2
<1> HIDE DEF p
<1>4. s # NoId
  BY RootlessAssumption
<1>5. \A i \in 1 .. Len(q) : q[i] # s
  BY <1>1, <1>4 DEF On
<1>6. \A i \in 1 .. Len(p) : i \in 1 .. Len(q) \/ i = Len(q) + 1
  BY <1>2
<1>7. \A i \in 1 .. Len(q) : i \in 1 .. Len(p)
  BY <1>2
<1>8. \A i, j \in 1 .. Len(p) : p[i] = p[j] => i = j
  BY <1>2, <1>5, <1>6 DEF Stacks
<1>9. \E i \in 1 .. Len(p) : p[i] = NoId
  BY <1>2, <1>7 DEF Stacks
<1>10. On(p) = On(q) \cup {s}
  <2>1. Len(q) + 1 \in 1 .. Len(p)
    BY <1>2
  <2> QED
    BY <1>1, <1>2, <1>3, <1>4, <1>6, <1>7, <2>1 DEF On
<1> QED
  BY <1>2, <1>8, <1>9, <1>10 DEF Stacks, p

\* The user brings a window, or the desktop itself, to the front.
LEMMA RaiseEffect ==
    ASSUME NEW q \in Stacks, NEW s \in Surfaces \cup {NoId}, s \in On(q) \cup {NoId}
    PROVE  /\ Append(Remove(q, s), s) \in Stacks
           /\ On(Append(Remove(q, s), s)) = On(q)
<1>1. CASE s \in Surfaces
  <2>1. s # NoId
    BY <1>1, RootlessAssumption
  <2>2. Remove(q, s) \in Stacks /\ On(Remove(q, s)) = On(q) \ {s}
    BY <1>1, <2>1, RemoveEffect
  <2> QED
    BY <1>1, <2>1, <2>2, PushEffect
<1>2. CASE s = NoId
  <2> DEFINE k == CHOOSE i \in DOMAIN q : q[i] = s
             r == Remove(q, s)
             p == Append(r, s)
  <2>1. q \in Seq(Surfaces \cup {NoId}) /\ Len(q) \in Nat /\ DOMAIN q = 1 .. Len(q)
    BY DEF Stacks
  <2>2. k \in 1 .. Len(q) /\ q[k] = s
    <3>1. \E i \in 1 .. Len(q) : q[i] = s
      BY <1>2 DEF Stacks
    <3> QED
      BY <2>1, <3>1
  <2>3. r = [i \in 1 .. Len(q) - 1 |-> IF i < k THEN q[i] ELSE q[i + 1]]
    BY DEF Remove
  <2> HIDE DEF k, r
  <2>4. r \in Seq(Surfaces \cup {NoId}) /\ Len(r) = Len(q) - 1
    <3>1. r \in [1 .. Len(q) - 1 -> Surfaces \cup {NoId}]
      BY <2>1, <2>2, <2>3
    <3>2. Len(q) - 1 \in Nat
      BY <2>1, <2>2
    <3> QED
      BY <3>1, <3>2
  <2>5. /\ p \in Seq(Surfaces \cup {NoId}) /\ Len(p) = Len(q)
        /\ \A i \in 1 .. Len(q) - 1 : p[i] = r[i]
        /\ p[Len(q)] = s
    <3>1. /\ p \in Seq(Surfaces \cup {NoId}) /\ Len(p) = Len(r) + 1
          /\ \A i \in 1 .. Len(r) : p[i] = r[i]
          /\ p[Len(r) + 1] = s
      BY <2>4, AtEnd
    <3> QED
      BY <2>1, <2>4, <3>1
  <2>6. DOMAIN p = 1 .. Len(q)
    BY <2>5
  <2> HIDE DEF p
  <2>a. \A i \in 1 .. Len(q) : i = Len(q) \/ i \in 1 .. Len(q) - 1
    <3> DEFINE n == Len(q)
    <3>1. n \in Nat
      BY <2>1
    <3> HIDE DEF n
    <3>2. \A i \in 1 .. n : i = n \/ i \in 1 .. n - 1
      BY <3>1
    <3> QED
      BY <3>2 DEF n
  <2>b. \A i \in 1 .. Len(q) - 1 : p[i] = q[Was(i, k)] /\ Was(i, k) \in 1 .. Len(q) /\ Was(i, k) # k
    <3> SUFFICES ASSUME NEW i \in 1 .. Len(q) - 1
                 PROVE  p[i] = q[Was(i, k)] /\ Was(i, k) \in 1 .. Len(q) /\ Was(i, k) # k
      OBVIOUS
    <3>1. p[i] = q[Was(i, k)]
      BY <2>3, <2>5 DEF Was
    <3> QED
      BY <2>1, <2>2, <3>1, Shift
  <2>7. \A i \in 1 .. Len(q) : \E j \in 1 .. Len(q) : p[i] = q[j]
    BY <2>2, <2>5, <2>a, <2>b
  <2>8. \A j \in 1 .. Len(q) : \E i \in 1 .. Len(q) : p[i] = q[j]
    <3> SUFFICES ASSUME NEW j \in 1 .. Len(q) PROVE \E i \in 1 .. Len(q) : p[i] = q[j]
      OBVIOUS
    <3>1. CASE j = k
      BY <2>1, <2>2, <2>5, <3>1
    <3>2. CASE j < k
      <4>1. j \in 1 .. Len(q) - 1
        BY <2>1, <2>2, <3>2
      <4>2. p[j] = q[j]
        BY <2>3, <2>5, <3>2, <4>1
      <4> QED
        BY <4>2
    <3>3. CASE j > k
      <4>1. j - 1 \in 1 .. Len(q) - 1 /\ ~(j - 1 < k) /\ j - 1 + 1 = j
        BY <2>1, <2>2, <3>3
      <4>2. p[j - 1] = q[j]
        BY <2>3, <2>5, <4>1
      <4> QED
        BY <2>1, <4>1, <4>2
    <3> QED
      BY <2>2, <3>1, <3>2, <3>3
  <2>9. ASSUME NEW i \in 1 .. Len(q), NEW j \in 1 .. Len(q), p[i] = p[j] PROVE i = j
    <3>0. \A a, b \in 1 .. Len(q) : q[a] = q[b] => a = b
      BY DEF Stacks
    <3>1. CASE i = Len(q) \/ j = Len(q)
      BY <2>2, <2>5, <2>9, <2>a, <2>b, <3>0, <3>1
    <3>2. CASE i \in 1 .. Len(q) - 1 /\ j \in 1 .. Len(q) - 1
      <4>1. Was(i, k) = Was(j, k)
        BY <2>9, <2>b, <3>0, <3>2
      <4> QED
        BY <2>1, <2>2, <3>2, <4>1, Shift
    <3> QED
      BY <2>a, <3>1, <3>2
  <2>10. \E i \in 1 .. Len(q) : p[i] = NoId
    BY <2>2, <2>8, <1>2
  <2>11. On(p) = On(q)
    <3>1. ASSUME NEW x \in On(p) PROVE x \in On(q)
      BY <2>1, <2>6, <2>7, <3>1 DEF On
    <3>2. ASSUME NEW x \in On(q) PROVE x \in On(p)
      BY <2>1, <2>6, <2>8, <3>2 DEF On
    <3> QED
      BY <3>1, <3>2
  <2> QED
    BY <2>5, <2>9, <2>10, <2>11 DEF Stacks, p, r
<1> QED
  BY <1>1, <1>2

(***************************************************************************)
(* The invariant, of the X server x, the manager's table t and the shell h.*)
(***************************************************************************)
XShape(x) == x = [win |-> x.win, focus |-> x.focus, events |-> x.events, requests |-> x.requests]
ShellShape(h) == h = [surf |-> h.surf, stack |-> h.stack, keyboard |-> h.keyboard]

TypesFit(x, t, h) ==
    /\ XShape(x) /\ ShellShape(h)
    /\ x.win \in [Toplevels -> Windows]
    /\ x.events \in Seq(News) /\ x.requests \in Seq(Calls)
    /\ t \in [DOMAIN t -> Entries] /\ DOMAIN t \subseteq Toplevels
    /\ h.surf \in [DOMAIN h.surf -> ShellSurfaces] /\ DOMAIN h.surf \subseteq Surfaces
    /\ h.stack \in Stacks /\ On(h.stack) \subseteq DOMAIN h.surf

\* What is still to be heard of surfaces and titles, and of drawing.
Talk(q) == {q[i] : i \in {j \in 1 .. Len(q) : q[j].type \in {"surface", "property"}}}
Commits(q) == {q[i].surface : i \in {j \in 1 .. Len(q) : q[j].type = "commit"}}

NewsFit(x, t) == \A w \in Toplevels : Orderly(x.events, w, x.win[w].phase, w \in DOMAIN t)

Living(win, s) == \E w \in Toplevels : win[w].surface = s

CallsFit(x, f) == \A s \in Surfaces : Told(x.requests, s, s \in DOMAIN f, Living(x.win, s))

\* The manager redirects the windows it believes it redirects.
RedirectsFit(win, t) ==
    \A w \in Toplevels :
      IF win[w].phase = "gone" THEN win[w].redirected = "no"
      ELSE win[w].redirected = "xwm" <=> w \in DOMAIN t /\ t[w].redirected = "xwm"

\* Only a mapped window has a surface, and what it drew is under way or there.
DrawnFit(x, f) ==
    \A w \in Toplevels :
      LET s == x.win[w].surface
      IN  /\ s # NoId => x.win[w].phase = "mapped"
          /\ x.win[w].drawn =>
               /\ s # NoId
               /\ s \in Commits(x.requests) \/ (s \in DOMAIN f /\ f[s].pixels)

\* The surface of one window is nowhere taken for another's.
OwnersFit(x, t, f) ==
    \A w \in Toplevels :
      LET s == x.win[w].surface
      IN  s # NoId =>
            \A o \in Toplevels \ {w} :
              /\ x.win[o].surface # s
              /\ o \in DOMAIN t => t[o].surface # s
              /\ s \in DOMAIN f => f[s].xwindow # o
              /\ \A n \in Talk(x.events) : Of(n, o, {"surface"}) => n.arg # s

\* A window that can be shown is shown.
ShownFit(win, h) ==
    \A w \in Toplevels :
      LET s == win[w].surface
      IN  s \in DOMAIN h.surf /\ h.surf[s].role = "xwayland" /\ h.surf[s].pixels => s \in On(h.stack)

\* What the manager and the shell say of one mapped window.
Matches(x, e, f, w) ==
    LET s == x.win[w].surface
    IN  /\ e.surface \in {NoId, s}
        /\ \A n \in Talk(x.events) : Of(n, w, {"surface"}) => n.arg = s
        /\ s # NoId => e.surface = s \/ \E n \in Talk(x.events) : Of(n, w, {"surface"})
        /\ e.associated =>
             /\ e.surface # NoId /\ s \in DOMAIN f
             /\ f[s].role = "xwayland" /\ f[s].xwindow = w
             /\ \A r \in DOMAIN f : f[r].role = "xwayland" /\ f[r].xwindow = w => r = s
             /\ f[s].title = x.win[w].title \/ \E n \in Talk(x.events) : Of(n, w, {"property"})
        /\ e.fullscreen <=> s \in DOMAIN f /\ f[s].fullscreen
EntriesFit(x, t, f) == \A w \in Toplevels : x.win[w].phase = "mapped" => Matches(x, t[w], f, w)

Fits(x, t, h) ==
    /\ TypesFit(x, t, h) /\ NewsFit(x, t) /\ CallsFit(x, h.surf) /\ RedirectsFit(x.win, t)
    /\ DrawnFit(x, h.surf) /\ OwnersFit(x, t, h.surf) /\ ShownFit(x.win, h)
    /\ EntriesFit(x, t, h.surf)
RootlessInv == Fits(xd, table, shell)

\* A world of the helpers.
Fine(v) == /\ v = [xd |-> v.xd, table |-> v.table, shell |-> v.shell, ok |-> v.ok]
           /\ Fits(v.xd, v.table, v.shell)

-----------------------------------------------------------------------------
(***************************************************************************)
(* What the helpers leave of a world.                                      *)
(***************************************************************************)
Shaped(v) == /\ v = [xd |-> v.xd, table |-> v.table, shell |-> v.shell, ok |-> v.ok]
             /\ XShape(v.xd) /\ ShellShape(v.shell)
SameX(v, u) == u.xd.win = v.xd.win /\ u.xd.events = v.xd.events /\ u.xd.requests = v.xd.requests

LEMMA FineIsShaped == ASSUME NEW v, Fine(v) PROVE Shaped(v)
BY DEF Fine, Fits, TypesFit, Shaped

\* A world with another X server, another table, another shell.
LEMMA NewX ==
    ASSUME NEW v, Shaped(v), NEW x, XShape(x)
    PROVE  LET u == [v EXCEPT !.xd = x]
           IN  Shaped(u) /\ u.xd = x /\ u.table = v.table /\ u.shell = v.shell /\ u.ok = v.ok
BY DEF Shaped
LEMMA NewTable ==
    ASSUME NEW v, Shaped(v), NEW t
    PROVE  LET u == [v EXCEPT !.table = t]
           IN  Shaped(u) /\ u.xd = v.xd /\ u.table = t /\ u.shell = v.shell /\ u.ok = v.ok
BY DEF Shaped
LEMMA NewShell ==
    ASSUME NEW v, Shaped(v), NEW h, ShellShape(h)
    PROVE  LET u == [v EXCEPT !.shell = h]
           IN  Shaped(u) /\ u.xd = v.xd /\ u.table = v.table /\ u.shell = h /\ u.ok = v.ok
BY DEF Shaped
LEMMA NewOk ==
    ASSUME NEW v, Shaped(v), NEW o
    PROVE  LET u == [v EXCEPT !.ok = o]
           IN  Shaped(u) /\ u.xd = v.xd /\ u.table = v.table /\ u.shell = v.shell /\ u.ok = o
BY DEF Shaped

LEMMA NewStack ==
    ASSUME NEW h, ShellShape(h), NEW q
    PROVE  LET g == [h EXCEPT !.stack = q]
           IN  ShellShape(g) /\ g.surf = h.surf /\ g.stack = q
BY DEF ShellShape
LEMMA NewSurf ==
    ASSUME NEW h, ShellShape(h), NEW f
    PROVE  LET g == [h EXCEPT !.surf = f]
           IN  ShellShape(g) /\ g.surf = f /\ g.stack = h.stack
BY DEF ShellShape
LEMMA NewFocus ==
    ASSUME NEW x, XShape(x), NEW w
    PROVE  LET y == [x EXCEPT !.focus = w]
           IN  /\ XShape(y) /\ y.win = x.win /\ y.events = x.events /\ y.requests = x.requests
BY DEF XShape

\* The focus is not part of the invariant.
LEMMA FocusEffect ==
    ASSUME NEW v, Shaped(v), NEW s
    PROVE  LET u == ChangeFocus(v, s)
           IN  /\ Shaped(u) /\ SameX(v, u) /\ u.table = v.table
               /\ u.shell.surf = v.shell.surf /\ u.shell.stack = v.shell.stack
<1> DEFINE Kept(u) == /\ Shaped(u) /\ SameX(v, u) /\ u.table = v.table
                      /\ u.shell.surf = v.shell.surf /\ u.shell.stack = v.shell.stack
           a == [v EXCEPT !.shell.keyboard = s]
<1>1. Kept(v)
  BY DEF SameX
<1>2. Kept(a)
  BY DEF Shaped, SameX, XShape, ShellShape
<1>3. ASSUME NEW w PROVE Kept(FocusNative(a, w))
  <2>1. Kept([a EXCEPT !.xd.focus = w]) /\ Kept([a EXCEPT !.ok = FALSE])
    <3> HIDE DEF a
    <3> DEFINE y == [a.xd EXCEPT !.focus = w]
    <3>1. [a EXCEPT !.xd.focus = w] = [a EXCEPT !.xd = y]
      BY <1>2 DEF Shaped
    <3>2. XShape(y) /\ y.win = a.xd.win /\ y.events = a.xd.events /\ y.requests = a.xd.requests
      BY <1>2, NewFocus DEF Shaped
    <3> HIDE DEF y
    <3>3. Kept([a EXCEPT !.xd = y]) /\ Kept([a EXCEPT !.ok = FALSE])
      BY <1>2, <3>2, NewX, NewOk DEF SameX
    <3> QED
      BY <3>1, <3>3
  <2> HIDE DEF Kept, a
  <2> QED
    BY <2>1 DEF FocusNative
<1> HIDE DEF Kept
<1>4. Kept(ChangeFocus(v, s))
  BY <1>1, <1>2, <1>3 DEF ChangeFocus
<1> QED
  BY <1>4 DEF Kept

LEMMA MapEffect ==
    ASSUME NEW v, Shaped(v), NEW s \in DOMAIN v.shell.surf, v.shell.stack \in Stacks,
           DOMAIN v.shell.surf \subseteq Surfaces
    PROVE  LET u == MapSurface(v, s)
           IN  /\ Shaped(u) /\ u.xd = v.xd /\ u.table = v.table
               /\ u.shell.surf = v.shell.surf /\ u.shell.stack \in Stacks
               /\ On(u.shell.stack) =
                    IF v.shell.surf[s].role = "xwayland" /\ v.shell.surf[s].pixels
                    THEN On(v.shell.stack) \cup {s} ELSE On(v.shell.stack)
<1>1. Shown(v.shell) = On(v.shell.stack)
  BY DEF Shown, On
<1>2. CASE v.shell.surf[s].role = "xwayland" /\ v.shell.surf[s].pixels /\ s \notin On(v.shell.stack)
  <2> DEFINE u == [v EXCEPT !.shell.stack = Append(@, s)]
  <2>1. MapSurface(v, s) = u
    BY <1>1, <1>2 DEF MapSurface
  <2>2. Append(v.shell.stack, s) \in Stacks
        /\ On(Append(v.shell.stack, s)) = On(v.shell.stack) \cup {s}
    BY <1>2, PushEffect
  <2>3. /\ Shaped(u) /\ u.xd = v.xd /\ u.table = v.table /\ u.shell.surf = v.shell.surf
        /\ u.shell.stack = Append(v.shell.stack, s)
    <3> DEFINE h == [v.shell EXCEPT !.stack = Append(@, s)]
    <3>1. u = [v EXCEPT !.shell = h]
      BY DEF Shaped
    <3>2. ShellShape(h) /\ h.surf = v.shell.surf /\ h.stack = Append(v.shell.stack, s)
      BY NewStack DEF Shaped
    <3> HIDE DEF h, u
    <3> QED
      BY <3>1, <3>2, NewShell
  <2> HIDE DEF u
  <2> QED
    BY <1>2, <2>1, <2>2, <2>3
<1>3. CASE ~(v.shell.surf[s].role = "xwayland" /\ v.shell.surf[s].pixels /\ s \notin On(v.shell.stack))
  <2>1. MapSurface(v, s) = v
    BY <1>1, <1>3 DEF MapSurface
  <2>2. On(v.shell.stack) = IF v.shell.surf[s].role = "xwayland" /\ v.shell.surf[s].pixels
                            THEN On(v.shell.stack) \cup {s} ELSE On(v.shell.stack)
    BY <1>3
  <2> QED
    BY <2>1, <2>2
<1> QED
  BY <1>2, <1>3

LEMMA UnmapEffect ==
    ASSUME NEW v, Shaped(v), NEW s \in Surfaces, v.shell.stack \in Stacks,
           v.shell.surf \in [DOMAIN v.shell.surf -> ShellSurfaces]
    PROVE  LET u == UnmapSurface(v, s)
           IN  /\ Shaped(u) /\ SameX(v, u) /\ u.table = v.table
               /\ u.shell.stack \in Stacks /\ On(u.shell.stack) = On(v.shell.stack) \ {s}
               /\ u.shell.surf \in [DOMAIN v.shell.surf -> ShellSurfaces]
               /\ \A r \in DOMAIN v.shell.surf :
                    /\ r # s => u.shell.surf[r] = v.shell.surf[r]
                    /\ \A k \in {"role", "xwindow", "pixels", "title"} :
                         u.shell.surf[r][k] = v.shell.surf[r][k]
<1>1. Shown(v.shell) = On(v.shell.stack)
  BY DEF Shown, On
<1>2. CASE s \notin On(v.shell.stack)
  <2>1. UnmapSurface(v, s) = v /\ On(v.shell.stack) \ {s} = On(v.shell.stack)
    BY <1>1, <1>2 DEF UnmapSurface
  <2> QED
    BY <2>1 DEF SameX
<1>3. CASE s \in On(v.shell.stack)
  <2> DEFINE a == IF v.shell.keyboard = s THEN ChangeFocus(v, NoId) ELSE v
             u == [a EXCEPT !.ok = v.ok, !.shell.stack = Remove(@, s), !.shell.surf[s].fullscreen = FALSE]
             g == [v.shell.surf EXCEPT ![s].fullscreen = FALSE]
  <2>1. UnmapSurface(v, s) = u
    BY <1>1, <1>3 DEF UnmapSurface
  <2>2. /\ Shaped(a) /\ SameX(v, a) /\ a.table = v.table
        /\ a.shell.surf = v.shell.surf /\ a.shell.stack = v.shell.stack
    <3>1. CASE v.shell.keyboard = s
      <4>1. a = ChangeFocus(v, NoId)
        BY <3>1
      <4> QED
        BY <4>1, FocusEffect
    <3>2. CASE v.shell.keyboard # s
      BY <3>2 DEF SameX
    <3> QED
      BY <3>1, <3>2
  <2>3. Remove(v.shell.stack, s) \in Stacks /\ On(Remove(v.shell.stack, s)) = On(v.shell.stack) \ {s}
    BY <1>3, RemoveEffect
  <2> HIDE DEF a
  <2>4. /\ Shaped(u) /\ u.xd = a.xd /\ u.table = a.table
        /\ u.shell.stack = Remove(v.shell.stack, s) /\ u.shell.surf = g
    <3> DEFINE b == [a EXCEPT !.ok = v.ok]
               h == [a.shell EXCEPT !.stack = Remove(@, s)]
               k == [h EXCEPT !.surf = g]
    <3>1. Shaped(b) /\ b.xd = a.xd /\ b.table = a.table /\ b.shell = a.shell
      BY <2>2, NewOk
    <3>2. ShellShape(h) /\ h.surf = v.shell.surf /\ h.stack = Remove(v.shell.stack, s)
      BY <2>2, NewStack DEF Shaped
    <3>3. ShellShape(k) /\ k.surf = g /\ k.stack = h.stack
      <4> HIDE DEF h, g
      <4> QED
        BY <3>2, NewSurf
    <3>4. u = [b EXCEPT !.shell = k]
      <4>1. u = [[b EXCEPT !.shell = h] EXCEPT !.shell.surf[s].fullscreen = FALSE]
        BY <3>1 DEF Shaped
      <4>2. [b EXCEPT !.shell = h].shell = h
        BY <3>1, <3>2, NewShell
      <4>3. [h EXCEPT !.surf[s].fullscreen = FALSE] = k
        BY <3>2 DEF ShellShape
      <4> HIDE DEF b, h, k, g, u
      <4> QED
        BY <3>1, <4>1, <4>2, <4>3 DEF Shaped
    <3> HIDE DEF b, h, k, g, u
    <3> QED
      BY <3>1, <3>2, <3>3, <3>4, NewShell
  <2>5. /\ g \in [DOMAIN v.shell.surf -> ShellSurfaces]
        /\ \A r \in DOMAIN v.shell.surf :
             /\ r # s => g[r] = v.shell.surf[r]
             /\ g[r].role = v.shell.surf[r].role /\ g[r].xwindow = v.shell.surf[r].xwindow
             /\ g[r].pixels = v.shell.surf[r].pixels /\ g[r].title = v.shell.surf[r].title
    BY DEF ShellSurfaces
  <2> HIDE DEF u, g
  <2>6. \A r \in DOMAIN v.shell.surf : \A k \in {"role", "xwindow", "pixels", "title"} :
           g[r][k] = v.shell.surf[r][k]
    BY <2>5
  <2> QED
    BY <2>1, <2>2, <2>3, <2>4, <2>5, <2>6 DEF SameX
<1> QED
  BY <1>2, <1>3

LEMMA RememberedEffect ==
    ASSUME NEW v, Shaped(v), NEW w \in Toplevels
    PROVE  LET u == Remembered(v, w)
           IN  /\ Shaped(u) /\ u.xd = v.xd /\ u.shell = v.shell /\ u.ok = v.ok
               /\ w \in DOMAIN v.table => u = v
               /\ u.table = v.table \/ (w \notin DOMAIN v.table /\ u.table = With(v.table, w, Entry))
<1>1. CASE w \in DOMAIN v.table \/ Cardinality(DOMAIN v.table) >= MaxWindows
  BY <1>1 DEF Remembered
<1>2. CASE ~(w \in DOMAIN v.table \/ Cardinality(DOMAIN v.table) >= MaxWindows)
  <2> DEFINE t == With(v.table, w, Entry)
  <2>1. Remembered(v, w) = [v EXCEPT !.table = t]
    BY <1>2 DEF Remembered
  <2> HIDE DEF t
  <2> QED
    BY <1>2, <2>1, NewTable DEF t
<1> QED
  BY <1>1, <1>2

\* The association of w with its surface s, in the table a and the shell g.
Associates(x, t, h, w, s, a, g) ==
    /\ w \in DOMAIN t /\ s \in DOMAIN h.surf
    /\ t[w].surface = s /\ h.surf[s].xwindow \in {NoId, w}
    /\ \A r \in DOMAIN h.surf : h.surf[r].role = "xwayland" /\ h.surf[r].xwindow = w => r = s
    /\ DOMAIN a = DOMAIN t /\ a \in [DOMAIN a -> Entries]
    /\ a[w] = [t[w] EXCEPT !.associated = TRUE] /\ \A o \in DOMAIN t : o # w => a[o] = t[o]
    /\ ShellShape(g) /\ g.stack \in Stacks /\ g.surf \in [DOMAIN h.surf -> ShellSurfaces]
    /\ \A r \in DOMAIN h.surf : r # s => g.surf[r] = h.surf[r]
    /\ g.surf[s] = [h.surf[s] EXCEPT !.role = "xwayland", !.xwindow = w, !.title = x.win[w].title]
    /\ On(g.stack) = IF g.surf[s].pixels THEN On(h.stack) \cup {s} ELSE On(h.stack)

LEMMA AssociationFits ==
    ASSUME NEW x, NEW t, NEW h, NEW w, NEW s, NEW a, NEW g,
           Fits(x, t, h), Associates(x, t, h, w, s, a, g)
    PROVE  Fits(x, a, g)
<1> USE DEF Associates
<1>1. /\ TypesFit(x, t, h) /\ NewsFit(x, t) /\ CallsFit(x, h.surf) /\ RedirectsFit(x.win, t)
      /\ DrawnFit(x, h.surf) /\ OwnersFit(x, t, h.surf) /\ ShownFit(x.win, h)
      /\ EntriesFit(x, t, h.surf)
  BY DEF Fits
<1>2. /\ DOMAIN t \subseteq Toplevels /\ DOMAIN h.surf \subseteq Surfaces
      /\ t \in [DOMAIN t -> Entries] /\ h.surf \in [DOMAIN h.surf -> ShellSurfaces]
      /\ On(h.stack) \subseteq DOMAIN h.surf
  BY <1>1 DEF TypesFit
<1>3. /\ DOMAIN g.surf = DOMAIN h.surf
      /\ g.surf[s].role = "xwayland" /\ g.surf[s].xwindow = w /\ g.surf[s].title = x.win[w].title
      /\ g.surf[s].pixels = h.surf[s].pixels /\ g.surf[s].fullscreen = h.surf[s].fullscreen
  BY <1>2 DEF ShellSurfaces
<1>4. /\ a[w].associated /\ a[w].surface = s /\ a[w].redirected = t[w].redirected
      /\ a[w].fullscreen = t[w].fullscreen
  BY <1>2 DEF Entries
<1>5. s \in Surfaces /\ s # NoId /\ w \in Toplevels /\ NoId \notin Toplevels /\ NoId \notin Surfaces
  BY <1>2, RootlessAssumption
<1>6. TypesFit(x, a, g)
  BY <1>1, <1>2, <1>3 DEF TypesFit
<1>7. NewsFit(x, a) /\ CallsFit(x, g.surf)
  BY <1>1, <1>3 DEF NewsFit, CallsFit
<1>8. RedirectsFit(x.win, a)
  <2>1. \A o \in DOMAIN t : a[o].redirected = t[o].redirected
    BY <1>4
  <2> QED
    BY <1>1, <2>1 DEF RedirectsFit
<1>9. DrawnFit(x, g.surf)
  BY ZenonT(30), <1>1, <1>3 DEF DrawnFit
<1>10. OwnersFit(x, a, g.surf)
  <2> SUFFICES ASSUME NEW o \in Toplevels, x.win[o].surface # NoId, NEW p \in Toplevels \ {o}
               PROVE  LET r == x.win[o].surface
                      IN  /\ x.win[p].surface # r
                          /\ p \in DOMAIN a => a[p].surface # r
                          /\ r \in DOMAIN g.surf => g.surf[r].xwindow # p
                          /\ \A n \in Talk(x.events) : Of(n, p, {"surface"}) => n.arg # r
    BY DEF OwnersFit
  <2> DEFINE r == x.win[o].surface
  <2>1. /\ x.win[p].surface # r
        /\ p \in DOMAIN t => t[p].surface # r
        /\ r \in DOMAIN h.surf => h.surf[r].xwindow # p
        /\ \A n \in Talk(x.events) : Of(n, p, {"surface"}) => n.arg # r
    BY <1>1 DEF OwnersFit
  <2>2. p \in DOMAIN a => a[p].surface = t[p].surface
    BY <1>4
  <2>3. r = s => p # w
    BY <2>1
  <2> HIDE DEF r
  <2>4. r \in DOMAIN g.surf => g.surf[r].xwindow # p
    BY ZenonT(30), <1>3, <2>1, <2>3
  <2> QED
    BY <2>1, <2>2, <2>4 DEF r
<1>11. ShownFit(x.win, g)
  <2> SUFFICES ASSUME NEW o \in Toplevels, x.win[o].surface \in DOMAIN g.surf,
                      g.surf[x.win[o].surface].role = "xwayland", g.surf[x.win[o].surface].pixels
               PROVE  x.win[o].surface \in On(g.stack)
    BY DEF ShownFit
  <2>1. CASE x.win[o].surface = s
    BY <2>1
  <2>2. CASE x.win[o].surface # s
    <3>1. x.win[o].surface \in On(h.stack)
      BY <1>1, <1>3, <2>2 DEF ShownFit
    <3> QED
      BY <3>1
  <2> QED
    BY <2>1, <2>2
<1>12. EntriesFit(x, a, g.surf)
  <2> SUFFICES ASSUME NEW o \in Toplevels, x.win[o].phase = "mapped"
               PROVE  Matches(x, a[o], g.surf, o)
    BY DEF EntriesFit
  <2>1. Matches(x, t[o], h.surf, o) /\ o \in DOMAIN t
    BY <1>1 DEF EntriesFit, NewsFit, Orderly
  <2>2. CASE o = w
    <3>1. x.win[w].surface = s
      BY <1>5, <2>1, <2>2 DEF Matches
    <3>2. \A r \in DOMAIN g.surf : g.surf[r].role = "xwayland" /\ g.surf[r].xwindow = w => r = s
      BY <1>3
    <3> QED
      BY <1>3, <1>4, <1>5, <2>1, <2>2, <3>1, <3>2 DEF Matches
  <2>3. CASE o # w
    <3>1. a[o] = t[o]
      BY <2>1, <2>3
    <3>2. h.surf[s].xwindow # o /\ g.surf[s].xwindow # o
      BY <1>3, <1>5, <2>3
    <3> DEFINE p == x.win[o].surface
    <3>3. t[o].associated => p # s
      BY <2>1, <3>2 DEF Matches
    <3>4. p \in DOMAIN g.surf /\ g.surf[p].fullscreen <=> p \in DOMAIN h.surf /\ h.surf[p].fullscreen
      BY <1>3
    <3>5. t[o].associated =>
             /\ p \in DOMAIN g.surf /\ g.surf[p] = h.surf[p]
             /\ \A r \in DOMAIN g.surf : g.surf[r].role = "xwayland" /\ g.surf[r].xwindow = o => r = p
      <4>1. t[o].associated => p \in DOMAIN h.surf
        BY <2>1 DEF Matches
      <4>2. ASSUME t[o].associated, NEW r \in DOMAIN g.surf,
                   g.surf[r].role = "xwayland", g.surf[r].xwindow = o
            PROVE  r = p
        <5>1. r \in DOMAIN h.surf /\ h.surf[r] = g.surf[r]
          BY <1>3, <3>2, <4>2
        <5> QED
          BY <2>1, <4>2, <5>1 DEF Matches
      <4> HIDE DEF p
      <4> QED
        BY <1>3, <3>3, <4>1, <4>2
    <3> QED
      BY <2>1, <3>1, <3>4, <3>5 DEF Matches
  <2> QED
    BY <2>2, <2>3
<1> QED
  BY <1>6, <1>7, <1>8, <1>9, <1>10, <1>11, <1>12 DEF Fits

\* An association that is tried changes nothing, or succeeds.
LEMMA AssociatedEffect ==
    ASSUME NEW v, Fine(v), NEW w \in DOMAIN v.table
    PROVE  LET u == Associated(v, w)
           IN  /\ Fine(u) /\ u.xd = v.xd /\ DOMAIN u.table = DOMAIN v.table
               /\ u = v \/ (~v.table[w].associated /\ u.table[w].associated)
               /\ \A o \in DOMAIN v.table : v.table[o].associated => u.table[o].associated
<1> DEFINE s == v.table[w].surface
           Stays == v.table[w].associated \/ s = NoId \/ ~Associable(v, s, w)
<1>1. CASE Stays
  BY <1>1 DEF Associated
<1>2. CASE ~Stays
  <2> DEFINE a == [v.table EXCEPT ![w].associated = TRUE]
             f == [v.shell.surf EXCEPT ![s] = [@ EXCEPT !.role = "xwayland", !.xwindow = w,
                                                        !.title = v.xd.win[w].title]]
             h == [v.shell EXCEPT !.surf = f]
             b == [v EXCEPT !.table = a]
             c == [b EXCEPT !.shell = h]
  <2>2. Shaped(v) /\ Fits(v.xd, v.table, v.shell)
    BY FineIsShaped DEF Fine
  <2>1. Associated(v, w) = MapSurface(c, s)
    <3>1. c = [v EXCEPT !.table[w].associated = TRUE,
                        !.shell.surf[s] = [@ EXCEPT !.role = "xwayland", !.xwindow = w,
                                                    !.title = v.xd.win[w].title]]
      BY <2>2 DEF Shaped
    <3> QED
      BY <1>2, <3>1 DEF Associated
  <2>3. /\ v.table \in [DOMAIN v.table -> Entries] /\ DOMAIN v.table \subseteq Toplevels
        /\ v.shell.surf \in [DOMAIN v.shell.surf -> ShellSurfaces]
        /\ DOMAIN v.shell.surf \subseteq Surfaces /\ v.shell.stack \in Stacks
        /\ v.xd.win \in [Toplevels -> Windows]
    BY <2>2 DEF Fits, TypesFit
  <2>4. /\ s \in DOMAIN v.shell.surf /\ v.shell.surf[s].xwindow \in {NoId, w}
        /\ \A r \in DOMAIN v.shell.surf :
             v.shell.surf[r].role = "xwayland" /\ v.shell.surf[r].xwindow = w => r = s
    BY <1>2 DEF Associable, SurfacesOf
  <2>5. /\ a \in [DOMAIN v.table -> Entries] /\ a[w] = [v.table[w] EXCEPT !.associated = TRUE]
        /\ \A o \in DOMAIN v.table : o # w => a[o] = v.table[o]
        /\ a[w].associated
    BY <2>3 DEF Entries
  <2>6. v.xd.win[w].title \in 1 .. 2 /\ w \in Toplevels
    BY <2>3 DEF Windows
  <2>7. /\ f \in [DOMAIN v.shell.surf -> ShellSurfaces]
        /\ f[s] = [v.shell.surf[s] EXCEPT !.role = "xwayland", !.xwindow = w,
                                          !.title = v.xd.win[w].title]
        /\ f[s].role = "xwayland"
        /\ \A r \in DOMAIN v.shell.surf : r # s => f[r] = v.shell.surf[r]
    <3> DEFINE n == [v.shell.surf[s] EXCEPT !.role = "xwayland", !.xwindow = w,
                                            !.title = v.xd.win[w].title]
    <3>1. v.shell.surf[s] \in ShellSurfaces
      BY <2>3, <2>4
    <3>2. n \in ShellSurfaces /\ n.role = "xwayland"
      <4> DEFINE m == v.shell.surf[s]
                 title == v.xd.win[w].title
      <4>1. m \in ShellSurfaces /\ title \in 0 .. 2 /\ w \in Toplevels \cup {NoId}
        BY <2>6, <3>1
      <4> HIDE DEF m, title, s
      <4>2. [m EXCEPT !.role = "xwayland", !.xwindow = w, !.title = title] \in ShellSurfaces
        BY <4>1 DEF ShellSurfaces
      <4>3. [m EXCEPT !.role = "xwayland", !.xwindow = w, !.title = title].role = "xwayland"
        BY <4>1 DEF ShellSurfaces
      <4> QED
        BY <4>2, <4>3 DEF m, title
    <3>3. f = [v.shell.surf EXCEPT ![s] = n]
      OBVIOUS
    <3>4. n = [v.shell.surf[s] EXCEPT !.role = "xwayland", !.xwindow = w,
                                      !.title = v.xd.win[w].title]
      OBVIOUS
    <3> HIDE DEF n, f
    <3> QED
      BY <2>3, <2>4, <3>2, <3>3, <3>4
  <2> HIDE DEF a, f
  <2>8. ShellShape(h) /\ h.surf = f /\ h.stack = v.shell.stack
    BY <2>2, NewSurf DEF Shaped
  <2>9. Shaped(b) /\ b.xd = v.xd /\ b.table = a /\ b.shell = v.shell
    BY <2>2, NewTable
  <2> HIDE DEF b, h
  <2>10. Shaped(c) /\ c.xd = v.xd /\ c.table = a /\ c.shell = h
    BY <2>8, <2>9, NewShell
  <2> HIDE DEF c
  <2> DEFINE u == MapSurface(c, s)
  <2>11. DOMAIN f = DOMAIN v.shell.surf
    BY <2>7
  <2>12. /\ Shaped(u) /\ u.xd = v.xd /\ u.table = a /\ u.shell.surf = f /\ u.shell.stack \in Stacks
         /\ On(u.shell.stack) = IF f[s].pixels THEN On(v.shell.stack) \cup {s} ELSE On(v.shell.stack)
    <3>1. s \in DOMAIN c.shell.surf /\ DOMAIN c.shell.surf \subseteq Surfaces /\ c.shell.stack \in Stacks
      BY <2>3, <2>4, <2>8, <2>10, <2>11
    <3>2. /\ Shaped(u) /\ u.xd = c.xd /\ u.table = c.table /\ u.shell.surf = c.shell.surf
          /\ u.shell.stack \in Stacks
          /\ On(u.shell.stack) = IF c.shell.surf[s].role = "xwayland" /\ c.shell.surf[s].pixels
                                 THEN On(c.shell.stack) \cup {s} ELSE On(c.shell.stack)
      BY <2>10, <3>1, MapEffect
    <3> HIDE DEF u
    <3> QED
      BY <2>7, <2>8, <2>10, <3>2
  <2> HIDE DEF u
  <2>13. Fits(v.xd, a, u.shell)
    <3>1. ShellShape(u.shell) /\ DOMAIN a = DOMAIN v.table
      BY <2>5, <2>12 DEF Shaped
    <3> DEFINE x == v.xd
               t == v.table
               k == v.shell
               g == u.shell
    <3>2. /\ Fits(x, t, k) /\ w \in DOMAIN t /\ s \in DOMAIN k.surf /\ t[w].surface = s
          /\ k.surf[s].xwindow \in {NoId, w}
          /\ \A r \in DOMAIN k.surf : k.surf[r].role = "xwayland" /\ k.surf[r].xwindow = w => r = s
      BY <2>2, <2>4
    <3>3. /\ DOMAIN a = DOMAIN t /\ a[w] = [t[w] EXCEPT !.associated = TRUE]
          /\ \A o \in DOMAIN t : o # w => a[o] = t[o]
          /\ a \in [DOMAIN a -> Entries]
      BY <2>5, <3>1
    <3>4. /\ ShellShape(g) /\ g.stack \in Stacks /\ g.surf \in [DOMAIN k.surf -> ShellSurfaces]
          /\ \A r \in DOMAIN k.surf : r # s => g.surf[r] = k.surf[r]
          /\ g.surf[s] = [k.surf[s] EXCEPT !.role = "xwayland", !.xwindow = w, !.title = x.win[w].title]
          /\ On(g.stack) = IF g.surf[s].pixels THEN On(k.stack) \cup {s} ELSE On(k.stack)
      BY <2>7, <2>12, <3>1
    <3> HIDE DEF s, x, t, k, g
    <3>6. Associates(x, t, k, w, s, a, g)
      BY <3>2, <3>3, <3>4 DEF Associates
    <3>5. Fits(x, a, g)
      BY <3>2, <3>6, AssociationFits
    <3> QED
      BY <3>5 DEF x, g
  <2>14. Fine(u) /\ u.xd = v.xd /\ DOMAIN u.table = DOMAIN v.table /\ u.table[w].associated
    BY <2>5, <2>12, <2>13 DEF Fine, Shaped
  <2>15. \A o \in DOMAIN v.table : v.table[o].associated => u.table[o].associated
    BY <2>5, <2>12
  <2>16. ~v.table[w].associated
    BY <1>2
  <2> QED
    BY <2>1, <2>14, <2>15, <2>16 DEF u
<1> QED
  BY <1>1, <1>2

(***************************************************************************)
(* The table is gone through, slot after slot.                             *)
(***************************************************************************)
\* A non-empty set of naturals has a least element.
LEMMA LeastOf ==
  ASSUME NEW S \in SUBSET Nat, S # {}
  PROVE  \E n \in S : \A k \in S : n <= k
<1>1. PICK n \in S : \A k \in S : <<k, n>> \notin OpToRel(<, Nat)
  BY NatLessThanWellFounded, WFMin
<1>2. ASSUME NEW k \in S PROVE n <= k
  <2>1. OpToRel(<, Nat) = {ss \in Nat \X Nat : ss[1] < ss[2]}
    BY Zenon DEF OpToRel
  <2>2. <<k, n>> \notin {ss \in Nat \X Nat : ss[1] < ss[2]}
    BY <1>1, <2>1, Zenon
  <2> QED
    BY <2>2
<1> QED
  BY <1>2

\* A property of naturals that passes from each to the next holds of all.
LEMMA Induct ==
  ASSUME NEW H \in SUBSET Nat, NEW n \in Nat, 0 \in H, \A k \in 1 .. n : k - 1 \in H => k \in H
  PROVE  n \in H
<1> SUFFICES ASSUME n \notin H PROVE FALSE
  OBVIOUS
<1> DEFINE B == (0 .. n) \ H
<1>0. B \in SUBSET Nat /\ B # {}
  OBVIOUS
<1>1. PICK k \in B : \A l \in B : k <= l
  <2> HIDE DEF B
  <2> QED
    BY <1>0, LeastOf
<1>2. k \in 1 .. n /\ k - 1 \in 0 .. n /\ ~(k <= k - 1)
  BY <1>1
<1> QED
  BY <1>1, <1>2

\* f is what the first N associations leave of v, one after the other.
IsPass(v, order, N, f) ==
    f = [n \in 0 .. N |-> IF n = 0 THEN v ELSE Associated(f[n - 1], order[n])]

Pass(v, order, N) == CHOOSE f : IsPass(v, order, N, f)

LEMMA PassExists ==
    ASSUME NEW v, NEW order, NEW N \in Nat
    PROVE  IsPass(v, order, N, Pass(v, order, N))
<1> DEFINE H == {n \in 0 .. N : \E f : IsPass(v, order, n, f)}
<1>1. 0 \in H
  <2> DEFINE f == [n \in 0 .. 0 |-> v]
  <2>1. \A n \in 0 .. 0 : n = 0
    OBVIOUS
  <2>2. f = [n \in 0 .. 0 |-> IF n = 0 THEN v ELSE Associated(f[n - 1], order[n])]
    BY <2>1
  <2>3. IsPass(v, order, 0, f)
    BY <2>2, Zenon DEF IsPass
  <2> QED
    BY <2>3
<1>2. ASSUME NEW n \in 1 .. N, n - 1 \in H
      PROVE  n \in H
  <2>1. PICK f : IsPass(v, order, n - 1, f)
    BY <1>2
  <2> DEFINE g == [k \in 0 .. n |-> IF k = n THEN Associated(f[n - 1], order[n]) ELSE f[k]]
  <2>2. \A k \in 0 .. n - 1 : f[k] = IF k = 0 THEN v ELSE Associated(f[k - 1], order[k])
    BY <2>1 DEF IsPass
  <2>3. g[n] = Associated(f[n - 1], order[n]) /\ \A k \in 0 .. n - 1 : g[k] = f[k]
    OBVIOUS
  <2>4. ASSUME NEW k \in 0 .. n
        PROVE  g[k] = IF k = 0 THEN v ELSE Associated(g[k - 1], order[k])
    <3> HIDE DEF g
    <3>1. CASE k = n
      <4>1. n - 1 \in 0 .. n - 1 /\ n # 0
        OBVIOUS
      <4>2. g[n - 1] = f[n - 1]
        BY <2>3, <4>1
      <4> QED
        BY <2>3, <3>1, <4>1, <4>2
    <3>2. CASE k # n
      <4>1. k \in 0 .. n - 1
        BY <3>2
      <4>2. g[k] = f[k] /\ (k # 0 => g[k - 1] = f[k - 1])
        BY <2>3, <4>1
      <4> QED
        BY <2>2, <4>1, <4>2
    <3> QED
      BY <3>1, <3>2
  <2>5. g = [k \in 0 .. n |-> g[k]]
    OBVIOUS
  <2> HIDE DEF g
  <2>6. g = [k \in 0 .. n |-> IF k = 0 THEN v ELSE Associated(g[k - 1], order[k])]
    BY <2>4, <2>5, Zenon
  <2>7. IsPass(v, order, n, g)
    BY <2>6, Zenon DEF IsPass
  <2>8. \E h : IsPass(v, order, n, h)
    BY <2>7, Zenon
  <2> QED
    BY <2>8
<1>3. N \in H
  <2>1. H \in SUBSET Nat
    OBVIOUS
  <2> HIDE DEF H
  <2> QED
    BY <1>1, <1>2, <2>1, Induct
<1> QED
  BY <1>3 DEF Pass

\* The pass leaves a world that fits, and if it leaves everything as it was
\* then no association was possible.
LEMMA PassEffect ==
    ASSUME NEW v, Fine(v), NEW order \in Orders(v)
    PROVE  LET u == AllTried(v, order)
           IN  /\ Fine(u) /\ u.xd = v.xd /\ DOMAIN u.table = DOMAIN v.table
               /\ u = v => \A w \in DOMAIN v.table : Associated(v, w) = v
<1> DEFINE D == DOMAIN v.table
           N == Cardinality(D)
           f == Pass(v, order, N)
           Yes(u) == {w \in D : u.table[w].associated}
           H == {n \in 0 .. N : /\ Fine(f[n]) /\ f[n].xd = v.xd /\ DOMAIN f[n].table = D
                                /\ Yes(v) \subseteq Yes(f[n])
                                /\ Yes(f[n]) = Yes(v) => f[n] = v /\ \A k \in 1 .. n : Associated(v, order[k]) = v}
<1>1. N \in Nat
  <2>1. D \subseteq Toplevels /\ IsFiniteSet(Toplevels)
    BY RootlessAssumption DEF Fine, Fits, TypesFit
  <2>2. IsFiniteSet(D)
    BY <2>1, FS_Subset
  <2> HIDE DEF D
  <2> QED
    BY <2>2, FS_CardinalityType
<1>2. /\ \A n \in 1 .. N : order[n] \in D
      /\ \A w \in D : \E n \in 1 .. N : order[n] = w
  BY Zenon DEF Orders, Bijection, Injection, Surjection
<1>3. IsPass(v, order, N, f)
  <2> HIDE DEF N
  <2> QED
    BY <1>1, PassExists
<1>4. AllTried(v, order) = f[N]
  BY Zenon DEF AllTried, Pass, IsPass
<1> HIDE DEF f, N
<1>5. f[0] = v /\ \A n \in 1 .. N : f[n] = Associated(f[n - 1], order[n])
  BY <1>1, <1>3 DEF IsPass
<1>6. 0 \in H
  BY <1>1, <1>5
<1>7. ASSUME NEW n \in 1 .. N, n - 1 \in H
      PROVE  n \in H
  <2> DEFINE u == f[n - 1]
             w == order[n]
             t == f[n]
  <2>1. /\ Fine(u) /\ u.xd = v.xd /\ DOMAIN u.table = D /\ Yes(v) \subseteq Yes(u)
        /\ Yes(u) = Yes(v) => u = v /\ \A k \in 1 .. n - 1 : Associated(v, order[k]) = v
    BY <1>7
  <2>2. w \in D /\ t = Associated(u, w)
    BY <1>2, <1>5
  <2> HIDE DEF u, w, t
  <2>3. /\ Fine(t) /\ t.xd = u.xd /\ DOMAIN t.table = DOMAIN u.table
        /\ t = u \/ (~u.table[w].associated /\ t.table[w].associated)
        /\ \A o \in DOMAIN u.table : u.table[o].associated => t.table[o].associated
    BY <2>1, <2>2, AssociatedEffect
  <2>4. Yes(u) \subseteq Yes(t) /\ (t = u \/ w \in Yes(t) \ Yes(u))
    BY <2>1, <2>2, <2>3
  <2>5. ASSUME Yes(t) = Yes(v)
        PROVE  t = v /\ \A k \in 1 .. n : Associated(v, order[k]) = v
    <3>1. Yes(u) = Yes(v) /\ t = u
      BY <2>1, <2>4, <2>5
    <3>2. u = v /\ Associated(v, order[n]) = v
      BY <2>1, <2>2, <3>1 DEF w
    <3>3. \A k \in 1 .. n : k = n \/ k \in 1 .. n - 1
      OBVIOUS
    <3> QED
      BY <2>1, <3>1, <3>2, <3>3
  <2>6. /\ Fine(t) /\ t.xd = v.xd /\ DOMAIN t.table = D /\ Yes(v) \subseteq Yes(t)
        /\ Yes(t) = Yes(v) => t = v /\ \A k \in 1 .. n : Associated(v, order[k]) = v
    BY <2>1, <2>3, <2>4, <2>5
  <2> HIDE DEF Yes, D
  <2> QED
    BY <2>6 DEF t
<1>8. N \in H
  <2>1. H \in SUBSET Nat
    OBVIOUS
  <2> HIDE DEF H
  <2> QED
    BY <1>1, <1>6, <1>7, <2>1, Induct
<1>9. /\ Fine(f[N]) /\ f[N].xd = v.xd /\ DOMAIN f[N].table = D
      /\ Yes(f[N]) = Yes(v) => \A k \in 1 .. N : Associated(v, order[k]) = v
  <2> HIDE DEF Yes, D
  <2> QED
    BY <1>8
<1> QED
  BY <1>2, <1>4, <1>9

\* Any other shell with the same surfaces and windows, and any focus.
LEMMA FineStays ==
    ASSUME NEW v, Fine(v), NEW u, Shaped(u), SameX(v, u), u.table = v.table,
           u.shell.surf = v.shell.surf, u.shell.stack \in Stacks,
           On(u.shell.stack) = On(v.shell.stack)
    PROVE  Fine(u)
<1> DEFINE x == v.xd
           y == u.xd
           h == v.shell
           g == u.shell
           t == v.table
<1>1. /\ y.win = x.win /\ y.events = x.events /\ y.requests = x.requests
      /\ g.surf = h.surf /\ g.stack \in Stacks /\ On(g.stack) = On(h.stack)
      /\ XShape(y) /\ ShellShape(g) /\ Fits(x, t, h) /\ u.table = t
  BY DEF Fine, Shaped, SameX
<1> HIDE DEF x, y, g, h, t
<1>2. /\ TypesFit(x, t, h) /\ NewsFit(x, t) /\ CallsFit(x, h.surf) /\ RedirectsFit(x.win, t)
      /\ DrawnFit(x, h.surf) /\ OwnersFit(x, t, h.surf) /\ ShownFit(x.win, h)
      /\ EntriesFit(x, t, h.surf)
  BY <1>1 DEF Fits
<1>3. TypesFit(y, t, g)
  BY <1>1, <1>2 DEF TypesFit
<1>4. NewsFit(y, t) /\ CallsFit(y, g.surf)
  BY <1>1, <1>2 DEF NewsFit, CallsFit
<1>5. DrawnFit(y, g.surf) /\ OwnersFit(y, t, g.surf)
  BY <1>1, <1>2 DEF DrawnFit, OwnersFit
<1>6. RedirectsFit(y.win, t) /\ ShownFit(y.win, g)
  BY <1>1, <1>2 DEF ShownFit
<1>7. EntriesFit(y, t, g.surf)
  <2> SUFFICES ASSUME NEW o \in Toplevels, x.win[o].phase = "mapped"
               PROVE  Matches(y, t[o], g.surf, o)
    BY <1>1 DEF EntriesFit
  <2>1. Matches(x, t[o], h.surf, o)
    BY <1>2 DEF EntriesFit
  <2> QED
    BY <1>1, <2>1 DEF Matches
<1>8. Fits(y, t, g)
  BY <1>3, <1>4, <1>5, <1>6, <1>7 DEF Fits
<1> QED
  BY <1>1, <1>8 DEF Fine, Shaped, y, t, g

\* Every step of the server's ends with the focus brought up to date.
LEMMA SyncFits ==
    ASSUME NEW v, Fine(v)
    PROVE  Fine(Sync(v))
<1> DEFINE u == Sync(v)
<1>1. v.shell.stack \in Stacks
  BY DEF Fine, Fits, TypesFit
<1>2. /\ Shaped(u) /\ SameX(v, u) /\ u.table = v.table
      /\ u.shell.surf = v.shell.surf /\ u.shell.stack = v.shell.stack
  BY FineIsShaped, FocusEffect DEF Sync
<1> HIDE DEF u
<1>3. Fine(u)
  BY <1>1, <1>2, FineStays
<1> QED
  BY <1>3 DEF u

(***************************************************************************)
(* X clients and Xwayland.                                                 *)
(***************************************************************************)
LEMMA TalkAppend ==
    ASSUME NEW q \in Seq(News), NEW e \in News
    PROVE  Talk(Append(q, e)) =
             IF e.type \in {"surface", "property"} THEN Talk(q) \cup {e} ELSE Talk(q)
<1> DEFINE p == Append(q, e)
<1>1. /\ Len(p) = Len(q) + 1 /\ Len(q) \in Nat
      /\ \A i \in 1 .. Len(q) : p[i] = q[i]
      /\ p[Len(q) + 1] = e
  BY AtEnd
<1> HIDE DEF p
<1>2. /\ \A i \in 1 .. Len(p) : i \in 1 .. Len(q) \/ i = Len(q) + 1
      /\ \A i \in 1 .. Len(q) : i \in 1 .. Len(p)
      /\ Len(q) + 1 \in 1 .. Len(p)
  BY <1>1
<1> QED
  BY <1>1, <1>2 DEF Talk, p

LEMMA TalkTail ==
    ASSUME NEW q \in Seq(News), q # <<>>
    PROVE  Talk(q) =
             IF Head(q).type \in {"surface", "property"} THEN Talk(Tail(q)) \cup {Head(q)}
             ELSE Talk(Tail(q))
<1> DEFINE p == Tail(q)
<1>1. /\ Len(p) = Len(q) - 1 /\ Len(q) \in Nat /\ Len(q) >= 1
      /\ \A i \in 1 .. Len(q) - 1 : p[i] = q[i + 1]
      /\ Head(q) = q[1]
  BY AtHead
<1> HIDE DEF p
<1>2. /\ \A i \in 1 .. Len(q) : i = 1 \/ (i - 1 \in 1 .. Len(p) /\ p[i - 1] = q[i])
      /\ \A i \in 1 .. Len(p) : i + 1 \in 1 .. Len(q) /\ p[i] = q[i + 1]
      /\ 1 \in 1 .. Len(q)
  BY <1>1
<1> QED
  BY <1>1, <1>2 DEF Talk, p

LEMMA CommitsAppend ==
    ASSUME NEW q \in Seq(Calls), NEW e \in Calls
    PROVE  Commits(Append(q, e)) =
             IF e.type = "commit" THEN Commits(q) \cup {e.surface} ELSE Commits(q)
<1> DEFINE p == Append(q, e)
<1>1. /\ Len(p) = Len(q) + 1 /\ Len(q) \in Nat
      /\ \A i \in 1 .. Len(q) : p[i] = q[i]
      /\ p[Len(q) + 1] = e
  BY AtEnd
<1> HIDE DEF p
<1>2. /\ \A i \in 1 .. Len(p) : i \in 1 .. Len(q) \/ i = Len(q) + 1
      /\ \A i \in 1 .. Len(q) : i \in 1 .. Len(p)
      /\ Len(q) + 1 \in 1 .. Len(p)
  BY <1>1
<1> QED
  BY <1>1, <1>2 DEF Commits, p

LEMMA CommitsTail ==
    ASSUME NEW q \in Seq(Calls), q # <<>>
    PROVE  Commits(q) =
             IF Head(q).type = "commit" THEN Commits(Tail(q)) \cup {Head(q).surface}
             ELSE Commits(Tail(q))
<1> DEFINE p == Tail(q)
<1>1. /\ Len(p) = Len(q) - 1 /\ Len(q) \in Nat /\ Len(q) >= 1
      /\ \A i \in 1 .. Len(q) - 1 : p[i] = q[i + 1]
      /\ Head(q) = q[1]
  BY AtHead
<1> HIDE DEF p
<1>2. /\ \A i \in 1 .. Len(q) : i = 1 \/ (i - 1 \in 1 .. Len(p) /\ p[i - 1] = q[i])
      /\ \A i \in 1 .. Len(p) : i + 1 \in 1 .. Len(q) /\ p[i] = q[i + 1]
      /\ 1 \in 1 .. Len(q)
  BY <1>1
<1>3. ASSUME NEW s
      PROVE  s \in Commits(q) <=> \/ Head(q).type = "commit" /\ s = Head(q).surface
                                 \/ s \in Commits(p)
  <2>1. s \in Commits(q) <=> \E i \in 1 .. Len(q) : q[i].type = "commit" /\ q[i].surface = s
    BY DEF Commits
  <2>2. s \in Commits(p) <=> \E i \in 1 .. Len(p) : p[i].type = "commit" /\ p[i].surface = s
    BY DEF Commits
  <2> QED
    BY <1>1, <1>2, <2>1, <2>2
<1> QED
  BY <1>3 DEF p

LEMMA NotifyEffect ==
    ASSUME NEW d, XShape(d), NEW type, NEW w, NEW arg
    PROVE  LET e == Notify(d, type, w, arg)
           IN  /\ XShape(e) /\ e.win = d.win /\ e.requests = d.requests /\ e.focus = d.focus
               /\ e.events = Append(d.events, [type |-> type, window |-> w, arg |-> arg])
BY DEF Notify, XShape

LEMMA AskEffect ==
    ASSUME NEW d, XShape(d), NEW type, NEW s
    PROVE  LET e == Ask(d, type, s)
           IN  /\ XShape(e) /\ e.win = d.win /\ e.events = d.events /\ e.focus = d.focus
               /\ e.requests = Append(d.requests, [type |-> type, surface |-> s])
BY SMTT(30) DEF Ask, XShape

LEMMA NewWin ==
    ASSUME NEW d, XShape(d), NEW f
    PROVE  LET e == [d EXCEPT !.win = f]
           IN  XShape(e) /\ e.win = f /\ e.events = d.events /\ e.requests = d.requests
BY DEF XShape

\* News of w that is neither of its surface nor of its end.
Mentions(x, y, w, e) ==
    /\ XShape(y) /\ y.requests = x.requests /\ y.events = Append(x.events, e)
    /\ e \in News /\ e.window = w /\ e.type # "surface"
    /\ y.win \in [Toplevels -> Windows]
    /\ \A o \in Toplevels : o # w => y.win[o] = x.win[o]
    /\ y.win[w].surface = x.win[w].surface /\ y.win[w].drawn = x.win[w].drawn
    /\ y.win[w].redirected = x.win[w].redirected
    /\ y.win[w].title = x.win[w].title \/ e.type = "property"
    /\ (y.win[w].phase = "mapped") = (x.win[w].phase = "mapped")
    /\ (y.win[w].phase = "gone") = (x.win[w].phase = "gone")

LEMMA MentionFits ==
    ASSUME NEW x, NEW y, NEW t, NEW h, NEW w \in Toplevels, NEW e,
           Fits(x, t, h), Mentions(x, y, w, e),
           Orderly(y.events, w, y.win[w].phase, w \in DOMAIN t)
    PROVE  Fits(y, t, h)
<1> USE DEF Mentions
<1>1. /\ TypesFit(x, t, h) /\ NewsFit(x, t) /\ CallsFit(x, h.surf) /\ RedirectsFit(x.win, t)
      /\ DrawnFit(x, h.surf) /\ OwnersFit(x, t, h.surf) /\ ShownFit(x.win, h)
      /\ EntriesFit(x, t, h.surf)
  BY DEF Fits
<1>2. x.events \in Seq(News) /\ e \in News
  BY <1>1 DEF TypesFit
<1>3. /\ \A o \in Toplevels : y.win[o].surface = x.win[o].surface
      /\ \A o \in Toplevels : y.win[o].drawn = x.win[o].drawn
      /\ \A o \in Toplevels : y.win[o].redirected = x.win[o].redirected
      /\ \A o \in Toplevels : (y.win[o].phase = "mapped") = (x.win[o].phase = "mapped")
      /\ \A o \in Toplevels : (y.win[o].phase = "gone") = (x.win[o].phase = "gone")
  OBVIOUS
<1>4. TypesFit(y, t, h)
  <2>1. y.events \in Seq(News)
    BY <1>2, AtEnd
  <2> QED
    BY <1>1, <2>1 DEF TypesFit
<1>5. NewsFit(y, t)
  <2> SUFFICES ASSUME NEW o \in Toplevels, o # w
               PROVE  Orderly(y.events, o, y.win[o].phase, o \in DOMAIN t)
    BY DEF NewsFit
  <2>1. Orderly(x.events, o, x.win[o].phase, o \in DOMAIN t) /\ y.win[o] = x.win[o]
    BY <1>1 DEF NewsFit
  <2>2. (o \in DOMAIN t) \in BOOLEAN /\ e.window # o
    OBVIOUS
  <2>3. Orderly(Append(x.events, e), o, x.win[o].phase, o \in DOMAIN t)
    BY <1>2, <2>1, <2>2, OrderlyAppend
  <2> QED
    BY <2>1, <2>3
<1>6. CallsFit(y, h.surf)
  <2>1. \A s \in Surfaces : Living(y.win, s) = Living(x.win, s)
    BY <1>3 DEF Living
  <2> QED
    BY <1>1, <2>1 DEF CallsFit
<1>7. RedirectsFit(y.win, t)
  BY <1>1, <1>3 DEF RedirectsFit
<1>8. DrawnFit(y, h.surf)
  BY <1>1, <1>3 DEF DrawnFit
<1>9. /\ Talk(x.events) \subseteq Talk(y.events)
      /\ \A n \in Talk(y.events) : n.type = "surface" => n \in Talk(x.events)
      /\ e.type = "property" => e \in Talk(y.events)
  BY <1>2, TalkAppend
<1>10. OwnersFit(y, t, h.surf)
  BY <1>1, <1>3, <1>9 DEF OwnersFit, Of
<1>11. ShownFit(y.win, h)
  BY <1>1, <1>3 DEF ShownFit
<1>12. EntriesFit(y, t, h.surf)
  <2> SUFFICES ASSUME NEW o \in Toplevels, y.win[o].phase = "mapped"
               PROVE  Matches(y, t[o], h.surf, o)
    BY DEF EntriesFit
  <2>1. Matches(x, t[o], h.surf, o) /\ y.win[o].surface = x.win[o].surface
    BY <1>1, <1>3 DEF EntriesFit
  <2>2. y.win[o].title = x.win[o].title \/ \E n \in Talk(y.events) : Of(n, o, {"property"})
    BY <1>9 DEF Of
  <2>3. \A n : Of(n, o, {"surface"}) => n.type = "surface"
    BY DEF Of
  <2> QED
    BY <1>9, <2>1, <2>2, <2>3 DEF Matches
<1> QED
  BY <1>4, <1>5, <1>6, <1>7, <1>8, <1>10, <1>11, <1>12 DEF Fits

LEMMA FitsParts ==
    ASSUME NEW x, NEW t, NEW h, Fits(x, t, h)
    PROVE  /\ TypesFit(x, t, h) /\ NewsFit(x, t) /\ CallsFit(x, h.surf) /\ RedirectsFit(x.win, t)
           /\ DrawnFit(x, h.surf) /\ OwnersFit(x, t, h.surf) /\ ShownFit(x.win, h)
           /\ EntriesFit(x, t, h.surf)
           /\ x.events \in Seq(News) /\ x.requests \in Seq(Calls)
           /\ x.win \in [Toplevels -> Windows]
           /\ DOMAIN t \subseteq Toplevels /\ DOMAIN h.surf \subseteq Surfaces
           /\ \A w \in Toplevels : x.win[w].surface \in Surfaces \cup {NoId}
           /\ \A w \in Toplevels : x.win[w].phase # "mapped" => x.win[w].surface = NoId /\ ~x.win[w].drawn
BY DEF Fits, TypesFit, DrawnFit, Windows

LEMMA ToldOf ==
    ASSUME NEW x, NEW f, CallsFit(x, f), NEW s \in Surfaces
    PROVE  /\ Told(x.requests, s, s \in DOMAIN f, Living(x.win, s))
           /\ (s \in DOMAIN f) \in BOOLEAN /\ Living(x.win, s) \in BOOLEAN
<1>1. Told(x.requests, s, s \in DOMAIN f, Living(x.win, s))
  BY Zenon DEF CallsFit
<1>2. (s \in DOMAIN f) \in BOOLEAN
  OBVIOUS
<1>3. Living(x.win, s) \in BOOLEAN
  BY DEF Living
<1> QED
  BY <1>1, <1>2, <1>3

\* Xwayland makes the surface s for a mapped window, and says so on both
\* sockets.
Makes(x, y, t, h, w, s) ==
    /\ s \in Surfaces /\ s \notin DOMAIN h.surf
    /\ \A i \in 1 .. Len(x.events) : x.events[i].arg # s
    /\ \A i \in 1 .. Len(x.requests) : x.requests[i].surface # s
    /\ \A o \in DOMAIN t : t[o].surface # s
    /\ XShape(y) /\ y.win \in [Toplevels -> Windows]
    /\ y.requests = Append(x.requests, [type |-> "create", surface |-> s])
    /\ y.events = Append(x.events, [type |-> "surface", window |-> w, arg |-> s])
    /\ \A o \in Toplevels : o # w => y.win[o] = x.win[o]
    /\ x.win[w].phase = "mapped" /\ y.win[w].phase = "mapped"
    /\ x.win[w].surface = NoId /\ y.win[w].surface = s
    /\ y.win[w].drawn = x.win[w].drawn
    /\ y.win[w].redirected = x.win[w].redirected /\ y.win[w].title = x.win[w].title

LEMMA MakesFits ==
    ASSUME NEW x, NEW y, NEW t, NEW h, NEW w \in Toplevels, NEW s,
           Fits(x, t, h), Makes(x, y, t, h, w, s)
    PROVE  Fits(y, t, h)
<1> USE DEF Makes
<1> DEFINE e == [type |-> "surface", window |-> w, arg |-> s]
           c == [type |-> "create", surface |-> s]
<1>1. /\ TypesFit(x, t, h) /\ NewsFit(x, t) /\ CallsFit(x, h.surf) /\ RedirectsFit(x.win, t)
      /\ DrawnFit(x, h.surf) /\ OwnersFit(x, t, h.surf) /\ ShownFit(x.win, h)
      /\ EntriesFit(x, t, h.surf)
      /\ x.events \in Seq(News) /\ x.requests \in Seq(Calls)
  BY FitsParts
<1>2. e \in News /\ c \in Calls
  BY DEF News, Calls
<1>3. y.requests = Append(x.requests, c) /\ y.events = Append(x.events, e)
      /\ e.window = w /\ e.type = "surface" /\ e.arg = s /\ c.surface = s /\ c.type = "create"
  OBVIOUS
<1>4. s # NoId
  BY RootlessAssumption
<1> HIDE DEF e, c
<1>5. y.events \in Seq(News) /\ y.requests \in Seq(Calls)
  BY <1>1, <1>2, <1>3, AtEnd
<1>6. TypesFit(y, t, h)
  BY <1>1, <1>5 DEF TypesFit
<1>7. NewsFit(y, t)
  <2> SUFFICES ASSUME NEW o \in Toplevels
               PROVE  Orderly(y.events, o, y.win[o].phase, o \in DOMAIN t)
    BY DEF NewsFit
  <2>1. Orderly(x.events, o, x.win[o].phase, o \in DOMAIN t) /\ (o \in DOMAIN t) \in BOOLEAN
    BY <1>1 DEF NewsFit
  <2>2. y.win[o].phase = x.win[o].phase
    OBVIOUS
  <2>3. e.window # o \/ (e.type \in Asked /\ x.win[o].phase = "mapped")
    BY <1>3 DEF Asked
  <2>4. Orderly(Append(x.events, e), o, x.win[o].phase, o \in DOMAIN t)
    <3>1. x.events \in Seq(News)
      BY <1>1
    <3> HIDE DEF Makes
    <3> QED
      BY <3>1, <1>2, <2>1, <2>3, OrderlyAppend
  <2> QED
    BY <1>3, <2>2, <2>4
<1>8. \A o \in Toplevels : x.win[o].surface # s
  <2>1. Told(x.requests, s, s \in DOMAIN h.surf, Living(x.win, s))
    BY <1>1, ToldOf
  <2>2. Living(x.win, s) => \E i \in 1 .. Len(x.requests) : For(x.requests[i], s, "create")
    BY <2>1 DEF Told
  <2> QED
    BY <2>2 DEF For, Living
<1>9. CallsFit(y, h.surf)
  <2> SUFFICES ASSUME NEW r \in Surfaces
               PROVE  Told(y.requests, r, r \in DOMAIN h.surf, Living(y.win, r))
    BY DEF CallsFit
  <2>1. Told(x.requests, r, r \in DOMAIN h.surf, Living(x.win, r))
        /\ (r \in DOMAIN h.surf) \in BOOLEAN /\ Living(x.win, r) \in BOOLEAN
    BY <1>1, ToldOf
  <2>2. CASE r = s
    <3>1. Living(y.win, s) = TRUE /\ (s \in DOMAIN h.surf) = FALSE
      BY DEF Living
    <3>2. For(c, s, "create")
      BY <1>3 DEF For
    <3>3. Told(Append(x.requests, c), s, FALSE, TRUE)
      BY <1>1, <1>2, <3>2, ToldCreate
    <3> QED
      BY <1>3, <2>2, <3>1, <3>3
  <2>3. CASE r # s
    <3>1. Living(y.win, r) = Living(x.win, r)
      <4>1. \A o \in Toplevels : y.win[o].surface = r <=> x.win[o].surface = r
        BY <1>4, <2>3, RootlessAssumption
      <4> QED
        BY <4>1 DEF Living
    <3>2. Told(Append(x.requests, c), r, r \in DOMAIN h.surf, Living(x.win, r))
      BY <1>1, <1>2, <1>3, <2>1, <2>3, ToldAppend
    <3> QED
      BY <1>3, <3>1, <3>2
  <2> QED
    BY <2>2, <2>3
<1>10. RedirectsFit(y.win, t)
  <2>1. \A o \in Toplevels : y.win[o].phase = x.win[o].phase /\ y.win[o].redirected = x.win[o].redirected
    OBVIOUS
  <2> QED
    BY <1>1, <2>1 DEF RedirectsFit
<1>11. DrawnFit(y, h.surf)
  <2>1. Commits(y.requests) = Commits(x.requests)
    BY <1>1, <1>2, <1>3, CommitsAppend
  <2> QED
    BY <1>1, <1>4, <2>1 DEF DrawnFit
<1>12. Talk(y.events) = Talk(x.events) \cup {e}
  BY <1>1, <1>2, <1>3, TalkAppend
<1>13. \A n \in Talk(x.events) : n.arg # s
  BY DEF Talk
<1>14. OwnersFit(y, t, h.surf)
  <2> SUFFICES ASSUME NEW o \in Toplevels, y.win[o].surface # NoId, NEW p \in Toplevels \ {o}
               PROVE  LET r == y.win[o].surface
                      IN  /\ y.win[p].surface # r
                          /\ p \in DOMAIN t => t[p].surface # r
                          /\ r \in DOMAIN h.surf => h.surf[r].xwindow # p
                          /\ \A n \in Talk(y.events) : Of(n, p, {"surface"}) => n.arg # r
    BY DEF OwnersFit
  <2>1. CASE o = w
    <3>1. \A n \in Talk(y.events) : Of(n, p, {"surface"}) => n.arg # s
      BY <1>3, <1>12, <1>13, <2>1 DEF Of
    <3> QED
      BY <1>8, <2>1, <3>1
  <2>2. CASE o # w
    <3> DEFINE r == x.win[o].surface
    <3>1. r # s /\ y.win[o].surface = r /\ r # NoId
      BY <1>8, <2>2
    <3>2. /\ x.win[p].surface # r
          /\ p \in DOMAIN t => t[p].surface # r
          /\ r \in DOMAIN h.surf => h.surf[r].xwindow # p
          /\ \A n \in Talk(x.events) : Of(n, p, {"surface"}) => n.arg # r
      BY <1>1, <3>1 DEF OwnersFit
    <3>3. y.win[p].surface # r
      BY <3>1, <3>2
    <3> HIDE DEF r
    <3> QED
      BY <1>3, <1>12, <3>1, <3>2, <3>3
  <2> QED
    BY <2>1, <2>2
<1>15. ShownFit(y.win, h)
  BY <1>1 DEF ShownFit
<1>16. EntriesFit(y, t, h.surf)
  <2> SUFFICES ASSUME NEW o \in Toplevels, y.win[o].phase = "mapped"
               PROVE  Matches(y, t[o], h.surf, o)
    BY DEF EntriesFit
  <2>1. Matches(x, t[o], h.surf, o)
    BY <1>1 DEF EntriesFit
  <2>2. CASE o # w
    <3>1. \A n \in Talk(y.events) : n.window = o => n \in Talk(x.events)
      BY <1>3, <1>12, <2>2
    <3>2. Talk(x.events) \subseteq Talk(y.events)
      BY <1>12
    <3>3. y.win[o] = x.win[o]
      BY <2>2
    <3> QED
      BY <2>1, <3>1, <3>2, <3>3 DEF Matches, Of
  <2>3. CASE o = w
    <3>1. t[w].surface = NoId /\ ~t[w].associated
      BY <2>1, <2>3 DEF Matches
    <3>2. NoId \notin DOMAIN h.surf
      BY <1>1, RootlessAssumption DEF TypesFit
    <3>3. \A n \in Talk(y.events) : Of(n, w, {"surface"}) => n.arg = s
      <4> SUFFICES ASSUME NEW n \in Talk(x.events), Of(n, w, {"surface"}) PROVE FALSE
        BY <1>3, <1>12
      <4>1. n \in News /\ n.arg = NoId
        <5>1. n \in News
          BY <1>1 DEF Talk
        <5> QED
          BY <2>1, <2>3, <5>1 DEF Matches
      <4> QED
        BY <4>1, RootlessAssumption DEF News, Of, Turns
    <3>4. \E n \in Talk(y.events) : Of(n, w, {"surface"})
      BY <1>3, <1>12 DEF Of
    <3> QED
      BY <2>1, <2>3, <3>1, <3>2, <3>3, <3>4 DEF Matches
  <2> QED
    BY <2>2, <2>3
<1> QED
  BY <1>6, <1>7, <1>9, <1>10, <1>11, <1>14, <1>15, <1>16 DEF Fits

\* Xwayland draws a window on its surface.
Draws(x, y, w) ==
    /\ XShape(y) /\ y.win \in [Toplevels -> Windows]
    /\ x.win[w].surface # NoId
    /\ y.requests = Append(x.requests, [type |-> "commit", surface |-> x.win[w].surface])
    /\ y.events = x.events
    /\ \A o \in Toplevels : o # w => y.win[o] = x.win[o]
    /\ y.win[w].phase = x.win[w].phase /\ y.win[w].surface = x.win[w].surface
    /\ y.win[w].redirected = x.win[w].redirected /\ y.win[w].title = x.win[w].title

LEMMA DrawsFits ==
    ASSUME NEW x, NEW y, NEW t, NEW h, NEW w \in Toplevels,
           Fits(x, t, h), Draws(x, y, w)
    PROVE  Fits(y, t, h)
<1> USE DEF Draws
<1> DEFINE s == x.win[w].surface
           c == [type |-> "commit", surface |-> s]
<1>1. /\ TypesFit(x, t, h) /\ NewsFit(x, t) /\ CallsFit(x, h.surf) /\ RedirectsFit(x.win, t)
      /\ DrawnFit(x, h.surf) /\ OwnersFit(x, t, h.surf) /\ ShownFit(x.win, h)
      /\ EntriesFit(x, t, h.surf)
      /\ x.requests \in Seq(Calls) /\ s \in Surfaces \cup {NoId}
  BY FitsParts
<1>2. c \in Calls /\ For(c, s, "commit")
  BY <1>1 DEF Calls, For
<1>3. y.requests = Append(x.requests, c) /\ c.surface = s /\ c.type = "commit" /\ s # NoId
  OBVIOUS
<1>4. /\ \A o \in Toplevels : y.win[o].surface = x.win[o].surface
      /\ \A o \in Toplevels : y.win[o].phase = x.win[o].phase
      /\ \A o \in Toplevels : y.win[o].redirected = x.win[o].redirected
      /\ \A o \in Toplevels : y.win[o].title = x.win[o].title
  OBVIOUS
<1> HIDE DEF c, s
<1>5. y.requests \in Seq(Calls)
  BY <1>1, <1>2, <1>3, AtEnd
<1>6. TypesFit(y, t, h)
  BY <1>1, <1>5 DEF TypesFit
<1>7. NewsFit(y, t)
  BY <1>1, <1>4 DEF NewsFit
<1>8. CallsFit(y, h.surf)
  <2> SUFFICES ASSUME NEW r \in Surfaces
               PROVE  Told(y.requests, r, r \in DOMAIN h.surf, Living(y.win, r))
    BY DEF CallsFit
  <2>1. Told(x.requests, r, r \in DOMAIN h.surf, Living(x.win, r))
        /\ (r \in DOMAIN h.surf) \in BOOLEAN /\ Living(x.win, r) \in BOOLEAN
    BY <1>1, ToldOf
  <2>2. Living(y.win, r) = Living(x.win, r)
    BY <1>4 DEF Living
  <2>3. r = s => Living(x.win, r)
    BY DEF Living, s
  <2>4. c.surface # r \/ (Living(x.win, r) /\ For(c, r, "commit"))
    BY <1>2, <1>3, <2>3
  <2>5. Told(Append(x.requests, c), r, r \in DOMAIN h.surf, Living(x.win, r))
    BY <1>1, <1>2, <2>1, <2>4, ToldAppend
  <2> QED
    BY <1>3, <2>2, <2>5
<1>9. RedirectsFit(y.win, t)
  BY <1>1, <1>4 DEF RedirectsFit
<1>10. DrawnFit(y, h.surf)
  <2>1. Commits(y.requests) = Commits(x.requests) \cup {s}
    BY <1>1, <1>2, <1>3, CommitsAppend
  <2> QED
    BY <1>1, <1>3, <1>4, <2>1 DEF DrawnFit, s
<1>11. OwnersFit(y, t, h.surf)
  BY <1>1, <1>4 DEF OwnersFit
<1>12. ShownFit(y.win, h)
  BY <1>1, <1>4 DEF ShownFit
<1>13. EntriesFit(y, t, h.surf)
  <2> SUFFICES ASSUME NEW o \in Toplevels, x.win[o].phase = "mapped"
               PROVE  Matches(y, t[o], h.surf, o)
    BY <1>4 DEF EntriesFit
  <2>1. Matches(x, t[o], h.surf, o)
    BY <1>1 DEF EntriesFit
  <2> QED
    BY <1>4, <2>1 DEF Matches
<1> QED
  BY <1>6, <1>7, <1>8, <1>9, <1>10, <1>11, <1>12, <1>13 DEF Fits

\* A window that has no surface now and is not mapped; its surface, if it
\* had one, is destroyed.  The news of it come as they should.
Leaves(x, y, t, w) ==
    /\ XShape(y) /\ y.win \in [Toplevels -> Windows]
    /\ y.requests = IF x.win[w].surface = NoId THEN x.requests
                    ELSE Append(x.requests, [type |-> "destroy", surface |-> x.win[w].surface])
    /\ y.events \in Seq(News) /\ Talk(y.events) = Talk(x.events)
    /\ \A o \in Toplevels : o # w => y.win[o] = x.win[o]
    /\ y.win[w].phase # "mapped" /\ y.win[w].surface = NoId /\ ~y.win[w].drawn

LEMMA LeavesFits ==
    ASSUME NEW x, NEW y, NEW t, NEW h, NEW w \in Toplevels,
           Fits(x, t, h), Leaves(x, y, t, w), NewsFit(y, t), RedirectsFit(y.win, t)
    PROVE  Fits(y, t, h)
<1> USE DEF Leaves
<1> DEFINE s == x.win[w].surface
           c == [type |-> "destroy", surface |-> s]
<1>1. /\ TypesFit(x, t, h) /\ NewsFit(x, t) /\ CallsFit(x, h.surf) /\ RedirectsFit(x.win, t)
      /\ DrawnFit(x, h.surf) /\ OwnersFit(x, t, h.surf) /\ ShownFit(x.win, h)
      /\ EntriesFit(x, t, h.surf)
      /\ x.requests \in Seq(Calls) /\ s \in Surfaces \cup {NoId}
  BY FitsParts
<1>2. s # NoId => /\ c \in Calls /\ For(c, s, "destroy")
                  /\ y.requests = Append(x.requests, c) /\ c.surface = s /\ c.type = "destroy"
  BY <1>1 DEF Calls, For
<1>3. s = NoId => y.requests = x.requests
  OBVIOUS
<1>4. NoId \notin Surfaces /\ \A o \in Toplevels : o # w /\ s # NoId => x.win[o].surface # s
  BY <1>1, RootlessAssumption DEF OwnersFit
<1> HIDE DEF c
<1>5. y.requests \in Seq(Calls) /\ Commits(y.requests) = Commits(x.requests)
  BY <1>1, <1>2, <1>3, AtEnd, CommitsAppend
<1>6. TypesFit(y, t, h)
  BY <1>1, <1>5 DEF TypesFit
<1>7. CallsFit(y, h.surf)
  <2> SUFFICES ASSUME NEW r \in Surfaces
               PROVE  Told(y.requests, r, r \in DOMAIN h.surf, Living(y.win, r))
    BY DEF CallsFit
  <2>1. Told(x.requests, r, r \in DOMAIN h.surf, Living(x.win, r))
        /\ (r \in DOMAIN h.surf) \in BOOLEAN /\ Living(x.win, r) \in BOOLEAN
    BY <1>1, ToldOf
  <2>2. r # s => Living(y.win, r) = Living(x.win, r)
    BY <1>4 DEF Living
  <2>3. r = s => Living(x.win, r) = TRUE /\ Living(y.win, r) = FALSE
    BY <1>4 DEF Living
  <2>4. CASE r = s
    <3>1. Told(x.requests, r, r \in DOMAIN h.surf, TRUE) /\ For(c, r, "destroy") /\ c \in Calls
      BY <1>2, <1>4, <2>1, <2>3, <2>4
    <3>2. Told(Append(x.requests, c), r, r \in DOMAIN h.surf, FALSE)
      BY ZenonT(30), <1>1, <2>1, <3>1, ToldDestroy
    <3> QED
      BY <1>2, <1>4, <2>3, <2>4, <3>2
  <2>5. CASE r # s /\ s # NoId
    <3>1. Told(Append(x.requests, c), r, r \in DOMAIN h.surf, Living(x.win, r))
      BY <1>1, <1>2, <2>1, <2>5, ToldAppend
    <3> QED
      BY <1>2, <2>2, <2>5, <3>1
  <2>6. CASE r # s /\ s = NoId
    BY <1>3, <2>1, <2>2, <2>6
  <2> QED
    BY <2>4, <2>5, <2>6
<1>8. DrawnFit(y, h.surf)
  BY <1>1, <1>5 DEF DrawnFit
<1>9. OwnersFit(y, t, h.surf)
  <2> SUFFICES ASSUME NEW o \in Toplevels, y.win[o].surface # NoId, NEW p \in Toplevels \ {o}
               PROVE  LET r == y.win[o].surface
                      IN  /\ y.win[p].surface # r
                          /\ p \in DOMAIN t => t[p].surface # r
                          /\ r \in DOMAIN h.surf => h.surf[r].xwindow # p
                          /\ \A n \in Talk(y.events) : Of(n, p, {"surface"}) => n.arg # r
    BY DEF OwnersFit
  <2>1. y.win[o] = x.win[o] /\ (p = w \/ y.win[p] = x.win[p])
    OBVIOUS
  <2> QED
    BY <1>1, <2>1 DEF OwnersFit
<1>10. ShownFit(y.win, h)
  <2>1. NoId \notin DOMAIN h.surf
    BY <1>1, <1>4 DEF TypesFit
  <2> QED
    BY <1>1, <2>1 DEF ShownFit
<1>11. EntriesFit(y, t, h.surf)
  <2> SUFFICES ASSUME NEW o \in Toplevels, y.win[o].phase = "mapped"
               PROVE  Matches(y, t[o], h.surf, o)
    BY DEF EntriesFit
  <2>1. y.win[o] = x.win[o]
    OBVIOUS
  <2>2. Matches(x, t[o], h.surf, o)
    BY <1>1, <2>1 DEF EntriesFit
  <2> QED
    BY <2>1, <2>2 DEF Matches
<1> QED
  BY <1>6, <1>7, <1>8, <1>9, <1>10, <1>11 DEF Fits

(***************************************************************************)
(* What the window manager makes of its events.                            *)
(***************************************************************************)
\* Only the events differ, and none of them tells of a surface or a title.
Retells(x, y) ==
    /\ XShape(y) /\ y.win = x.win /\ y.requests = x.requests
    /\ y.events \in Seq(News) /\ Talk(y.events) = Talk(x.events)

LEMMA RetellsFits ==
    ASSUME NEW x, NEW y, NEW t, NEW h, Fits(x, t, h), Retells(x, y), NewsFit(y, t)
    PROVE  Fits(y, t, h)
<1> USE DEF Retells
<1>1. /\ TypesFit(x, t, h) /\ CallsFit(x, h.surf) /\ RedirectsFit(x.win, t)
      /\ DrawnFit(x, h.surf) /\ OwnersFit(x, t, h.surf) /\ ShownFit(x.win, h)
      /\ EntriesFit(x, t, h.surf)
  BY FitsParts
<1>2. TypesFit(y, t, h)
  BY <1>1 DEF TypesFit
<1>3. CallsFit(y, h.surf) /\ RedirectsFit(y.win, t) /\ ShownFit(y.win, h)
  BY <1>1 DEF CallsFit
<1>4. DrawnFit(y, h.surf) /\ OwnersFit(y, t, h.surf)
  BY <1>1 DEF DrawnFit, OwnersFit
<1>5. EntriesFit(y, t, h.surf)
  BY <1>1 DEF EntriesFit, Matches
<1> QED
  BY <1>2, <1>3, <1>4, <1>5 DEF Fits

\* The manager maps the window w, redirected as r, and takes it into its table.
Adopts(x, y, t, a, w, r) ==
    /\ XShape(y) /\ y.win \in [Toplevels -> Windows] /\ y.requests = x.requests
    /\ y.events \in Seq(News) /\ Talk(y.events) = Talk(x.events)
    /\ \A o \in Toplevels : o # w => y.win[o] = x.win[o]
    /\ x.win[w].phase # "mapped" /\ y.win[w].phase = "mapped"
    /\ y.win[w].surface = x.win[w].surface /\ y.win[w].drawn = x.win[w].drawn
    /\ y.win[w].redirected = r /\ r \in Redirections
    /\ DOMAIN a = DOMAIN t \cup {w} /\ w \notin DOMAIN t
    /\ \A o \in DOMAIN t : a[o] = t[o]
    /\ a \in [DOMAIN a -> Entries] /\ a[w] = [Entry EXCEPT !.redirected = r]
    /\ \A n \in Talk(x.events) : ~Of(n, w, {"surface"})

LEMMA AdoptsFits ==
    ASSUME NEW x, NEW y, NEW t, NEW a, NEW h, NEW w \in Toplevels, NEW r,
           Fits(x, t, h), Adopts(x, y, t, a, w, r), NewsFit(y, a)
    PROVE  Fits(y, a, h)
<1> USE DEF Adopts
<1>1. /\ TypesFit(x, t, h) /\ CallsFit(x, h.surf) /\ RedirectsFit(x.win, t)
      /\ DrawnFit(x, h.surf) /\ OwnersFit(x, t, h.surf) /\ ShownFit(x.win, h)
      /\ EntriesFit(x, t, h.surf)
      /\ DOMAIN t \subseteq Toplevels /\ x.win[w].surface = NoId /\ ~x.win[w].drawn
  BY FitsParts
<1>2. /\ \A o \in Toplevels : y.win[o].surface = x.win[o].surface
      /\ \A o \in Toplevels : y.win[o].drawn = x.win[o].drawn
  OBVIOUS
<1>3. a[w].surface = NoId /\ ~a[w].associated /\ a[w].redirected = r /\ ~a[w].fullscreen
  BY DEF Entry
<1>4. NoId \notin DOMAIN h.surf
  BY <1>1, RootlessAssumption DEF TypesFit
<1>5. TypesFit(y, a, h)
  BY <1>1 DEF TypesFit
<1>6. CallsFit(y, h.surf)
  <2>1. \A s \in Surfaces : Living(y.win, s) = Living(x.win, s)
    BY <1>2 DEF Living
  <2> QED
    BY <1>1, <2>1 DEF CallsFit
<1>7. RedirectsFit(y.win, a)
  <2> SUFFICES ASSUME NEW o \in Toplevels
               PROVE  IF y.win[o].phase = "gone" THEN y.win[o].redirected = "no"
                      ELSE y.win[o].redirected = "xwm" <=> o \in DOMAIN a /\ a[o].redirected = "xwm"
    BY DEF RedirectsFit
  <2>1. CASE o = w
    BY <1>3, <2>1
  <2>2. CASE o # w
    BY <1>1, <2>2 DEF RedirectsFit
  <2> QED
    BY <2>1, <2>2
<1>8. DrawnFit(y, h.surf)
  BY <1>1, <1>2 DEF DrawnFit
<1>9. OwnersFit(y, a, h.surf)
  <2>1. \A o \in DOMAIN a : o \in DOMAIN t \/ a[o].surface = NoId
    BY <1>3
  <2> QED
    BY <1>1, <1>2, <2>1 DEF OwnersFit
<1>10. ShownFit(y.win, h)
  BY <1>1, <1>2 DEF ShownFit
<1>11. EntriesFit(y, a, h.surf)
  <2> SUFFICES ASSUME NEW o \in Toplevels, y.win[o].phase = "mapped"
               PROVE  Matches(y, a[o], h.surf, o)
    BY DEF EntriesFit
  <2>1. CASE o = w
    BY <1>1, <1>3, <1>4, <2>1 DEF Matches
  <2>2. CASE o # w
    <3>1. y.win[o] = x.win[o] /\ o \in DOMAIN a
      BY <2>2 DEF NewsFit, Orderly
    <3>2. Matches(x, t[o], h.surf, o) /\ a[o] = t[o]
      BY <1>1, <2>2, <3>1 DEF EntriesFit
    <3> QED
      BY <3>1, <3>2 DEF Matches
  <2> QED
    BY <2>1, <2>2
<1> QED
  BY <1>5, <1>6, <1>7, <1>8, <1>9, <1>10, <1>11 DEF Fits

\* The manager reads which surface w has.
Names(x, y, t, a, w) ==
    /\ x.events # <<>> /\ Of(Head(x.events), w, {"surface"})
    /\ XShape(y) /\ y.win = x.win /\ y.requests = x.requests /\ y.events = Tail(x.events)
    /\ DOMAIN a = DOMAIN t /\ a \in [DOMAIN a -> Entries]
    /\ \A o \in DOMAIN t : o # w => a[o] = t[o]
    /\ a[w] = [t[w] EXCEPT !.surface = Head(x.events).arg]

LEMMA NamesFits ==
    ASSUME NEW x, NEW y, NEW t, NEW a, NEW h, NEW w \in Toplevels,
           Fits(x, t, h), Names(x, y, t, a, w)
    PROVE  w \in DOMAIN t /\ Fits(y, a, h)
<1> USE DEF Names
<1> DEFINE e == Head(x.events)
           s == e.arg
<1>1. /\ TypesFit(x, t, h) /\ NewsFit(x, t) /\ CallsFit(x, h.surf) /\ RedirectsFit(x.win, t)
      /\ DrawnFit(x, h.surf) /\ OwnersFit(x, t, h.surf) /\ ShownFit(x.win, h)
      /\ EntriesFit(x, t, h.surf)
      /\ x.events \in Seq(News) /\ DOMAIN t \subseteq Toplevels
  BY FitsParts
<1>2. /\ y.events \in Seq(News) /\ e \in News /\ e = x.events[1] /\ Len(x.events) \in Nat
      /\ Len(x.events) >= 1
  BY <1>1, AtHead
<1>3. e.window = w /\ e.type = "surface" /\ s \in Surfaces /\ s # NoId
  BY <1>2, RootlessAssumption DEF Of, News, Turns
<1>4. Talk(x.events) = Talk(y.events) \cup {e}
  BY <1>1, <1>3, TalkTail
<1>5. w \in DOMAIN t
  <2>1. Orderly(x.events, w, x.win[w].phase, w \in DOMAIN t)
    BY <1>1, Zenon DEF NewsFit
  <2>2. 1 \in 1 .. Len(x.events) /\ Of(x.events[1], w, Asked)
    BY <1>2, <1>3 DEF Of, Asked
  <2> QED
    BY <2>1, <2>2 DEF Orderly
<1> HIDE DEF e
<1>6. /\ a[w].surface = s /\ a[w].associated = t[w].associated
      /\ a[w].redirected = t[w].redirected /\ a[w].fullscreen = t[w].fullscreen
  <2>1. t[w] \in Entries /\ a[w] = [t[w] EXCEPT !.surface = s]
    BY <1>1, <1>5 DEF TypesFit, e
  <2> HIDE DEF s
  <2> QED
    BY <2>1 DEF Entries
<1>7. TypesFit(y, a, h)
  BY <1>1, <1>2 DEF TypesFit
<1>8. NewsFit(y, a)
  <2> SUFFICES ASSUME NEW o \in Toplevels
               PROVE  Orderly(y.events, o, y.win[o].phase, o \in DOMAIN a)
    BY DEF NewsFit
  <2>1. Orderly(x.events, o, x.win[o].phase, o \in DOMAIN t)
    BY <1>1, Zenon DEF NewsFit
  <2>2. ~Of(Head(x.events), o, Turns) /\ (o \in DOMAIN t) \in BOOLEAN
    BY <1>3 DEF Of, Turns, e
  <2>3. Orderly(Tail(x.events), o, x.win[o].phase, o \in DOMAIN t)
    <3>1. x.events \in Seq(News) /\ x.events # <<>>
      BY <1>1
    <3> DEFINE q == x.events
               known == o \in DOMAIN t
    <3>2. q \in Seq(News) /\ q # <<>> /\ Orderly(q, o, x.win[o].phase, known)
          /\ ~Of(Head(q), o, Turns) /\ known \in BOOLEAN
      BY <2>1, <2>2, <3>1, Zenon
    <3> HIDE DEF q, known, Names
    <3>3. Orderly(Tail(q), o, x.win[o].phase, known)
      BY <3>2, OrderlyTail
    <3> QED
      BY <3>3, Zenon DEF q, known
  <2> QED
    BY <2>3
<1>9. CallsFit(y, h.surf)
  BY <1>1 DEF CallsFit
<1>10. RedirectsFit(y.win, a)
  <2>1. \A o \in DOMAIN t : a[o].redirected = t[o].redirected
    BY <1>6
  <2> QED
    BY <1>1, <2>1 DEF RedirectsFit
<1>11. DrawnFit(y, h.surf)
  BY <1>1 DEF DrawnFit
<1>12. e \in Talk(x.events) /\ Of(e, w, {"surface"})
  BY <1>3, <1>4 DEF Of
<1>13. OwnersFit(y, a, h.surf)
  <2>1. ASSUME NEW o \in Toplevels, x.win[o].surface # NoId, o # w
        PROVE  a[w].surface # x.win[o].surface
    BY <1>1, <1>6, <1>12, <2>1 DEF OwnersFit
  <2>2. ASSUME NEW o \in Toplevels, x.win[o].surface # NoId, NEW p \in Toplevels \ {o}, p \in DOMAIN a
        PROVE  a[p].surface # x.win[o].surface
    <3>1. p \in DOMAIN t /\ t[p].surface # x.win[o].surface
      BY <1>1, <2>2 DEF OwnersFit
    <3>2. p = w \/ a[p] = t[p]
      BY <3>1
    <3> QED
      BY <2>1, <2>2, <3>1, <3>2
  <2> QED
    BY <1>1, <1>4, <2>2 DEF OwnersFit
<1>14. ShownFit(y.win, h)
  BY <1>1 DEF ShownFit
<1>15. EntriesFit(y, a, h.surf)
  <2> SUFFICES ASSUME NEW o \in Toplevels, x.win[o].phase = "mapped"
               PROVE  Matches(y, a[o], h.surf, o)
    BY DEF EntriesFit
  <2>1. Matches(x, t[o], h.surf, o) /\ o \in DOMAIN t
    BY <1>1 DEF EntriesFit, NewsFit, Orderly
  <2>2. \A n \in Talk(x.events) : n = e \/ n \in Talk(y.events)
    BY <1>4
  <2>3. CASE o # w
    <3>1. a[o] = t[o] /\ ~Of(e, o, {"surface"}) /\ ~Of(e, o, {"property"})
      BY <1>3, <2>1, <2>3 DEF Of
    <3> QED
      BY <1>4, <2>1, <2>2, <3>1 DEF Matches
  <2>4. CASE o = w
    <3>1. x.win[w].surface = s /\ ~Of(e, w, {"property"})
      BY <1>3, <1>12, <2>1, <2>4 DEF Matches, Of
    <3>2. \A n \in Talk(x.events) : Of(n, w, {"property"}) => n \in Talk(y.events)
      BY <2>2, <3>1
    <3>3. \A n \in Talk(y.events) : Of(n, w, {"surface"}) => n.arg = s
      BY <1>4, <2>1, <2>4, <3>1 DEF Matches
    <3> HIDE DEF s
    <3>4. /\ a[w].associated =>
             /\ s \in DOMAIN h.surf /\ h.surf[s].role = "xwayland" /\ h.surf[s].xwindow = w
             /\ \A r \in DOMAIN h.surf : h.surf[r].role = "xwayland" /\ h.surf[r].xwindow = w => r = s
             /\ h.surf[s].title = x.win[w].title \/ \E n \in Talk(x.events) : Of(n, w, {"property"})
          /\ a[w].fullscreen <=> s \in DOMAIN h.surf /\ h.surf[s].fullscreen
      BY <1>6, <2>1, <2>4, <3>1 DEF Matches
    <3>5. a[w].associated =>
            h.surf[s].title = x.win[w].title \/ \E n \in Talk(y.events) : Of(n, w, {"property"})
      BY <3>2, <3>4
    <3>6. Matches(y, a[w], h.surf, w)
      BY <1>3, <1>6, <3>1, <3>3, <3>4, <3>5 DEF Matches
    <3> QED
      BY <2>4, <3>6
  <2> QED
    BY <2>3, <2>4
<1> QED
  BY <1>5, <1>7, <1>8, <1>9, <1>10, <1>11, <1>13, <1>14, <1>15 DEF Fits

\* The shell shows w full screen or not, and the manager notes it.
Fullscreens(x, t, h, a, g, w, s, on) ==
    /\ w \in DOMAIN t /\ t[w].associated /\ on \in BOOLEAN
    /\ s \in DOMAIN h.surf /\ h.surf[s].role = "xwayland" /\ h.surf[s].xwindow = w
    /\ DOMAIN a = DOMAIN t /\ a \in [DOMAIN a -> Entries]
    /\ \A o \in DOMAIN t : o # w => a[o] = t[o]
    /\ a[w].surface = t[w].surface /\ a[w].associated = t[w].associated
    /\ a[w].redirected = t[w].redirected
    /\ x.win[w].phase = "mapped" => a[w].fullscreen = on
    /\ ShellShape(g) /\ g.stack = h.stack
    /\ g.surf = [h.surf EXCEPT ![s].fullscreen = on]

LEMMA FullscreensFits ==
    ASSUME NEW x, NEW t, NEW h, NEW a, NEW g, NEW w, NEW s, NEW on,
           Fits(x, t, h), Fullscreens(x, t, h, a, g, w, s, on)
    PROVE  Fits(x, a, g)
<1> USE DEF Fullscreens
<1>1. /\ TypesFit(x, t, h) /\ NewsFit(x, t) /\ CallsFit(x, h.surf) /\ RedirectsFit(x.win, t)
      /\ DrawnFit(x, h.surf) /\ OwnersFit(x, t, h.surf) /\ ShownFit(x.win, h)
      /\ EntriesFit(x, t, h.surf)
      /\ DOMAIN t \subseteq Toplevels
  BY FitsParts
<1>2. h.surf \in [DOMAIN h.surf -> ShellSurfaces]
  BY <1>1 DEF TypesFit
<1>3. /\ g.surf \in [DOMAIN h.surf -> ShellSurfaces] /\ DOMAIN g.surf = DOMAIN h.surf
      /\ \A r \in DOMAIN h.surf :
           /\ g.surf[r].role = h.surf[r].role /\ g.surf[r].xwindow = h.surf[r].xwindow
           /\ g.surf[r].pixels = h.surf[r].pixels /\ g.surf[r].title = h.surf[r].title
           /\ r # s => g.surf[r].fullscreen = h.surf[r].fullscreen
      /\ g.surf[s].fullscreen = on
  BY <1>2 DEF ShellSurfaces
<1>4. TypesFit(x, a, g)
  BY <1>1, <1>3 DEF TypesFit
<1>5. NewsFit(x, a) /\ CallsFit(x, g.surf)
  BY <1>1, <1>3 DEF NewsFit, CallsFit
<1>6. /\ \A o \in DOMAIN t : a[o].surface = t[o].surface
      /\ \A o \in DOMAIN t : a[o].associated = t[o].associated
      /\ \A o \in DOMAIN t : a[o].redirected = t[o].redirected
  OBVIOUS
<1>7. RedirectsFit(x.win, a)
  BY <1>1, <1>6 DEF RedirectsFit
<1>8. DrawnFit(x, g.surf)
  BY <1>1, <1>3 DEF DrawnFit
<1>9. OwnersFit(x, a, g.surf)
  BY <1>1, <1>3, <1>6 DEF OwnersFit
<1>10. ShownFit(x.win, g)
  BY <1>1, <1>3 DEF ShownFit
<1>11. EntriesFit(x, a, g.surf)
  <2> SUFFICES ASSUME NEW o \in Toplevels, x.win[o].phase = "mapped"
               PROVE  Matches(x, a[o], g.surf, o)
    BY DEF EntriesFit
  <2> DEFINE r == x.win[o].surface
  <2>1. Matches(x, t[o], h.surf, o) /\ o \in DOMAIN t
    BY <1>1 DEF EntriesFit, NewsFit, Orderly
  <2>2. (a[o].fullscreen <=> r \in DOMAIN g.surf /\ g.surf[r].fullscreen)
    <3>1. CASE o = w
      <4>1. s = r /\ a[w].fullscreen = on
        BY <2>1, <3>1 DEF Matches
      <4> QED
        BY <1>3, <3>1, <4>1
    <3>2. CASE o # w
      <4>1. r # s
        BY <1>1, <2>1, <3>2, RootlessAssumption DEF OwnersFit, TypesFit
      <4>2. a[o].fullscreen <=> r \in DOMAIN h.surf /\ h.surf[r].fullscreen
        BY <2>1, <3>2 DEF Matches
      <4> QED
        BY <1>3, <4>1, <4>2
    <3> QED
      BY <3>1, <3>2
  <2> HIDE DEF Fullscreens
  <2> QED
    BY <1>3, <1>6, <2>1, <2>2 DEF Matches
<1> QED
  BY <1>4, <1>5, <1>7, <1>8, <1>9, <1>10, <1>11 DEF Fits

\* The manager reads that w has another title, and the shell reads it again.
Rereads(x, y, t, h, g, w) ==
    /\ x.events # <<>> /\ Of(Head(x.events), w, {"property"})
    /\ XShape(y) /\ y.win = x.win /\ y.requests = x.requests /\ y.events = Tail(x.events)
    /\ ShellShape(g) /\ g.stack = h.stack /\ g.surf \in [DOMAIN h.surf -> ShellSurfaces]
    /\ \A r \in DOMAIN h.surf :
         /\ g.surf[r].role = h.surf[r].role /\ g.surf[r].xwindow = h.surf[r].xwindow
         /\ g.surf[r].pixels = h.surf[r].pixels /\ g.surf[r].fullscreen = h.surf[r].fullscreen
         /\ g.surf[r].title =
              IF w \in DOMAIN t /\ t[w].associated /\ h.surf[r].role = "xwayland" /\ h.surf[r].xwindow = w
              THEN x.win[w].title ELSE h.surf[r].title

LEMMA RereadsFits ==
    ASSUME NEW x, NEW y, NEW t, NEW h, NEW g, NEW w \in Toplevels,
           Fits(x, t, h), Rereads(x, y, t, h, g, w)
    PROVE  Fits(y, t, g)
<1> USE DEF Rereads
<1> DEFINE e == Head(x.events)
<1>1. /\ TypesFit(x, t, h) /\ NewsFit(x, t) /\ CallsFit(x, h.surf) /\ RedirectsFit(x.win, t)
      /\ DrawnFit(x, h.surf) /\ OwnersFit(x, t, h.surf) /\ ShownFit(x.win, h)
      /\ EntriesFit(x, t, h.surf)
      /\ x.events \in Seq(News)
  BY FitsParts
<1>2. y.events \in Seq(News) /\ e.window = w /\ e.type = "property"
  BY <1>1, AtHead DEF Of
<1>3. Talk(x.events) = Talk(y.events) \cup {e}
  BY <1>1, <1>2, TalkTail
<1>4. DOMAIN g.surf = DOMAIN h.surf
  OBVIOUS
<1>5. TypesFit(y, t, g)
  BY <1>1, <1>2 DEF TypesFit
<1>6. NewsFit(y, t)
  <2> SUFFICES ASSUME NEW o \in Toplevels
               PROVE  Orderly(y.events, o, y.win[o].phase, o \in DOMAIN t)
    BY DEF NewsFit
  <2> DEFINE q == x.events
             known == o \in DOMAIN t
  <2>1. q \in Seq(News) /\ q # <<>> /\ known \in BOOLEAN
    BY <1>1
  <2>2. Orderly(q, o, x.win[o].phase, known)
    BY <1>1, Zenon DEF NewsFit
  <2>3. ~Of(Head(q), o, Turns)
    BY <1>2 DEF Of, Turns
  <2>4. Orderly(Tail(q), o, x.win[o].phase, known)
    <3> HIDE DEF q, known, Rereads
    <3> QED
      BY <2>1, <2>2, <2>3, OrderlyTail
  <2> QED
    BY <2>4
<1> HIDE DEF e
<1>7. CallsFit(y, g.surf)
  BY <1>1, <1>4 DEF CallsFit
<1>8. RedirectsFit(y.win, t)
  BY <1>1
<1>9. DrawnFit(y, g.surf)
  BY <1>1, <1>4 DEF DrawnFit
<1>10. OwnersFit(y, t, g.surf)
  BY <1>1, <1>3, <1>4 DEF OwnersFit
<1>11. ShownFit(y.win, g)
  BY <1>1, <1>4 DEF ShownFit
<1>12. EntriesFit(y, t, g.surf)
  <2> SUFFICES ASSUME NEW o \in Toplevels, x.win[o].phase = "mapped"
               PROVE  Matches(y, t[o], g.surf, o)
    BY DEF EntriesFit
  <2> DEFINE r == x.win[o].surface
  <2>1. Matches(x, t[o], h.surf, o) /\ o \in DOMAIN t
    BY <1>1 DEF EntriesFit, NewsFit, Orderly
  <2>2. ~Of(e, o, {"surface"}) /\ (Of(e, o, {"property"}) => o = w)
    BY <1>2 DEF Of
  <2>3. \A n : Of(n, o, {"surface"}) => (n \in Talk(y.events) <=> n \in Talk(x.events))
    BY <1>3, <2>2
  <2>4. t[o].associated =>
          g.surf[r].title = x.win[o].title \/ \E n \in Talk(y.events) : Of(n, o, {"property"})
    <3> SUFFICES ASSUME t[o].associated
                 PROVE  g.surf[r].title = x.win[o].title \/ \E n \in Talk(y.events) : Of(n, o, {"property"})
      OBVIOUS
    <3>1. /\ r \in DOMAIN h.surf /\ h.surf[r].role = "xwayland" /\ h.surf[r].xwindow = o
          /\ h.surf[r].title = x.win[o].title \/ \E n \in Talk(x.events) : Of(n, o, {"property"})
      BY <2>1 DEF Matches
    <3>2. CASE o = w
      BY <2>1, <3>1, <3>2
    <3>3. CASE o # w
      <4>1. g.surf[r].title = h.surf[r].title
        BY <3>1, <3>3
      <4> QED
        BY <1>3, <2>2, <3>1, <3>3, <4>1
    <3> QED
      BY <3>2, <3>3
  <2> QED
    BY <1>4, <2>1, <2>3, <2>4 DEF Matches
<1> QED
  BY <1>5, <1>6, <1>7, <1>8, <1>9, <1>10, <1>11, <1>12 DEF Fits

\* The manager forgets w, which is not mapped; only a surface that belongs to
\* no window may leave the shell.
Forgets(x, y, t, a, h, g, w) ==
    /\ XShape(y) /\ y.win \in [Toplevels -> Windows] /\ y.requests = x.requests
    /\ y.events \in Seq(News) /\ Talk(y.events) = Talk(x.events)
    /\ \A o \in Toplevels : o # w => y.win[o] = x.win[o]
    /\ y.win[w].phase = x.win[w].phase /\ x.win[w].phase # "mapped"
    /\ y.win[w].surface = x.win[w].surface /\ y.win[w].drawn = x.win[w].drawn
    /\ DOMAIN a = DOMAIN t \ {w} /\ \A o \in DOMAIN a : a[o] = t[o]
    /\ a \in [DOMAIN a -> Entries]
    /\ ShellShape(g) /\ g.stack \in Stacks /\ On(g.stack) \subseteq On(h.stack)
    /\ g.surf \in [DOMAIN h.surf -> ShellSurfaces]
    /\ \A r \in DOMAIN h.surf :
         /\ g.surf[r].role = h.surf[r].role /\ g.surf[r].xwindow = h.surf[r].xwindow
         /\ g.surf[r].pixels = h.surf[r].pixels /\ g.surf[r].title = h.surf[r].title
    /\ \A o \in Toplevels :
         LET r == x.win[o].surface
         IN  /\ r \in DOMAIN h.surf => g.surf[r].fullscreen = h.surf[r].fullscreen
             /\ r \in On(h.stack) => r \in On(g.stack)

LEMMA ForgetsFits ==
    ASSUME NEW x, NEW y, NEW t, NEW a, NEW h, NEW g, NEW w \in Toplevels,
           Fits(x, t, h), Forgets(x, y, t, a, h, g, w), NewsFit(y, a), RedirectsFit(y.win, a)
    PROVE  Fits(y, a, g)
<1> USE DEF Forgets
<1>1. /\ TypesFit(x, t, h) /\ CallsFit(x, h.surf) /\ DrawnFit(x, h.surf)
      /\ OwnersFit(x, t, h.surf) /\ ShownFit(x.win, h) /\ EntriesFit(x, t, h.surf)
  BY FitsParts
<1>2. DOMAIN g.surf = DOMAIN h.surf
  OBVIOUS
<1>3. /\ \A o \in Toplevels : y.win[o].surface = x.win[o].surface
      /\ \A o \in Toplevels : y.win[o].phase = x.win[o].phase
      /\ \A o \in Toplevels : y.win[o].drawn = x.win[o].drawn
  OBVIOUS
<1>4. TypesFit(y, a, g)
  BY <1>1 DEF TypesFit
<1>5. CallsFit(y, g.surf)
  <2>1. \A s \in Surfaces : Living(y.win, s) = Living(x.win, s)
    BY <1>3 DEF Living
  <2> QED
    BY <1>1, <1>2, <2>1 DEF CallsFit
<1>6. DrawnFit(y, g.surf)
  BY <1>1, <1>2, <1>3 DEF DrawnFit
<1>7. OwnersFit(y, a, g.surf)
  BY <1>1, <1>2, <1>3 DEF OwnersFit
<1>8. ShownFit(y.win, g)
  BY <1>1, <1>2, <1>3 DEF ShownFit
<1>9. EntriesFit(y, a, g.surf)
  <2> SUFFICES ASSUME NEW o \in Toplevels, y.win[o].phase = "mapped"
               PROVE  Matches(y, a[o], g.surf, o)
    BY DEF EntriesFit
  <2>1. o # w /\ y.win[o] = x.win[o] /\ o \in DOMAIN a
    BY DEF NewsFit, Orderly
  <2>2. Matches(x, t[o], h.surf, o) /\ a[o] = t[o]
    BY <1>1, <2>1 DEF EntriesFit
  <2>3. LET r == x.win[o].surface IN r \in DOMAIN h.surf => g.surf[r].fullscreen = h.surf[r].fullscreen
    OBVIOUS
  <2>4. \A r \in DOMAIN h.surf :
         /\ g.surf[r].role = h.surf[r].role /\ g.surf[r].xwindow = h.surf[r].xwindow
         /\ g.surf[r].title = h.surf[r].title
    OBVIOUS
  <2>5. Talk(y.events) = Talk(x.events)
    OBVIOUS
  <2> HIDE DEF Forgets
  <2> QED
    BY <1>2, <2>1, <2>2, <2>3, <2>4, <2>5 DEF Matches
<1> QED
  BY <1>4, <1>5, <1>6, <1>7, <1>8, <1>9 DEF Fits

(***************************************************************************)
(* What the server makes of Xwayland's requests.                           *)
(***************************************************************************)
\* The next request is read; it concerns the surface s.
Serves(x, y, s, type) ==
    /\ x.requests # <<>> /\ For(Head(x.requests), s, type) /\ s \in Surfaces
    /\ XShape(y) /\ y.win = x.win /\ y.events = x.events /\ y.requests = Tail(x.requests)

\* What is still to be heard of the other surfaces.
LEMMA ServesOthers ==
    ASSUME NEW x, NEW y, NEW s, NEW type, NEW f, Serves(x, y, s, type),
           x.requests \in Seq(Calls), CallsFit(x, f)
    PROVE  /\ y.requests \in Seq(Calls)
           /\ \A r \in Surfaces \ {s} : Told(y.requests, r, r \in DOMAIN f, Living(y.win, r))
           /\ Commits(x.requests) = IF type = "commit" THEN Commits(y.requests) \cup {s}
                                    ELSE Commits(y.requests)
<1> USE DEF Serves
<1>1. y.requests \in Seq(Calls)
  BY AtHead
<1>2. ASSUME NEW r \in Surfaces \ {s}
      PROVE  Told(y.requests, r, r \in DOMAIN f, Living(y.win, r))
  <2> DEFINE q == x.requests
             exists == r \in DOMAIN f
             live == Living(x.win, r)
  <2>1. q \in Seq(Calls) /\ q # <<>> /\ Head(q).surface # r
    BY DEF For
  <2>2. Told(q, r, exists, live) /\ exists \in BOOLEAN /\ live \in BOOLEAN
    BY ToldOf
  <2>3. Told(Tail(q), r, exists, live)
    <3> HIDE DEF q, exists, live, Serves
    <3> QED
      BY <2>1, <2>2, ToldTail
  <2> QED
    BY <2>3
<1>3. Commits(x.requests) = IF type = "commit" THEN Commits(y.requests) \cup {s}
                            ELSE Commits(y.requests)
  BY CommitsTail DEF For
<1> QED
  BY <1>1, <1>2, <1>3

\* The surface s is made; it has no role, or is known to be of a window.
Made(h, g, s) ==
    /\ ShellShape(g) /\ g.stack = h.stack
    /\ DOMAIN g.surf = DOMAIN h.surf \cup {s} /\ g.surf \in [DOMAIN g.surf -> ShellSurfaces]
    /\ \A r \in DOMAIN h.surf \ {s} : g.surf[r] = h.surf[r]
    /\ g.surf[s].xwindow = NoId /\ ~g.surf[s].pixels /\ ~g.surf[s].fullscreen

LEMMA CreateRead ==
    ASSUME NEW x, NEW y, NEW t, NEW h, NEW s, Fits(x, t, h), Serves(x, y, s, "create")
    PROVE  s \notin DOMAIN h.surf /\ Told(y.requests, s, TRUE, Living(y.win, s))
<1> DEFINE q == x.requests
           exists == s \in DOMAIN h.surf
           live == Living(x.win, s)
<1>1. q \in Seq(Calls) /\ q # <<>> /\ For(Head(q), s, "create")
  BY FitsParts DEF Serves
<1>2. Told(q, s, exists, live) /\ exists \in BOOLEAN /\ live \in BOOLEAN
  BY FitsParts, ToldOf DEF Serves
<1>3. ~exists /\ Told(Tail(q), s, TRUE, live)
  <2> HIDE DEF q, exists, live
  <2> QED
    <3>1. ~exists
      BY <1>1, <1>2, ToldNew
    <3>2. Told(Tail(q), s, TRUE, live)
      BY <1>1, <1>2, ToldMade
    <3> QED
      BY <3>1, <3>2
<1> QED
  BY <1>3 DEF Serves

LEMMA MadeFits ==
    ASSUME NEW x, NEW y, NEW t, NEW h, NEW g, NEW s,
           Fits(x, t, h), Serves(x, y, s, "create"), Made(h, g, s)
    PROVE  Fits(y, t, g)
<1>1. /\ TypesFit(x, t, h) /\ NewsFit(x, t) /\ CallsFit(x, h.surf) /\ RedirectsFit(x.win, t)
      /\ DrawnFit(x, h.surf) /\ OwnersFit(x, t, h.surf) /\ ShownFit(x.win, h)
      /\ EntriesFit(x, t, h.surf)
      /\ x.requests \in Seq(Calls) /\ DOMAIN h.surf \subseteq Surfaces
  BY FitsParts
<1>2. /\ y.requests \in Seq(Calls) /\ Commits(x.requests) = Commits(y.requests)
      /\ \A r \in Surfaces \ {s} : Told(y.requests, r, r \in DOMAIN h.surf, Living(y.win, r))
  <2>1. Commits(x.requests) = IF "create" = "commit" THEN Commits(y.requests) \cup {s}
                              ELSE Commits(y.requests)
    BY <1>1, ServesOthers
  <2>2. "create" # "commit"
    OBVIOUS
  <2> QED
    BY <1>1, <2>1, <2>2, ServesOthers
<1>3. s \in Surfaces /\ XShape(y) /\ y.win = x.win /\ y.events = x.events
  BY DEF Serves
<1>4. s \notin DOMAIN h.surf /\ Told(y.requests, s, TRUE, Living(y.win, s))
  BY CreateRead
<1> USE DEF Made
<1>5. TypesFit(y, t, g)
  BY <1>1, <1>2, <1>3 DEF TypesFit
<1>6. NewsFit(y, t) /\ RedirectsFit(y.win, t)
  BY <1>1, <1>3 DEF NewsFit
<1>7. CallsFit(y, g.surf)
  <2> SUFFICES ASSUME NEW r \in Surfaces
               PROVE  Told(y.requests, r, r \in DOMAIN g.surf, Living(y.win, r))
    BY DEF CallsFit
  <2>1. CASE r = s
    <3>1. (s \in DOMAIN g.surf) = TRUE
      OBVIOUS
    <3> QED
      BY <1>4, <2>1, <3>1
  <2>2. CASE r # s
    <3>1. (r \in DOMAIN g.surf) = (r \in DOMAIN h.surf)
      BY <2>2
    <3> QED
      BY <1>2, <2>2, <3>1
  <2> QED
    BY <2>1, <2>2
<1>8. DrawnFit(y, g.surf)
  BY <1>1, <1>2, <1>3, <1>4 DEF DrawnFit
<1>9. OwnersFit(y, t, g.surf)
  <2>1. \A o \in Toplevels : g.surf[s].xwindow # o
    BY RootlessAssumption
  <2> QED
    BY <1>1, <1>3, <1>4, <2>1 DEF OwnersFit
<1>10. ShownFit(y.win, g)
  BY <1>1, <1>3, <1>4 DEF ShownFit
<1>11. EntriesFit(y, t, g.surf)
  <2> SUFFICES ASSUME NEW o \in Toplevels, x.win[o].phase = "mapped"
               PROVE  Matches(y, t[o], g.surf, o)
    BY <1>3 DEF EntriesFit
  <2>1. Matches(x, t[o], h.surf, o)
    BY <1>1 DEF EntriesFit
  <2>2. g.surf[s].xwindow # o /\ ~g.surf[s].fullscreen
    BY RootlessAssumption
  <2>3. DOMAIN g.surf = DOMAIN h.surf \cup {s} /\ \A r \in DOMAIN h.surf : g.surf[r] = h.surf[r]
    BY <1>4
  <2>4. y.win = x.win /\ y.events = x.events
    BY <1>3
  <2> HIDE DEF Made
  <2> QED
    BY <1>4, <2>1, <2>2, <2>3, <2>4 DEF Matches
<1> QED
  BY <1>5, <1>6, <1>7, <1>8, <1>9, <1>10, <1>11 DEF Fits

\* Pixels for the surface s, which the shell then shows if it is a window's.
Pictured(h, g, s) ==
    /\ ShellShape(g) /\ g.stack \in Stacks /\ g.surf \in [DOMAIN h.surf -> ShellSurfaces]
    /\ \A r \in DOMAIN h.surf : r # s => g.surf[r] = h.surf[r]
    /\ g.surf[s].pixels
    /\ g.surf[s].role = h.surf[s].role /\ g.surf[s].xwindow = h.surf[s].xwindow
    /\ g.surf[s].title = h.surf[s].title /\ g.surf[s].fullscreen = h.surf[s].fullscreen
    /\ On(g.stack) = IF h.surf[s].role = "xwayland" THEN On(h.stack) \cup {s} ELSE On(h.stack)

LEMMA CommitRead ==
    ASSUME NEW x, NEW y, NEW t, NEW h, NEW s, Fits(x, t, h), Serves(x, y, s, "commit")
    PROVE  s \in DOMAIN h.surf /\ Told(y.requests, s, TRUE, Living(y.win, s))
<1> DEFINE q == x.requests
           exists == s \in DOMAIN h.surf
           live == Living(x.win, s)
<1>1. q \in Seq(Calls) /\ q # <<>> /\ For(Head(q), s, "commit")
  BY FitsParts DEF Serves
<1>2. Told(q, s, exists, live) /\ exists \in BOOLEAN /\ live \in BOOLEAN
  BY FitsParts, ToldOf DEF Serves
<1>3. exists /\ Told(Tail(q), s, exists, live)
  <2> HIDE DEF q, exists, live
  <2> QED
    BY <1>1, <1>2, ToldTail
<1>4. exists = TRUE
  BY <1>3
<1> QED
  BY <1>3, <1>4 DEF Serves

LEMMA PicturedFits ==
    ASSUME NEW x, NEW y, NEW t, NEW h, NEW g, NEW s,
           Fits(x, t, h), Serves(x, y, s, "commit"), Pictured(h, g, s)
    PROVE  Fits(y, t, g)
<1>1. /\ TypesFit(x, t, h) /\ NewsFit(x, t) /\ CallsFit(x, h.surf) /\ RedirectsFit(x.win, t)
      /\ DrawnFit(x, h.surf) /\ OwnersFit(x, t, h.surf) /\ ShownFit(x.win, h)
      /\ EntriesFit(x, t, h.surf)
      /\ x.requests \in Seq(Calls) /\ DOMAIN h.surf \subseteq Surfaces
  BY FitsParts
<1>2. /\ y.requests \in Seq(Calls) /\ Commits(x.requests) = Commits(y.requests) \cup {s}
      /\ \A r \in Surfaces \ {s} : Told(y.requests, r, r \in DOMAIN h.surf, Living(y.win, r))
  BY <1>1, ServesOthers
<1>3. s \in Surfaces /\ XShape(y) /\ y.win = x.win /\ y.events = x.events
  BY DEF Serves
<1>4. s \in DOMAIN h.surf /\ Told(y.requests, s, TRUE, Living(y.win, s))
  BY CommitRead
<1> USE DEF Pictured
<1>5. DOMAIN g.surf = DOMAIN h.surf
  OBVIOUS
<1>6. /\ \A r \in DOMAIN h.surf : g.surf[r].role = h.surf[r].role
      /\ \A r \in DOMAIN h.surf : g.surf[r].xwindow = h.surf[r].xwindow
      /\ \A r \in DOMAIN h.surf : g.surf[r].title = h.surf[r].title
      /\ \A r \in DOMAIN h.surf : g.surf[r].fullscreen = h.surf[r].fullscreen
      /\ \A r \in DOMAIN h.surf : h.surf[r].pixels \/ r = s => g.surf[r].pixels
      /\ \A r \in DOMAIN h.surf : r # s => g.surf[r].pixels = h.surf[r].pixels
  OBVIOUS
<1>7. TypesFit(y, t, g)
  BY <1>1, <1>2, <1>3, <1>4 DEF TypesFit
<1>8. NewsFit(y, t) /\ RedirectsFit(y.win, t)
  BY <1>1, <1>3 DEF NewsFit
<1>9. CallsFit(y, g.surf)
  <2> SUFFICES ASSUME NEW r \in Surfaces
               PROVE  Told(y.requests, r, r \in DOMAIN h.surf, Living(y.win, r))
    BY <1>5 DEF CallsFit
  <2>1. (s \in DOMAIN h.surf) = TRUE
    BY <1>4
  <2> QED
    BY <1>2, <1>4, <2>1
<1>10. DrawnFit(y, g.surf)
  <2> HIDE DEF Pictured
  <2> QED
    BY <1>1, <1>2, <1>3, <1>4, <1>5, <1>6 DEF DrawnFit
<1>11. OwnersFit(y, t, g.surf)
  BY <1>1, <1>3, <1>5, <1>6 DEF OwnersFit
<1>12. ShownFit(y.win, g)
  BY <1>1, <1>3, <1>4, <1>5, <1>6 DEF ShownFit
<1>13. EntriesFit(y, t, g.surf)
  <2> HIDE DEF Pictured
  <2> QED
    <3> SUFFICES ASSUME NEW o \in Toplevels, x.win[o].phase = "mapped"
                 PROVE  Matches(y, t[o], g.surf, o)
      BY <1>3 DEF EntriesFit
    <3>1. Matches(x, t[o], h.surf, o)
      BY <1>1 DEF EntriesFit
    <3> QED
      BY <1>3, <1>5, <1>6, <3>1 DEF Matches
<1> QED
  BY <1>7, <1>8, <1>9, <1>10, <1>11, <1>12, <1>13 DEF Fits

\* The surface s is gone.
Ended(h, g, s) ==
    /\ ShellShape(g) /\ g.stack \in Stacks /\ On(g.stack) = On(h.stack) \ {s}
    /\ DOMAIN g.surf = DOMAIN h.surf \ {s} /\ g.surf \in [DOMAIN g.surf -> ShellSurfaces]
    /\ \A r \in DOMAIN g.surf : g.surf[r] = h.surf[r]

LEMMA EndedFits ==
    ASSUME NEW x, NEW y, NEW t, NEW h, NEW g, NEW s,
           Fits(x, t, h), Serves(x, y, s, "destroy"), Ended(h, g, s)
    PROVE  Fits(y, t, g)
<1>1. /\ TypesFit(x, t, h) /\ NewsFit(x, t) /\ CallsFit(x, h.surf) /\ RedirectsFit(x.win, t)
      /\ DrawnFit(x, h.surf) /\ OwnersFit(x, t, h.surf) /\ ShownFit(x.win, h)
      /\ EntriesFit(x, t, h.surf)
      /\ x.requests \in Seq(Calls) /\ DOMAIN h.surf \subseteq Surfaces
  BY FitsParts
<1>2. /\ y.requests \in Seq(Calls) /\ Commits(x.requests) = Commits(y.requests)
      /\ \A r \in Surfaces \ {s} : Told(y.requests, r, r \in DOMAIN h.surf, Living(y.win, r))
  <2>1. Commits(x.requests) = IF "destroy" = "commit" THEN Commits(y.requests) \cup {s}
                              ELSE Commits(y.requests)
    BY <1>1, ServesOthers
  <2>2. "destroy" # "commit"
    OBVIOUS
  <2> QED
    BY <1>1, <2>1, <2>2, ServesOthers
<1>3. s \in Surfaces /\ XShape(y) /\ y.win = x.win /\ y.events = x.events
  BY DEF Serves
<1>4. ~Living(x.win, s) /\ Told(y.requests, s, FALSE, Living(y.win, s))
  <2> DEFINE q == x.requests
             exists == s \in DOMAIN h.surf
             live == Living(x.win, s)
  <2>1. q \in Seq(Calls) /\ q # <<>> /\ For(Head(q), s, "destroy")
    BY <1>1 DEF Serves
  <2>2. Told(q, s, exists, live) /\ exists \in BOOLEAN /\ live \in BOOLEAN
    BY <1>1, <1>3, ToldOf
  <2>3. ~live /\ Told(Tail(q), s, FALSE, FALSE)
    <3> HIDE DEF q, exists, live
    <3> QED
      BY <2>1, <2>2, ToldGone
  <2>4. live = FALSE
    BY <2>2, <2>3
  <2> QED
    BY <1>3, <2>3, <2>4 DEF Serves
<1>5. \A o \in Toplevels : x.win[o].surface # s
  BY <1>4 DEF Living
<1> USE DEF Ended
<1>6. TypesFit(y, t, g)
  BY <1>1, <1>2, <1>3 DEF TypesFit
<1>7. NewsFit(y, t) /\ RedirectsFit(y.win, t)
  BY <1>1, <1>3 DEF NewsFit
<1>8. CallsFit(y, g.surf)
  <2> SUFFICES ASSUME NEW r \in Surfaces
               PROVE  Told(y.requests, r, r \in DOMAIN g.surf, Living(y.win, r))
    BY DEF CallsFit
  <2>1. CASE r = s
    <3>1. (s \in DOMAIN g.surf) = FALSE
      OBVIOUS
    <3> QED
      BY <1>4, <2>1, <3>1
  <2>2. CASE r # s
    <3>1. (r \in DOMAIN g.surf) = (r \in DOMAIN h.surf)
      BY <2>2
    <3> QED
      BY <1>2, <2>2, <3>1
  <2> QED
    BY <2>1, <2>2
<1>9. DrawnFit(y, g.surf)
  BY <1>1, <1>2, <1>3, <1>5 DEF DrawnFit
<1>10. OwnersFit(y, t, g.surf)
  BY <1>1, <1>3, <1>5 DEF OwnersFit
<1>11. ShownFit(y.win, g)
  BY <1>1, <1>3, <1>5 DEF ShownFit
<1>12. EntriesFit(y, t, g.surf)
  <2> SUFFICES ASSUME NEW o \in Toplevels, x.win[o].phase = "mapped"
               PROVE  Matches(y, t[o], g.surf, o)
    BY <1>3 DEF EntriesFit
  <2>1. Matches(x, t[o], h.surf, o) /\ x.win[o].surface # s
    BY <1>1, <1>5 DEF EntriesFit
  <2>2. y.win = x.win /\ y.events = x.events
    BY <1>3
  <2>3. DOMAIN g.surf = DOMAIN h.surf \ {s} /\ \A r \in DOMAIN g.surf : g.surf[r] = h.surf[r]
    OBVIOUS
  <2> HIDE DEF Ended
  <2> QED
    BY <2>1, <2>2, <2>3 DEF Matches
<1> QED
  BY <1>6, <1>7, <1>8, <1>9, <1>10, <1>11, <1>12 DEF Fits

(***************************************************************************)
(* The steps of the X clients and of Xwayland.                             *)
(***************************************************************************)
\* News of the window w come, or are read; for the others nothing changes.
Comes(x, y, t, w, e) ==
    /\ NewsFit(x, t) /\ x.events \in Seq(News) /\ e \in News
    /\ y.events = Append(x.events, e) /\ e.window = w
    /\ \A o \in Toplevels : o # w => y.win[o] = x.win[o]
    /\ Orderly(y.events, w, y.win[w].phase, w \in DOMAIN t)

LEMMA OthersComing ==
    ASSUME NEW x, NEW y, NEW t, NEW w, NEW e, Comes(x, y, t, w, e)
    PROVE  NewsFit(y, t)
<1> USE DEF Comes
<1> SUFFICES ASSUME NEW o \in Toplevels, o # w
             PROVE  Orderly(y.events, o, y.win[o].phase, o \in DOMAIN t)
  BY DEF NewsFit
<1> DEFINE q == x.events
           known == o \in DOMAIN t
           phase == x.win[o].phase
<1>1. Orderly(q, o, phase, known)
  BY Zenon DEF NewsFit
<1>2. q \in Seq(News) /\ e \in News /\ known \in BOOLEAN /\ e.window # o
  OBVIOUS
<1>3. Orderly(Append(q, e), o, phase, known)
  <2> HIDE DEF q, known, phase, Comes
  <2> QED
    BY <1>1, <1>2, OrderlyAppend
<1> QED
  BY <1>3

LEMMA OthersRead ==
    ASSUME NEW x, NEW t, NEW w, NewsFit(x, t), x.events \in Seq(News), x.events # <<>>,
           Head(x.events).window = w \/ Head(x.events).type \notin Turns
    PROVE  \A o \in Toplevels :
             o # w \/ Head(x.events).type \notin Turns =>
               Orderly(Tail(x.events), o, x.win[o].phase, o \in DOMAIN t)
<1> SUFFICES ASSUME NEW o \in Toplevels, o # w \/ Head(x.events).type \notin Turns
             PROVE  Orderly(Tail(x.events), o, x.win[o].phase, o \in DOMAIN t)
  OBVIOUS
<1> DEFINE q == x.events
           known == o \in DOMAIN t
           phase == x.win[o].phase
<1>1. Orderly(q, o, phase, known)
  BY Zenon DEF NewsFit
<1>2. q \in Seq(News) /\ q # <<>> /\ known \in BOOLEAN
  OBVIOUS
<1>3. ~Of(Head(q), o, Turns)
  BY DEF Of
<1>4. Orderly(Tail(q), o, phase, known)
  <2> HIDE DEF q, known, phase
  <2> QED
    BY <1>1, <1>2, <1>3, OrderlyTail
<1> QED
  BY <1>4

LEMMA HiddenEffect ==
    ASSUME NEW d, XShape(d), d.win \in [Toplevels -> Windows], NEW w \in Toplevels,
           NEW phase \in {"out", "gone"}
    PROVE  LET u == Hidden(d, w, phase)
           IN  /\ XShape(u) /\ u.win \in [Toplevels -> Windows]
               /\ \A o \in Toplevels : o # w => u.win[o] = d.win[o]
               /\ u.win[w].phase = phase /\ u.win[w].surface = NoId /\ ~u.win[w].drawn
               /\ u.win[w].redirected = d.win[w].redirected
               /\ u.events = IF d.win[w].phase = "mapped"
                             THEN Append(d.events, [type |-> "unmap", window |-> w, arg |-> NoId])
                             ELSE d.events
               /\ u.requests = IF d.win[w].surface = NoId THEN d.requests
                               ELSE Append(d.requests, [type |-> "destroy", surface |-> d.win[w].surface])
<1> DEFINE s == d.win[w].surface
           f == [d.win EXCEPT ![w] = [@ EXCEPT !.phase = phase, !.surface = NoId, !.drawn = FALSE]]
           c == [d EXCEPT !.win = f]
           focus == IF d.focus = w THEN NoId ELSE d.focus
           e == [c EXCEPT !.focus = focus]
           g == IF s = NoId THEN e ELSE Ask(e, "destroy", s)
           u == IF d.win[w].phase = "mapped" THEN Notify(g, "unmap", w, NoId) ELSE g
<1>1. Hidden(d, w, phase) = u
  <2>1. [d EXCEPT !.win[w].phase = phase, !.win[w].surface = NoId, !.win[w].drawn = FALSE,
                  !.focus = IF @ = w THEN NoId ELSE @] = e
    <3>1. d.win[w] \in Windows
      OBVIOUS
    <3> QED
      BY ZenonT(30), <3>1 DEF XShape, Windows
  <2> HIDE DEF e
  <2> QED
    BY <2>1 DEF Hidden
<1>2. /\ f \in [Toplevels -> Windows]
      /\ \A o \in Toplevels : o # w => f[o] = d.win[o]
      /\ f[w].phase = phase /\ f[w].surface = NoId /\ ~f[w].drawn
      /\ f[w].redirected = d.win[w].redirected
  BY DEF Windows
<1> HIDE DEF f
<1>3. XShape(c) /\ c.win = f /\ c.events = d.events /\ c.requests = d.requests
  BY NewWin
<1> HIDE DEF c
<1>4. XShape(e) /\ e.win = f /\ e.events = d.events /\ e.requests = d.requests
  BY <1>3, NewFocus
<1> HIDE DEF e
<1>5. /\ XShape(g) /\ g.win = f /\ g.events = d.events
      /\ g.requests = IF s = NoId THEN d.requests ELSE Append(d.requests, [type |-> "destroy", surface |-> s])
  <2>1. LET b == Ask(e, "destroy", s)
        IN  /\ XShape(b) /\ b.win = f /\ b.events = d.events
            /\ b.requests = Append(d.requests, [type |-> "destroy", surface |-> s])
    <3> HIDE DEF s
    <3> QED
      BY <1>4, AskEffect
  <2> DEFINE b == Ask(e, "destroy", s)
  <2> HIDE DEF b
  <2>2. g = IF s = NoId THEN e ELSE b
    BY DEF b
  <2> HIDE DEF g, s
  <2> QED
    BY <1>4, <2>1, <2>2 DEF b
<1> HIDE DEF g, s
<1>6. /\ XShape(u) /\ u.win = f /\ u.requests = g.requests
      /\ u.events = IF d.win[w].phase = "mapped"
                    THEN Append(d.events, [type |-> "unmap", window |-> w, arg |-> NoId]) ELSE d.events
  <2>1. LET b == Notify(g, "unmap", w, NoId)
        IN  /\ XShape(b) /\ b.win = f /\ b.requests = g.requests
            /\ b.events = Append(d.events, [type |-> "unmap", window |-> w, arg |-> NoId])
    BY <1>5, NotifyEffect
  <2> DEFINE b == Notify(g, "unmap", w, NoId)
  <2> HIDE DEF b
  <2>2. u = IF d.win[w].phase = "mapped" THEN b ELSE g
    BY DEF b
  <2> HIDE DEF u
  <2> QED
    BY <1>5, <2>1, <2>2 DEF b
<1> HIDE DEF u
<1> QED
  BY <1>1, <1>2, <1>5, <1>6 DEF s

\* A step of a client's or of Xwayland's that is only news of w.
LEMMA ClientMapsKeeps ==
    ASSUME RootlessInv, NEW w \in Toplevels, ClientMaps(w)
    PROVE  RootlessInv'
<1> DEFINE e == [type |-> "map", window |-> w, arg |-> NoId]
           f == [xd.win EXCEPT ![w].phase = "asked"]
           d == [xd EXCEPT !.win = f]
<1>1. /\ Fits(xd, table, shell) /\ XShape(xd) /\ xd.win \in [Toplevels -> Windows]
      /\ xd.events \in Seq(News) /\ NewsFit(xd, table)
  BY FitsParts DEF RootlessInv, TypesFit
<1>2. xd.win[w].phase = "out" /\ xd' = Notify(d, "map", w, NoId) /\ table' = table /\ shell' = shell
  BY <1>1 DEF ClientMaps, XOnly, XShape
<1>3. /\ f \in [Toplevels -> Windows] /\ f[w].phase = "asked"
      /\ \A o \in Toplevels : o # w => f[o] = xd.win[o]
      /\ f[w].surface = xd.win[w].surface /\ f[w].drawn = xd.win[w].drawn
      /\ f[w].redirected = xd.win[w].redirected /\ f[w].title = xd.win[w].title
  BY <1>1 DEF Windows
<1> HIDE DEF f
<1>4. XShape(d) /\ d.win = f /\ d.events = xd.events /\ d.requests = xd.requests
  BY <1>1, NewWin
<1> HIDE DEF d
<1>5. /\ XShape(xd') /\ (xd').win = f /\ (xd').requests = xd.requests
      /\ (xd').events = Append(xd.events, e)
  BY <1>2, <1>4, NotifyEffect
<1>6. e \in News /\ Of(e, w, {"map"}) /\ e.window = w /\ e.type = "map"
  BY DEF News, Turns, Of
<1> HIDE DEF e
<1>7. Mentions(xd, xd', w, e)
  BY <1>2, <1>3, <1>5, <1>6 DEF Mentions
<1>8. Orderly((xd').events, w, (xd').win[w].phase, w \in DOMAIN table)
  <2> DEFINE known == w \in DOMAIN table
             q == xd.events
  <2>1. Orderly(q, w, xd.win[w].phase, known) /\ known \in BOOLEAN
    BY <1>1 DEF NewsFit
  <2>2. Orderly(q, w, "out", known) /\ known \in BOOLEAN /\ q \in Seq(News)
    BY <1>1, <1>2, <2>1
  <2>3. Orderly(Append(q, e), w, "asked", known)
    <3> HIDE DEF known, q
    <3> QED
      BY <1>6, <2>2, OrderlyMap
  <2> QED
    BY <1>3, <1>5, <2>3
<1>9. Fits(xd', table, shell)
  BY <1>1, <1>7, <1>8, MentionFits
<1> QED
  BY <1>2, <1>9 DEF RootlessInv

\* One more piece of news that tells no surface and no title.
LEMMA MoreNews ==
    ASSUME NEW q \in Seq(News), NEW w \in Toplevels, NEW type \in {"unmap", "destroy"}
    PROVE  LET e == [type |-> type, window |-> w, arg |-> NoId]
           IN  /\ e \in News /\ Append(q, e) \in Seq(News) /\ Talk(Append(q, e)) = Talk(q)
               /\ Of(e, w, {type}) /\ e.window = w /\ e.type = type
<1> DEFINE e == [type |-> type, window |-> w, arg |-> NoId]
<1>1. e \in News /\ Of(e, w, {type}) /\ e.window = w /\ e.type = type
  BY DEF News, Turns, Of
<1> HIDE DEF e
<1>2. Append(q, e) \in Seq(News) /\ Talk(Append(q, e)) = Talk(q)
  BY <1>1, AtEnd, TalkAppend
<1> QED
  BY <1>1, <1>2 DEF e

LEMMA ClientUnmapsKeeps ==
    ASSUME RootlessInv, NEW w \in Toplevels, ClientUnmaps(w)
    PROVE  RootlessInv'
<1> DEFINE e == [type |-> "unmap", window |-> w, arg |-> NoId]
           y == Hidden(xd, w, "out")
<1>1. /\ Fits(xd, table, shell) /\ XShape(xd) /\ xd.win \in [Toplevels -> Windows]
      /\ xd.events \in Seq(News) /\ NewsFit(xd, table) /\ RedirectsFit(xd.win, table)
  BY FitsParts DEF RootlessInv, TypesFit
<1>2. xd.win[w].phase = "mapped" /\ xd' = y /\ table' = table /\ shell' = shell
  BY DEF ClientUnmaps, XOnly
<1>3. /\ XShape(y) /\ y.win \in [Toplevels -> Windows]
      /\ \A o \in Toplevels : o # w => y.win[o] = xd.win[o]
      /\ y.win[w].phase = "out" /\ y.win[w].surface = NoId /\ ~y.win[w].drawn
      /\ y.win[w].redirected = xd.win[w].redirected
      /\ y.events = Append(xd.events, e)
      /\ y.requests = IF xd.win[w].surface = NoId THEN xd.requests
                      ELSE Append(xd.requests, [type |-> "destroy", surface |-> xd.win[w].surface])
  <2>1. /\ XShape(y) /\ y.win \in [Toplevels -> Windows]
        /\ \A o \in Toplevels : o # w => y.win[o] = xd.win[o]
        /\ y.win[w].phase = "out" /\ y.win[w].surface = NoId /\ ~y.win[w].drawn
        /\ y.win[w].redirected = xd.win[w].redirected
        /\ y.events = IF xd.win[w].phase = "mapped" THEN Append(xd.events, e) ELSE xd.events
        /\ y.requests = IF xd.win[w].surface = NoId THEN xd.requests
                        ELSE Append(xd.requests, [type |-> "destroy", surface |-> xd.win[w].surface])
    BY <1>1, HiddenEffect
  <2> HIDE DEF y, e
  <2> QED
    BY <1>2, <2>1
<1>4. /\ e \in News /\ Append(xd.events, e) \in Seq(News) /\ Talk(Append(xd.events, e)) = Talk(xd.events)
      /\ Of(e, w, {"unmap"}) /\ e.window = w
  BY <1>1, MoreNews
<1> HIDE DEF e, y
<1>5. Leaves(xd, y, table, w)
  BY <1>3, <1>4 DEF Leaves
<1>6. Orderly(y.events, w, y.win[w].phase, w \in DOMAIN table)
  <2> DEFINE known == w \in DOMAIN table
             q == xd.events
  <2>1. Orderly(q, w, "mapped", known) /\ known \in BOOLEAN /\ q \in Seq(News)
    BY <1>1, <1>2 DEF NewsFit
  <2>2. Orderly(Append(q, e), w, "out", known)
    <3> HIDE DEF known, q
    <3> QED
      BY <1>4, <2>1, OrderlyEnd
  <2> QED
    BY <1>3, <2>2
<1>7. NewsFit(y, table)
  <2>1. Comes(xd, y, table, w, e)
    BY <1>1, <1>3, <1>4, <1>6 DEF Comes
  <2> QED
    BY <2>1, OthersComing
<1>8. RedirectsFit(y.win, table)
  <2>1. \A o \in Toplevels : /\ y.win[o].redirected = xd.win[o].redirected
                             /\ (y.win[o].phase = "gone") = (xd.win[o].phase = "gone")
    BY <1>2, <1>3
  <2> QED
    BY <1>1, <2>1 DEF RedirectsFit
<1>9. Fits(y, table, shell)
  BY <1>1, <1>5, <1>7, <1>8, LeavesFits
<1> QED
  BY <1>2, <1>9 DEF RootlessInv

LEMMA ClientDestroysKeeps ==
    ASSUME RootlessInv, NEW w \in Toplevels, ClientDestroys(w)
    PROVE  RootlessInv'
<1> DEFINE e == [type |-> "unmap", window |-> w, arg |-> NoId]
           d == [type |-> "destroy", window |-> w, arg |-> NoId]
           u == Hidden(xd, w, "gone")
           f == [u.win EXCEPT ![w].redirected = "no"]
           z == [u EXCEPT !.win = f]
           y == Notify(z, "destroy", w, NoId)
           p == IF xd.win[w].phase = "mapped" THEN Append(xd.events, e) ELSE xd.events
<1>1. /\ Fits(xd, table, shell) /\ XShape(xd) /\ xd.win \in [Toplevels -> Windows]
      /\ xd.events \in Seq(News) /\ NewsFit(xd, table) /\ RedirectsFit(xd.win, table)
  BY FitsParts DEF RootlessInv, TypesFit
<1>2. /\ XShape(u) /\ u.win \in [Toplevels -> Windows]
      /\ \A o \in Toplevels : o # w => u.win[o] = xd.win[o]
      /\ u.win[w].phase = "gone" /\ u.win[w].surface = NoId /\ ~u.win[w].drawn
      /\ u.events = p
      /\ u.requests = IF xd.win[w].surface = NoId THEN xd.requests
                      ELSE Append(xd.requests, [type |-> "destroy", surface |-> xd.win[w].surface])
  BY <1>1, HiddenEffect
<1>3. xd' = y /\ table' = table /\ shell' = shell
  <2>1. [u EXCEPT !.win[w].redirected = "no"] = z
    <3> HIDE DEF u
    <3> QED
      BY <1>2 DEF XShape
  <2> HIDE DEF z
  <2> QED
    BY <2>1 DEF ClientDestroys, XOnly
<1> HIDE DEF u
<1>4. /\ f \in [Toplevels -> Windows] /\ f[w].redirected = "no"
      /\ \A o \in Toplevels : o # w => f[o] = xd.win[o]
      /\ f[w].phase = "gone" /\ f[w].surface = NoId /\ ~f[w].drawn
  BY <1>2 DEF Windows, Redirections
<1> HIDE DEF f
<1>5. XShape(z) /\ z.win = f /\ z.events = u.events /\ z.requests = u.requests
  BY <1>2, NewWin
<1> HIDE DEF z
<1>6. XShape(y) /\ y.win = f /\ y.events = Append(p, d) /\ y.requests = u.requests
  <2> HIDE DEF p
  <2>1. XShape(y) /\ y.win = z.win /\ y.events = Append(z.events, d) /\ y.requests = z.requests
    BY <1>5, NotifyEffect
  <2> HIDE DEF y, d
  <2> QED
    BY <1>2, <1>5, <2>1
<1>7. /\ e \in News /\ Append(xd.events, e) \in Seq(News) /\ Talk(Append(xd.events, e)) = Talk(xd.events)
      /\ Of(e, w, {"unmap"}) /\ e.window = w
  BY <1>1, MoreNews
<1> HIDE DEF y
<1>8. p \in Seq(News) /\ Talk(p) = Talk(xd.events)
  BY <1>1, <1>7
<1>9. /\ d \in News /\ Append(p, d) \in Seq(News) /\ Talk(Append(p, d)) = Talk(p)
      /\ Of(d, w, {"destroy"}) /\ d.window = w
  <2> HIDE DEF p
  <2> QED
    BY <1>8, MoreNews
<1> HIDE DEF e, d
<1>10. Leaves(xd, y, table, w)
  BY <1>2, <1>4, <1>6, <1>8, <1>9 DEF Leaves
<1>11. ASSUME NEW o \in Toplevels
       PROVE  Orderly(y.events, o, y.win[o].phase, o \in DOMAIN table)
  <2> DEFINE known == o \in DOMAIN table
             q == xd.events
             phase == xd.win[o].phase
  <2>1. Orderly(q, o, phase, known) /\ known \in BOOLEAN /\ q \in Seq(News)
    BY <1>1 DEF NewsFit
  <2>2. CASE o = w
    <3>1. Orderly(p, w, IF phase = "mapped" THEN "out" ELSE phase, known)
      <4>1. CASE phase = "mapped"
        <5>1. Orderly(q, w, "mapped", known)
          BY <2>1, <2>2, <4>1
        <5>2. Orderly(Append(q, e), w, "out", known)
          <6> HIDE DEF known, q, phase
          <6> QED
            BY <1>7, <2>1, <5>1, OrderlyEnd
        <5> QED
          BY <2>2, <4>1, <5>2
      <4>2. CASE phase # "mapped"
        BY <2>1, <2>2, <4>2
      <4> QED
        BY <4>1, <4>2
    <3> DEFINE now == IF phase = "mapped" THEN "out" ELSE phase
    <3>2. now # "mapped" /\ Orderly(p, w, now, known)
      BY <3>1
    <3>3. Orderly(Append(p, d), w, "gone", known)
      <4> HIDE DEF known, now, p
      <4> QED
        BY <1>8, <1>9, <2>1, <3>2, OrderlyEnd
    <3> QED
      BY <1>4, <1>6, <2>2, <3>3
  <2>3. CASE o # w
    <3>1. Orderly(p, o, phase, known)
      <4>1. Orderly(Append(q, e), o, phase, known)
        <5> HIDE DEF known, q, phase
        <5> QED
          BY <1>7, <2>1, <2>3, OrderlyAppend
      <4> QED
        BY <2>1, <4>1
    <3>2. Orderly(Append(p, d), o, phase, known)
      <4> HIDE DEF known, phase, p
      <4> QED
        BY <1>8, <1>9, <2>1, <2>3, <3>1, OrderlyAppend
    <3> QED
      BY <1>4, <1>6, <2>3, <3>2
  <2> QED
    BY <2>2, <2>3
<1>12. NewsFit(y, table)
  BY <1>11 DEF NewsFit
<1>13. RedirectsFit(y.win, table)
  BY <1>1, <1>4, <1>6 DEF RedirectsFit
<1>14. Fits(y, table, shell)
  BY <1>1, <1>10, <1>12, <1>13, LeavesFits
<1> QED
  BY <1>3, <1>14 DEF RootlessInv

LEMMA ClientRetitlesKeeps ==
    ASSUME RootlessInv, NEW w \in Toplevels, ClientRetitles(w)
    PROVE  RootlessInv'
<1> DEFINE e == [type |-> "property", window |-> w, arg |-> NoId]
           f == [xd.win EXCEPT ![w].title = 3 - @]
           d == [xd EXCEPT !.win = f]
<1>1. /\ Fits(xd, table, shell) /\ XShape(xd) /\ xd.win \in [Toplevels -> Windows]
      /\ xd.events \in Seq(News) /\ NewsFit(xd, table)
  BY FitsParts DEF RootlessInv, TypesFit
<1>2. xd' = Notify(d, "property", w, NoId) /\ table' = table /\ shell' = shell
  BY <1>1 DEF ClientRetitles, XOnly, XShape
<1>3. /\ f \in [Toplevels -> Windows] /\ f[w].phase = xd.win[w].phase
      /\ \A o \in Toplevels : o # w => f[o] = xd.win[o]
      /\ f[w].surface = xd.win[w].surface /\ f[w].drawn = xd.win[w].drawn
      /\ f[w].redirected = xd.win[w].redirected
  <2>1. 3 - xd.win[w].title \in 1 .. 2
    BY <1>1 DEF Windows
  <2> QED
    BY <1>1, <2>1 DEF Windows
<1> HIDE DEF f
<1>4. XShape(d) /\ d.win = f /\ d.events = xd.events /\ d.requests = xd.requests
  BY <1>1, NewWin
<1> HIDE DEF d
<1>5. /\ XShape(xd') /\ (xd').win = f /\ (xd').requests = xd.requests
      /\ (xd').events = Append(xd.events, e)
  BY <1>2, <1>4, NotifyEffect
<1>6. e \in News /\ e.window = w /\ e.type = "property"
  BY DEF News
<1> HIDE DEF e
<1>7. Mentions(xd, xd', w, e)
  BY <1>3, <1>5, <1>6 DEF Mentions
<1>8. Orderly((xd').events, w, (xd').win[w].phase, w \in DOMAIN table)
  <2> DEFINE known == w \in DOMAIN table
             q == xd.events
             phase == xd.win[w].phase
  <2>1. Orderly(q, w, phase, known) /\ known \in BOOLEAN /\ q \in Seq(News)
    BY <1>1 DEF NewsFit
  <2>2. Orderly(Append(q, e), w, phase, known)
    <3> HIDE DEF known, q, phase
    <3> QED
      BY <1>6, <2>1, OrderlyAppend
  <2> QED
    BY <1>3, <1>5, <2>2
<1>9. Fits(xd', table, shell)
  BY <1>1, <1>7, <1>8, MentionFits
<1> QED
  BY <1>2, <1>9 DEF RootlessInv

LEMMA ClientAsksFullscreenKeeps ==
    ASSUME RootlessInv, NEW w \in Toplevels, NEW on \in BOOLEAN, ClientAsksFullscreen(w, on)
    PROVE  RootlessInv'
<1> DEFINE e == [type |-> "state", window |-> w, arg |-> on]
<1>1. /\ Fits(xd, table, shell) /\ XShape(xd) /\ xd.win \in [Toplevels -> Windows]
      /\ xd.events \in Seq(News) /\ NewsFit(xd, table)
  BY FitsParts DEF RootlessInv, TypesFit
<1>2. xd.win[w].phase = "mapped" /\ xd' = Notify(xd, "state", w, on) /\ table' = table /\ shell' = shell
  BY DEF ClientAsksFullscreen, XOnly
<1>3. /\ XShape(xd') /\ (xd').win = xd.win /\ (xd').requests = xd.requests
      /\ (xd').events = Append(xd.events, e)
  BY <1>1, <1>2, NotifyEffect
<1>4. e \in News /\ e.window = w /\ e.type = "state" /\ e.type \in Asked
  BY DEF News, Asked
<1> HIDE DEF e
<1>5. Mentions(xd, xd', w, e)
  BY <1>1, <1>3, <1>4 DEF Mentions
<1>6. Orderly((xd').events, w, (xd').win[w].phase, w \in DOMAIN table)
  <2> DEFINE known == w \in DOMAIN table
             q == xd.events
             phase == xd.win[w].phase
  <2>1. Orderly(q, w, phase, known) /\ known \in BOOLEAN /\ q \in Seq(News) /\ phase = "mapped"
    BY <1>1, <1>2 DEF NewsFit
  <2>2. Orderly(Append(q, e), w, phase, known)
    <3> HIDE DEF known, q, phase
    <3> QED
      BY <1>4, <2>1, OrderlyAppend
  <2> QED
    BY <1>3, <2>2
<1>7. Fits(xd', table, shell)
  BY <1>1, <1>5, <1>6, MentionFits
<1> QED
  BY <1>2, <1>7 DEF RootlessInv

LEMMA XwaylandCreatesKeeps ==
    ASSUME RootlessInv, NEW w \in Toplevels, XwaylandCreates(w)
    PROVE  RootlessInv'
<1> DEFINE s == CHOOSE r \in Surfaces : ~Mentioned(r)
           f == [xd.win EXCEPT ![w].surface = s]
           d == [xd EXCEPT !.win = f]
           a == Ask(d, "create", s)
<1>1. /\ Fits(xd, table, shell) /\ XShape(xd) /\ xd.win \in [Toplevels -> Windows]
      /\ xd.events \in Seq(News) /\ xd.requests \in Seq(Calls)
  BY FitsParts DEF RootlessInv, TypesFit
<1>2. /\ s \in Surfaces /\ ~Mentioned(s)
      /\ xd.win[w].phase = "mapped" /\ xd.win[w].surface = NoId
  BY DEF XwaylandCreates
<1>3. xd' = Notify(a, "surface", w, s) /\ table' = table /\ shell' = shell
  <2>1. [xd EXCEPT !.win[w].surface = s] = d
    BY <1>1 DEF XShape
  <2> HIDE DEF d, s
  <2> QED
    BY <2>1 DEF XwaylandCreates, XOnly, s
<1> HIDE DEF s
<1>4. /\ f \in [Toplevels -> Windows] /\ f[w].phase = "mapped" /\ f[w].surface = s
      /\ \A o \in Toplevels : o # w => f[o] = xd.win[o]
      /\ f[w].drawn = xd.win[w].drawn
      /\ f[w].redirected = xd.win[w].redirected /\ f[w].title = xd.win[w].title
  BY <1>1, <1>2 DEF Windows
<1> HIDE DEF f
<1>5. XShape(d) /\ d.win = f /\ d.events = xd.events /\ d.requests = xd.requests
  BY <1>1, NewWin
<1> HIDE DEF d
<1>6. /\ XShape(a) /\ a.win = f /\ a.events = xd.events
      /\ a.requests = Append(xd.requests, [type |-> "create", surface |-> s])
  BY <1>5, AskEffect
<1> HIDE DEF a
<1>7. /\ XShape(xd') /\ (xd').win = f /\ (xd').requests = a.requests
      /\ (xd').events = Append(xd.events, [type |-> "surface", window |-> w, arg |-> s])
  BY SMTT(30), <1>3, <1>6, NotifyEffect
<1>8. /\ s \notin DOMAIN shell.surf
      /\ \A i \in 1 .. Len(xd.events) : xd.events[i].arg # s
      /\ \A i \in 1 .. Len(xd.requests) : xd.requests[i].surface # s
      /\ \A o \in DOMAIN table : table[o].surface # s
  BY <1>1, <1>2 DEF Mentioned
<1>9. Makes(xd, xd', table, shell, w, s)
  BY <1>2, <1>4, <1>6, <1>7, <1>8 DEF Makes
<1>10. Fits(xd', table, shell)
  BY <1>1, <1>9, MakesFits
<1> QED
  BY <1>3, <1>10 DEF RootlessInv

LEMMA XwaylandDrawsKeeps ==
    ASSUME RootlessInv, NEW w \in Toplevels, XwaylandDraws(w)
    PROVE  RootlessInv'
<1> DEFINE s == xd.win[w].surface
           f == [xd.win EXCEPT ![w].drawn = TRUE]
           d == [xd EXCEPT !.win = f]
<1>1. /\ Fits(xd, table, shell) /\ XShape(xd) /\ xd.win \in [Toplevels -> Windows]
  BY FitsParts DEF RootlessInv, TypesFit
<1>2. s # NoId /\ xd' = Ask(d, "commit", s) /\ table' = table /\ shell' = shell
  BY <1>1 DEF XwaylandDraws, XOnly, XShape
<1>3. /\ f \in [Toplevels -> Windows] /\ f[w].phase = xd.win[w].phase /\ f[w].surface = s
      /\ \A o \in Toplevels : o # w => f[o] = xd.win[o]
      /\ f[w].redirected = xd.win[w].redirected /\ f[w].title = xd.win[w].title
  BY <1>1 DEF Windows
<1> HIDE DEF f
<1>4. XShape(d) /\ d.win = f /\ d.events = xd.events /\ d.requests = xd.requests
  BY <1>1, NewWin
<1> HIDE DEF d, s
<1>5. /\ XShape(xd') /\ (xd').win = f /\ (xd').events = xd.events
      /\ (xd').requests = Append(xd.requests, [type |-> "commit", surface |-> s])
  BY <1>2, <1>4, AskEffect
<1>6. Draws(xd, xd', w)
  BY <1>2, <1>3, <1>5 DEF Draws, s
<1>7. Fits(xd', table, shell)
  BY <1>1, <1>6, DrawsFits
<1> QED
  BY <1>2, <1>7 DEF RootlessInv

(***************************************************************************)
(* The steps of the window manager.                                        *)
(***************************************************************************)
LEMMA PresentIsFine == ASSUME RootlessInv PROVE Fine(Present)
BY DEF RootlessInv, Fine, Present

LEMMA FineStep ==
    ASSUME NEW u, Fine(u), Becomes(u)
    PROVE  RootlessInv'
BY DEF Becomes, Fine, RootlessInv

LEMMA PoppedEffect ==
    ASSUME RootlessInv, xd.events # <<>>
    PROVE  /\ Shaped(Popped) /\ XShape(Popped.xd)
           /\ Popped.xd.win = xd.win /\ Popped.xd.requests = xd.requests
           /\ Popped.xd.events = Tail(xd.events) /\ Popped.xd.events \in Seq(News)
           /\ Popped.table = table /\ Popped.shell = shell
           /\ Head(xd.events) \in News /\ Head(xd.events).window \in Toplevels
           /\ Talk(xd.events) = IF Head(xd.events).type \in {"surface", "property"}
                                THEN Talk(Popped.xd.events) \cup {Head(xd.events)}
                                ELSE Talk(Popped.xd.events)
<1> DEFINE y == [xd EXCEPT !.events = Tail(@)]
<1>1. xd.events \in Seq(News) /\ XShape(xd) /\ ShellShape(shell)
  BY FitsParts DEF RootlessInv, TypesFit
<1>2. XShape(y) /\ y.win = xd.win /\ y.requests = xd.requests /\ y.events = Tail(xd.events)
  BY SMTT(30), <1>1 DEF XShape
<1>3. Popped = [xd |-> y, table |-> table, shell |-> shell, ok |-> TRUE]
  <2> DEFINE v == Present
  <2>1. v = [xd |-> xd, table |-> table, shell |-> shell, ok |-> TRUE]
    BY DEF Present
  <2>2. Popped = [v EXCEPT !.xd.events = Tail(@)]
    BY DEF Popped
  <2> HIDE DEF v
  <2>3. Popped = [v EXCEPT !.xd = y]
    BY <2>1, <2>2
  <2> HIDE DEF y
  <2> QED
    BY <2>1, <2>3
<1>4. Tail(xd.events) \in Seq(News) /\ Head(xd.events) \in News
  BY <1>1, AtHead
<1>5. Head(xd.events).window \in Toplevels
  BY <1>4 DEF News
<1>6. Talk(xd.events) = IF Head(xd.events).type \in {"surface", "property"}
                        THEN Talk(Tail(xd.events)) \cup {Head(xd.events)}
                        ELSE Talk(Tail(xd.events))
  BY <1>1, TalkTail
<1> HIDE DEF y
<1>7. Shaped(Popped) /\ Popped.xd = y /\ Popped.table = table /\ Popped.shell = shell
  BY <1>1, <1>2, <1>3 DEF Shaped
<1> HIDE DEF Popped
<1> QED
  BY <1>2, <1>4, <1>5, <1>6, <1>7

LEMMA IdentifiedEffect ==
    ASSUME NEW v, Shaped(v), NEW w \in Toplevels, v.shell.surf \in [DOMAIN v.shell.surf -> ShellSurfaces],
           v.xd.win \in [Toplevels -> Windows]
    PROVE  LET u == Identified(v, w)
               f == v.shell.surf
               g == u.shell.surf
           IN  /\ Shaped(u) /\ u.xd = v.xd /\ u.table = v.table /\ u.shell.stack = v.shell.stack
               /\ g \in [DOMAIN f -> ShellSurfaces]
               /\ \A r \in DOMAIN f :
                    /\ g[r].role = f[r].role /\ g[r].xwindow = f[r].xwindow
                    /\ g[r].pixels = f[r].pixels /\ g[r].fullscreen = f[r].fullscreen
                    /\ g[r].title = IF v.table[w].associated /\ f[r].role = "xwayland" /\ f[r].xwindow = w
                                    THEN v.xd.win[w].title ELSE f[r].title
<1> DEFINE f == v.shell.surf
           title == v.xd.win[w].title
           k == [s \in DOMAIN f |-> IF s \in SurfacesOf(v, w) THEN [f[s] EXCEPT !.title = title] ELSE f[s]]
           h == [v.shell EXCEPT !.surf = k]
           u == [v EXCEPT !.shell = h]
<1>1. CASE ~v.table[w].associated
  BY <1>1 DEF Identified, Shaped
<1>2. CASE v.table[w].associated
  <2>1. Identified(v, w) = u
    BY <1>2 DEF Identified, Shaped, ShellShape
  <2>2. title \in 0 .. 2
    <3>1. v.xd.win[w] \in Windows
      OBVIOUS
    <3>2. title \in 1 .. 2
      BY <3>1 DEF Windows
    <3> QED
      BY <3>2
  <2> HIDE DEF title
  <2>3. /\ k \in [DOMAIN f -> ShellSurfaces]
        /\ \A r \in DOMAIN f :
             /\ k[r].role = f[r].role /\ k[r].xwindow = f[r].xwindow
             /\ k[r].pixels = f[r].pixels /\ k[r].fullscreen = f[r].fullscreen
             /\ k[r].title = IF f[r].role = "xwayland" /\ f[r].xwindow = w THEN title ELSE f[r].title
    BY <2>2 DEF SurfacesOf, ShellSurfaces
  <2> HIDE DEF k
  <2>4. ShellShape(h) /\ h.surf = k /\ h.stack = v.shell.stack
    BY NewSurf DEF Shaped
  <2> HIDE DEF h
  <2>5. Shaped(u) /\ u.xd = v.xd /\ u.table = v.table /\ u.shell = h
    BY <2>4, NewShell
  <2> HIDE DEF u
  <2> QED
    BY <1>2, <2>1, <2>3, <2>4, <2>5 DEF title
<1> QED
  BY <1>1, <1>2

LEMMA PropertyChangedKeeps ==
    ASSUME RootlessInv, PropertyChanged
    PROVE  RootlessInv'
<1> DEFINE w == Target
           v == Popped
           u == IF w \in DOMAIN table THEN Identified(v, w) ELSE v
<1>1. /\ xd.events # <<>> /\ Head(xd.events).type = "property" /\ Becomes(u)
      /\ Head(xd.events).window = w
  BY DEF PropertyChanged, Reads, Target
<1>2. /\ Shaped(v) /\ XShape(v.xd) /\ v.xd.win = xd.win /\ v.xd.requests = xd.requests
      /\ v.xd.events = Tail(xd.events) /\ v.table = table /\ v.shell = shell /\ w \in Toplevels
  BY <1>1, PoppedEffect
<1>3. /\ Fits(xd, table, shell) /\ shell.surf \in [DOMAIN shell.surf -> ShellSurfaces]
      /\ xd.win \in [Toplevels -> Windows]
  BY FitsParts DEF RootlessInv, TypesFit
<1> HIDE DEF v, w
<1>4. /\ Shaped(u) /\ u.xd = v.xd /\ u.table = table /\ u.shell.stack = shell.stack
      /\ u.shell.surf \in [DOMAIN shell.surf -> ShellSurfaces]
      /\ \A r \in DOMAIN shell.surf :
           /\ u.shell.surf[r].role = shell.surf[r].role /\ u.shell.surf[r].xwindow = shell.surf[r].xwindow
           /\ u.shell.surf[r].pixels = shell.surf[r].pixels
           /\ u.shell.surf[r].fullscreen = shell.surf[r].fullscreen
           /\ u.shell.surf[r].title =
                IF w \in DOMAIN table /\ table[w].associated
                   /\ shell.surf[r].role = "xwayland" /\ shell.surf[r].xwindow = w
                THEN xd.win[w].title ELSE shell.surf[r].title
  <2>1. CASE w \notin DOMAIN table
    BY <1>2, <1>3, <2>1
  <2>2. CASE w \in DOMAIN table
    <3> DEFINE i == Identified(v, w)
    <3>1. /\ Shaped(i) /\ i.xd = v.xd /\ i.table = v.table /\ i.shell.stack = v.shell.stack
          /\ i.shell.surf \in [DOMAIN v.shell.surf -> ShellSurfaces]
          /\ \A r \in DOMAIN v.shell.surf :
               /\ i.shell.surf[r].role = v.shell.surf[r].role /\ i.shell.surf[r].xwindow = v.shell.surf[r].xwindow
               /\ i.shell.surf[r].pixels = v.shell.surf[r].pixels
               /\ i.shell.surf[r].fullscreen = v.shell.surf[r].fullscreen
               /\ i.shell.surf[r].title =
                    IF v.table[w].associated /\ v.shell.surf[r].role = "xwayland" /\ v.shell.surf[r].xwindow = w
                    THEN v.xd.win[w].title ELSE v.shell.surf[r].title
      BY <1>2, <1>3, IdentifiedEffect
    <3>2. u = i
      BY <2>2
    <3> HIDE DEF i, u
    <3> QED
      BY <1>2, <2>2, <3>1, <3>2
  <2> QED
    BY <2>1, <2>2
<1> HIDE DEF u
<1>5. Rereads(xd, u.xd, table, shell, u.shell, w)
  BY <1>1, <1>2, <1>4 DEF Rereads, Of, Shaped
<1>6. Fits(u.xd, u.table, u.shell)
  BY <1>2, <1>3, <1>4, <1>5, RereadsFits
<1> QED
  BY <1>1, <1>6 DEF Becomes, RootlessInv

LEMMA SurfaceNamedKeeps ==
    ASSUME RootlessInv, SurfaceNamed
    PROVE  RootlessInv'
<1> DEFINE w == Target
           v == Popped
           s == Head(xd.events).arg
           a == [table EXCEPT ![w].surface = s]
           m == [v EXCEPT !.table = a]
<1>1. /\ xd.events # <<>> /\ Head(xd.events).type = "surface"
      /\ Head(xd.events).window = w
  BY DEF SurfaceNamed, Reads, Target
<1>2. /\ Shaped(v) /\ XShape(v.xd) /\ v.xd.win = xd.win /\ v.xd.requests = xd.requests
      /\ v.xd.events = Tail(xd.events) /\ v.table = table /\ v.shell = shell /\ w \in Toplevels
      /\ Head(xd.events) \in News
  BY <1>1, PoppedEffect
<1>3. /\ Fits(xd, table, shell) /\ table \in [DOMAIN table -> Entries]
  BY FitsParts DEF RootlessInv, TypesFit
<1>4. s \in Surfaces
  BY <1>1, <1>2 DEF News, Turns
<1>5. Becomes(IF w \notin DOMAIN Remembered(v, w).table THEN Remembered(v, w)
              ELSE Associated([Remembered(v, w) EXCEPT !.table[w].surface = s], w))
  BY DEF SurfaceNamed
<1> HIDE DEF w, v
<1>6. Names(xd, v.xd, table, a, w)
  <2>1. /\ DOMAIN a = DOMAIN table /\ a \in [DOMAIN a -> Entries]
        /\ \A o \in DOMAIN table : o # w => a[o] = table[o]
    BY <1>3, <1>4 DEF Entries
  <2>2. w \in DOMAIN table
    <3>1. Orderly(xd.events, w, xd.win[w].phase, w \in DOMAIN table)
      BY <1>2, <1>3, FitsParts, Zenon DEF NewsFit
    <3>2. 1 \in 1 .. Len(xd.events) /\ Of(xd.events[1], w, Asked)
      <4>1. xd.events \in Seq(News)
        BY <1>3, FitsParts
      <4>2. Head(xd.events) = xd.events[1] /\ Len(xd.events) \in Nat /\ Len(xd.events) >= 1
        BY <1>1, <4>1, AtHead
      <4> QED
        BY <1>1, <4>2 DEF Of, Asked
    <3> QED
      BY <3>1, <3>2 DEF Orderly
  <2>3. a[w] = [table[w] EXCEPT !.surface = Head(xd.events).arg]
    BY <2>2
  <2> HIDE DEF a, s
  <2> QED
    BY <1>1, <1>2, <2>1, <2>3 DEF Names, Of
<1>7. w \in DOMAIN table /\ Fits(v.xd, a, shell)
  BY <1>2, <1>3, <1>6, NamesFits
<1>8. Remembered(v, w) = v
  BY <1>2, <1>7, RememberedEffect
<1>9. Becomes(Associated(m, w))
  <2>1. [v EXCEPT !.table[w].surface = s] = m
    BY <1>2 DEF Shaped
  <2> HIDE DEF m, s
  <2> QED
    BY <1>2, <1>5, <1>7, <1>8, <2>1
<1>10. Fine(m) /\ w \in DOMAIN m.table
  <2> HIDE DEF a
  <2>1. Shaped(m) /\ m.xd = v.xd /\ m.table = a /\ m.shell = v.shell
    BY <1>2, NewTable
  <2>2. w \in DOMAIN a
    BY <1>7 DEF a
  <2> HIDE DEF m
  <2> QED
    BY <1>2, <1>7, <2>1, <2>2 DEF Fine, Shaped
<1> HIDE DEF m
<1>11. Fine(Associated(m, w))
  BY <1>10, AssociatedEffect
<1> QED
  BY <1>9, <1>11, FineStep

LEMMA StateAskedKeeps ==
    ASSUME RootlessInv, StateAsked
    PROVE  RootlessInv'
<1> DEFINE w == Target
           p == Popped
           on == Head(xd.events).arg
           S == SurfacesOf(p, w)
           s == CHOOSE r \in S : TRUE
           shown == /\ w \in DOMAIN table /\ table[w].associated /\ table[w].fullscreen # on
                    /\ S \cap Shown(shell) # {}
           f == [shell.surf EXCEPT ![s].fullscreen = on]
           g == [shell EXCEPT !.surf = f]
           set == [p EXCEPT !.shell = g]
           a == IF xd.win[w].phase = "gone" THEN table ELSE [table EXCEPT ![w].fullscreen = on]
           u == IF xd.win[w].phase = "gone" THEN set ELSE [set EXCEPT !.table = a]
<1>1. /\ xd.events # <<>> /\ Head(xd.events).type = "state"
      /\ Head(xd.events).window = w
  BY DEF StateAsked, Reads, Target
<1>2. /\ Shaped(p) /\ XShape(p.xd) /\ p.xd.win = xd.win /\ p.xd.requests = xd.requests
      /\ p.xd.events = Tail(xd.events) /\ p.xd.events \in Seq(News)
      /\ p.table = table /\ p.shell = shell /\ w \in Toplevels
      /\ Head(xd.events) \in News /\ Talk(p.xd.events) = Talk(xd.events)
  BY <1>1, PoppedEffect
<1>3. /\ Fits(xd, table, shell) /\ table \in [DOMAIN table -> Entries] /\ NewsFit(xd, table)
      /\ xd.events \in Seq(News) /\ ShellShape(shell)
      /\ shell.surf \in [DOMAIN shell.surf -> ShellSurfaces]
  BY FitsParts DEF RootlessInv, TypesFit
<1>4. on \in BOOLEAN
  BY <1>1, <1>2 DEF News, Turns
<1>5. LET v == Remembered(p, w)
          r == CHOOSE t \in SurfacesOf(v, w) : TRUE
          known == w \in DOMAIN v.table /\ v.table[w].associated /\ v.table[w].fullscreen # on
          there == known /\ SurfacesOf(v, w) \cap Shown(v.shell) # {}
          put == [v EXCEPT !.shell.surf[r].fullscreen = on]
      IN  Becomes(IF ~there THEN v
                  ELSE IF v.xd.win[w].phase = "gone" THEN put
                  ELSE [put EXCEPT !.table[w].fullscreen = on])
  BY DEF StateAsked
<1> HIDE DEF w, p, on
<1>6. w \in DOMAIN table
  <2>1. Orderly(xd.events, w, xd.win[w].phase, w \in DOMAIN table)
    BY <1>2, <1>3, Zenon DEF NewsFit
  <2>2. 1 \in 1 .. Len(xd.events) /\ Of(xd.events[1], w, Asked)
    <3>1. Head(xd.events) = xd.events[1] /\ Len(xd.events) \in Nat /\ Len(xd.events) >= 1
      BY <1>1, <1>3, AtHead
    <3> QED
      BY <1>1, <3>1 DEF Of, Asked
  <2> QED
    BY <2>1, <2>2 DEF Orderly
<1>7. Remembered(p, w) = p
  BY <1>2, <1>6, RememberedEffect
<1>8. Becomes(IF ~shown THEN p ELSE u)
  <2>1. [p EXCEPT !.shell.surf[s].fullscreen = on] = set
    BY <1>2, <1>3 DEF Shaped, ShellShape
  <2>2. set.table = table /\ [set EXCEPT !.table[w].fullscreen = on] = [set EXCEPT !.table = [table EXCEPT ![w].fullscreen = on]]
    BY <1>2 DEF Shaped
  <2> HIDE DEF S, s, set
  <2>3. LET there == /\ w \in DOMAIN p.table /\ p.table[w].associated /\ p.table[w].fullscreen # on
                     /\ S \cap Shown(p.shell) # {}
        IN  Becomes(IF ~there THEN p
                    ELSE IF p.xd.win[w].phase = "gone" THEN set
                    ELSE [set EXCEPT !.table[w].fullscreen = on])
    BY <1>5, <1>7, <2>1, Zenon DEF S, s
  <2>4. (IF ~shown THEN p
         ELSE IF xd.win[w].phase = "gone" THEN set ELSE [set EXCEPT !.table[w].fullscreen = on])
          = IF ~shown THEN p ELSE u
    BY <2>2
  <2>5. Becomes(IF ~shown THEN p
                ELSE IF xd.win[w].phase = "gone" THEN set ELSE [set EXCEPT !.table[w].fullscreen = on])
    BY <1>2, <2>3
  <2> HIDE DEF u, shown
  <2> QED
    BY <2>4, <2>5
<1>9. Retells(xd, p.xd)
  BY <1>2 DEF Retells
<1>10. NewsFit(p.xd, table)
  <2>1. Head(xd.events).type \notin Turns
    BY <1>1 DEF Turns
  <2>2. \A o \in Toplevels : Orderly(Tail(xd.events), o, xd.win[o].phase, o \in DOMAIN table)
    BY <1>1, <1>3, <2>1, OthersRead
  <2> QED
    BY <1>2, <2>2 DEF NewsFit
<1>11. Fits(p.xd, table, shell)
  BY <1>3, <1>9, <1>10, RetellsFits
<1>12. CASE ~shown
  <2>1. Becomes(p)
    BY <1>8, <1>12
  <2> QED
    BY <1>2, <1>11, <2>1 DEF Becomes, RootlessInv
<1>13. CASE shown
  <2>1. s \in DOMAIN shell.surf /\ shell.surf[s].role = "xwayland" /\ shell.surf[s].xwindow = w
    <3>1. S # {}
      BY <1>13
    <3>2. s \in S
      <4> HIDE DEF S
      <4> QED
        BY <3>1
    <3> HIDE DEF s
    <3> QED
      BY <1>2, <3>2 DEF SurfacesOf
  <2>2. /\ DOMAIN a = DOMAIN table /\ a \in [DOMAIN a -> Entries]
        /\ \A o \in DOMAIN table : o # w => a[o] = table[o]
        /\ a[w].surface = table[w].surface /\ a[w].associated = table[w].associated
        /\ a[w].redirected = table[w].redirected
        /\ xd.win[w].phase = "mapped" => a[w].fullscreen = on
    BY <1>3, <1>4, <1>6 DEF Entries
  <2> HIDE DEF s
  <2>3. ShellShape(g) /\ g.stack = shell.stack /\ g.surf = f
    <3> HIDE DEF f
    <3> QED
      BY <1>3, NewSurf
  <2>4. Fullscreens(p.xd, table, shell, a, g, w, s, on)
    <3> HIDE DEF a, g
    <3> QED
      BY <1>2, <1>4, <1>6, <1>13, <2>1, <2>2, <2>3 DEF Fullscreens
  <2>5. Fits(p.xd, a, g)
    BY <1>11, <2>4, FullscreensFits
  <2> HIDE DEF g
  <2>6. Shaped(set) /\ set.xd = p.xd /\ set.table = table /\ set.shell = g
    BY <1>2, <2>3, NewShell
  <2>7. Shaped(u) /\ u.xd = p.xd /\ u.table = a /\ u.shell = g
    <3>1. CASE xd.win[w].phase = "gone"
      BY <2>6, <3>1
    <3>2. CASE xd.win[w].phase # "gone"
      <4> DEFINE e == [set EXCEPT !.table = a]
      <4>1. Shaped(e) /\ e.xd = p.xd /\ e.table = a /\ e.shell = g
        <5> HIDE DEF set, a
        <5> QED
          BY <2>6, NewTable
      <4>2. u = e
        BY <3>2
      <4> QED
        BY <4>1, <4>2
    <3> QED
      BY <3>1, <3>2
  <2> HIDE DEF u, a
  <2>8. Becomes(u)
    BY <1>8, <1>13
  <2> QED
    BY <2>5, <2>7, <2>8 DEF Becomes, RootlessInv
<1> QED
  BY <1>12, <1>13

\* The manager forgets a window: only its surface may leave the shell.
LEMMA ForgottenEffect ==
    ASSUME NEW v, Shaped(v), NEW w \in Toplevels, v.shell.stack \in Stacks,
           v.shell.surf \in [DOMAIN v.shell.surf -> ShellSurfaces], DOMAIN v.shell.surf \subseteq Surfaces
    PROVE  LET u == Forgotten(v, w)
               f == v.shell.surf
               g == u.shell.surf
           IN  /\ Shaped(u) /\ SameX(v, u)
               /\ u.table = IF w \in DOMAIN v.table THEN Without(v.table, w) ELSE v.table
               /\ u.shell.stack \in Stacks /\ On(u.shell.stack) \subseteq On(v.shell.stack)
               /\ g \in [DOMAIN f -> ShellSurfaces]
               /\ \A r \in DOMAIN f :
                    /\ g[r].role = f[r].role /\ g[r].xwindow = f[r].xwindow
                    /\ g[r].pixels = f[r].pixels /\ g[r].title = f[r].title
                    /\ f[r].xwindow # w =>
                         g[r] = f[r] /\ (r \in On(v.shell.stack) => r \in On(u.shell.stack))
<1>1. CASE w \notin DOMAIN v.table
  BY <1>1 DEF Forgotten, SameX
<1>2. CASE w \in DOMAIN v.table
  <2> DEFINE S == SurfacesOf(v, w)
             s == CHOOSE r \in S : TRUE
             b == UnmapSurface(v, s)
             c == IF v.table[w].associated /\ S # {} THEN b ELSE v
             t == Without(c.table, w)
             u == [c EXCEPT !.table = t]
             f == v.shell.surf
             g == c.shell.surf
  <2>1. Forgotten(v, w) = u
    BY <1>2 DEF Forgotten
  <2>2. /\ Shaped(c) /\ SameX(v, c) /\ c.table = v.table
        /\ c.shell.stack \in Stacks /\ On(c.shell.stack) \subseteq On(v.shell.stack)
        /\ g \in [DOMAIN f -> ShellSurfaces]
        /\ \A r \in DOMAIN f :
             /\ g[r].role = f[r].role /\ g[r].xwindow = f[r].xwindow
             /\ g[r].pixels = f[r].pixels /\ g[r].title = f[r].title
             /\ f[r].xwindow # w =>
                  g[r] = f[r] /\ (r \in On(v.shell.stack) => r \in On(c.shell.stack))
    <3>1. CASE ~(v.table[w].associated /\ S # {})
      <4>1. c = v
        BY <3>1
      <4> HIDE DEF c
      <4> QED
        BY <4>1 DEF SameX
    <3>2. CASE v.table[w].associated /\ S # {}
      <4>1. s \in S
        <5> HIDE DEF S
        <5> QED
          BY <3>2
      <4>2. c = b
        BY <3>2
      <4> HIDE DEF s, c
      <4>3. s \in Surfaces /\ f[s].xwindow = w
        BY <4>1 DEF SurfacesOf
      <4>4. /\ Shaped(b) /\ SameX(v, b) /\ b.table = v.table
            /\ b.shell.stack \in Stacks /\ On(b.shell.stack) = On(v.shell.stack) \ {s}
            /\ b.shell.surf \in [DOMAIN f -> ShellSurfaces]
            /\ \A r \in DOMAIN f :
                 /\ r # s => b.shell.surf[r] = f[r]
                 /\ \A k \in {"role", "xwindow", "pixels", "title"} : b.shell.surf[r][k] = f[r][k]
        BY <4>3, UnmapEffect
      <4>5. \A r \in DOMAIN f :
              /\ b.shell.surf[r].role = f[r].role /\ b.shell.surf[r].xwindow = f[r].xwindow
              /\ b.shell.surf[r].pixels = f[r].pixels /\ b.shell.surf[r].title = f[r].title
        BY <4>4
      <4> HIDE DEF b, S
      <4> QED
        BY <4>2, <4>3, <4>4, <4>5
    <3> QED
      BY <3>1, <3>2
  <2> HIDE DEF c
  <2>3. Shaped(u) /\ u.xd = c.xd /\ u.table = t /\ u.shell = c.shell
    <3>1. Shaped(c)
      BY <2>2
    <3> HIDE DEF t
    <3> QED
      BY <3>1, NewTable
  <2> HIDE DEF u
  <2> QED
    BY <1>2, <2>1, <2>2, <2>3 DEF SameX
<1> QED
  BY <1>1, <1>2

\* The world before the manager forgets w, whose end it has read.
Losing(v, w) ==
    /\ Shaped(v) /\ v.table = table /\ v.shell = shell /\ w \in Toplevels
    /\ xd.events # <<>> /\ Of(Head(xd.events), w, {"unmap", "destroy"})
    /\ v.xd.win \in [Toplevels -> Windows]
    /\ v.xd.requests = xd.requests /\ v.xd.events = Tail(xd.events)
    /\ \A o \in Toplevels : o # w => v.xd.win[o] = xd.win[o]
    /\ v.xd.win[w].phase = xd.win[w].phase /\ v.xd.win[w].surface = xd.win[w].surface
    /\ v.xd.win[w].drawn = xd.win[w].drawn
    /\ v.xd.win[w].redirected # "xwm"
    /\ xd.win[w].redirected = "no" => v.xd.win[w].redirected = "no"

LEMMA LosingKeeps ==
    ASSUME RootlessInv, NEW v, NEW w, Losing(v, w), Becomes(Forgotten(v, w))
    PROVE  RootlessInv'
<1> USE DEF Losing
<1> DEFINE u == Forgotten(v, w)
           f == shell.surf
           e == Head(xd.events)
           y == u.xd
           t == u.table
           h == u.shell
<1>1. /\ Fits(xd, table, shell) /\ NewsFit(xd, table) /\ RedirectsFit(xd.win, table)
      /\ OwnersFit(xd, table, f) /\ DrawnFit(xd, f)
      /\ xd.events \in Seq(News) /\ shell.stack \in Stacks /\ On(shell.stack) \subseteq DOMAIN f
      /\ f \in [DOMAIN f -> ShellSurfaces] /\ DOMAIN f \subseteq Surfaces
      /\ table \in [DOMAIN table -> Entries]
  BY FitsParts DEF RootlessInv, TypesFit
<1>2. /\ Shaped(u) /\ SameX(v, u)
      /\ t = IF w \in DOMAIN table THEN Without(table, w) ELSE table
      /\ h.stack \in Stacks /\ On(h.stack) \subseteq On(shell.stack)
      /\ h.surf \in [DOMAIN f -> ShellSurfaces]
      /\ \A r \in DOMAIN f :
           /\ h.surf[r].role = f[r].role /\ h.surf[r].xwindow = f[r].xwindow
           /\ h.surf[r].pixels = f[r].pixels /\ h.surf[r].title = f[r].title
           /\ f[r].xwindow # w => h.surf[r] = f[r] /\ (r \in On(shell.stack) => r \in On(h.stack))
  <2>1. /\ Shaped(v) /\ w \in Toplevels /\ v.shell = shell /\ v.table = table
        /\ v.shell.stack \in Stacks /\ v.shell.surf \in [DOMAIN v.shell.surf -> ShellSurfaces]
        /\ DOMAIN v.shell.surf \subseteq Surfaces
    BY <1>1
  <2> HIDE DEF Losing, f
  <2>2. /\ Shaped(u) /\ SameX(v, u)
        /\ u.table = IF w \in DOMAIN v.table THEN Without(v.table, w) ELSE v.table
        /\ u.shell.stack \in Stacks /\ On(u.shell.stack) \subseteq On(v.shell.stack)
        /\ u.shell.surf \in [DOMAIN v.shell.surf -> ShellSurfaces]
        /\ \A r \in DOMAIN v.shell.surf :
             /\ u.shell.surf[r].role = v.shell.surf[r].role
             /\ u.shell.surf[r].xwindow = v.shell.surf[r].xwindow
             /\ u.shell.surf[r].pixels = v.shell.surf[r].pixels
             /\ u.shell.surf[r].title = v.shell.surf[r].title
             /\ v.shell.surf[r].xwindow # w =>
                  /\ u.shell.surf[r] = v.shell.surf[r]
                  /\ r \in On(v.shell.stack) => r \in On(u.shell.stack)
    BY ZenonT(30), <2>1, ForgottenEffect
  <2> HIDE DEF u
  <2> QED
    BY <2>1, <2>2 DEF f
<1> HIDE DEF u
<1>3. /\ y.win = v.xd.win /\ y.events = Tail(xd.events) /\ y.requests = xd.requests
      /\ XShape(y) /\ ShellShape(h)
  BY <1>2 DEF SameX, Shaped
<1>4. DOMAIN t = DOMAIN table \ {w} /\ (\A o \in DOMAIN t : t[o] = table[o]) /\ t \in [DOMAIN t -> Entries]
  BY <1>1, <1>2 DEF Without
<1>5. Tail(xd.events) \in Seq(News) /\ Talk(Tail(xd.events)) = Talk(xd.events)
  <2>1. e.type \notin {"surface", "property"}
    BY DEF Of
  <2> QED
    BY <1>1, <2>1, AtHead, TalkTail
<1>6. /\ xd.win[w].phase # "mapped"
      /\ Orderly(Tail(xd.events), w, xd.win[w].phase, FALSE)
  <2> DEFINE q == xd.events
             phase == xd.win[w].phase
             known == w \in DOMAIN table
  <2>1. /\ q \in Seq(News) /\ q # <<>> /\ known \in BOOLEAN /\ Orderly(q, w, phase, known)
        /\ Of(Head(q), w, {"unmap", "destroy"})
    BY <1>1 DEF NewsFit
  <2> HIDE DEF q, phase, known, Losing
  <2>2. phase # "mapped"
    <3>1. 1 \in 1 .. Len(q) /\ Head(q) = q[1]
      BY <2>1, AtHead
    <3>2. Of(q[1], w, Turns)
      BY <2>1, <3>1 DEF Of, Turns
    <3> QED
      BY <2>1, <3>1, <3>2 DEF Orderly
  <2>3. Orderly(Tail(q), w, phase, FALSE)
    BY <2>1, OrderlyGone
  <2> QED
    BY <2>2, <2>3 DEF q, phase
<1>7. NewsFit(y, t)
  <2>1. \A o \in Toplevels : o # w => Orderly(Tail(xd.events), o, xd.win[o].phase, o \in DOMAIN table)
    <3>1. e.window = w
      BY DEF Of
    <3> QED
      BY <1>1, <3>1, OthersRead
  <2> SUFFICES ASSUME NEW o \in Toplevels
               PROVE  Orderly(y.events, o, y.win[o].phase, o \in DOMAIN t)
    BY DEF NewsFit
  <2>2. CASE o = w
    <3>1. (w \in DOMAIN t) = FALSE
      BY <1>4
    <3> QED
      BY <1>3, <1>6, <2>2, <3>1
  <2>3. CASE o # w
    <3>1. (o \in DOMAIN t) = (o \in DOMAIN table)
      BY <1>4, <2>3
    <3> QED
      BY <1>3, <2>1, <2>3, <3>1
  <2> QED
    BY <2>2, <2>3
<1>8. RedirectsFit(y.win, t)
  <2> SUFFICES ASSUME NEW o \in Toplevels
               PROVE  IF y.win[o].phase = "gone" THEN y.win[o].redirected = "no"
                      ELSE y.win[o].redirected = "xwm" <=> o \in DOMAIN t /\ t[o].redirected = "xwm"
    BY DEF RedirectsFit
  <2>1. CASE o = w
    <3>1. xd.win[w].phase = "gone" => xd.win[w].redirected = "no"
      BY <1>1, <2>1 DEF RedirectsFit
    <3> QED
      BY <1>3, <1>4, <2>1, <3>1
  <2>2. CASE o # w
    <3>1. y.win[o] = xd.win[o] /\ (o \in DOMAIN t <=> o \in DOMAIN table)
          /\ (o \in DOMAIN t => t[o] = table[o])
      BY <1>3, <1>4, <2>2
    <3> QED
      BY <1>1, <3>1 DEF RedirectsFit
  <2> QED
    BY <2>1, <2>2
<1>9. ASSUME NEW o \in Toplevels
      PROVE  LET r == xd.win[o].surface
             IN  /\ r \in DOMAIN f => h.surf[r].fullscreen = f[r].fullscreen
                 /\ r \in On(shell.stack) => r \in On(h.stack)
  <2> DEFINE r == xd.win[o].surface
  <2> SUFFICES ASSUME r \in DOMAIN f
               PROVE  /\ h.surf[r].fullscreen = f[r].fullscreen
                      /\ r \in On(shell.stack) => r \in On(h.stack)
    BY <1>1
  <2>1. r # NoId
    BY <1>1, RootlessAssumption
  <2>2. o # w
    BY <1>1, <1>6, <2>1 DEF DrawnFit
  <2>3. f[r].xwindow # w
    BY <1>1, <2>1, <2>2 DEF OwnersFit
  <2> HIDE DEF r, Losing
  <2> QED
    BY <1>2, <2>3
<1>10. Forgets(xd, y, table, t, shell, h, w)
  <2>1. /\ y.win \in [Toplevels -> Windows] /\ \A o \in Toplevels : o # w => y.win[o] = xd.win[o]
        /\ y.win[w].phase = xd.win[w].phase /\ y.win[w].surface = xd.win[w].surface
        /\ y.win[w].drawn = xd.win[w].drawn
    BY <1>3
  <2>2. /\ h.stack \in Stacks /\ On(h.stack) \subseteq On(shell.stack)
        /\ h.surf \in [DOMAIN shell.surf -> ShellSurfaces]
        /\ \A r \in DOMAIN shell.surf :
             /\ h.surf[r].role = shell.surf[r].role /\ h.surf[r].xwindow = shell.surf[r].xwindow
             /\ h.surf[r].pixels = shell.surf[r].pixels /\ h.surf[r].title = shell.surf[r].title
    BY <1>2
  <2> HIDE DEF y, t, h, Losing
  <2> QED
    BY <1>3, <1>4, <1>5, <1>6, <1>9, <2>1, <2>2 DEF Forgets
<1>11. Fits(y, t, h)
  <2>1. w \in Toplevels
    OBVIOUS
  <2> HIDE DEF y, t, h, Losing
  <2> QED
    BY <1>1, <1>7, <1>8, <1>10, <2>1, ForgetsFits
<1> QED
  BY <1>11 DEF u, Becomes, RootlessInv

LEMMA WindowDestroyedKeeps ==
    ASSUME RootlessInv, WindowDestroyed
    PROVE  RootlessInv'
<1> DEFINE w == Target
           v == Popped
<1>1. /\ xd.events # <<>> /\ Head(xd.events).type = "destroy" /\ Becomes(Forgotten(v, w))
      /\ Head(xd.events).window = w
  BY DEF WindowDestroyed, Reads, Target
<1>2. /\ Shaped(v) /\ v.xd.win = xd.win /\ v.xd.requests = xd.requests
      /\ v.xd.events = Tail(xd.events) /\ v.table = table /\ v.shell = shell /\ w \in Toplevels
  BY <1>1, PoppedEffect
<1>3. /\ xd.win \in [Toplevels -> Windows] /\ RedirectsFit(xd.win, table) /\ NewsFit(xd, table)
      /\ xd.events \in Seq(News)
  BY FitsParts DEF RootlessInv
<1> HIDE DEF v, w
<1>4. xd.win[w].redirected = "no"
  <2> DEFINE q == xd.events
             phase == xd.win[w].phase
             known == w \in DOMAIN table
  <2>1. /\ q \in Seq(News) /\ q # <<>> /\ known \in BOOLEAN /\ Orderly(q, w, phase, known)
        /\ Of(Head(q), w, {"unmap", "destroy"}) /\ Of(Head(q), w, {"destroy"})
    BY <1>1, <1>2, <1>3 DEF NewsFit, Of
  <2>2. phase = "gone"
    <3> HIDE DEF q, phase, known
    <3> QED
      BY <2>1, OrderlyGone
  <2> QED
    BY <1>2, <1>3, <2>2 DEF RedirectsFit
<1>5. Losing(v, w)
  BY <1>1, <1>2, <1>3, <1>4 DEF Losing, Of
<1> QED
  BY <1>1, <1>5, LosingKeeps

LEMMA WindowUnmappedKeeps ==
    ASSUME RootlessInv, WindowUnmapped
    PROVE  RootlessInv'
<1> DEFINE w == Target
           p == Popped
           v == Unredirected(p, w)
           f == [xd.win EXCEPT ![w].redirected = IF @ = "xwm" THEN "no" ELSE @]
           y == [p.xd EXCEPT !.win = f]
           z == [p EXCEPT !.xd = y]
<1>1. /\ xd.events # <<>> /\ Head(xd.events).type = "unmap" /\ Becomes(Forgotten(v, w))
      /\ Head(xd.events).window = w
  BY DEF WindowUnmapped, Reads, Target
<1>2. /\ Shaped(p) /\ XShape(p.xd) /\ p.xd.win = xd.win /\ p.xd.requests = xd.requests
      /\ p.xd.events = Tail(xd.events) /\ p.table = table /\ p.shell = shell /\ w \in Toplevels
  BY <1>1, PoppedEffect
<1>3. xd.win \in [Toplevels -> Windows] /\ RedirectsFit(xd.win, table)
  BY FitsParts DEF RootlessInv
<1> HIDE DEF p, w
<1>4. v = IF w \in DOMAIN table /\ table[w].redirected = "xwm" THEN z ELSE p
  <2>1. [p EXCEPT !.xd.win[w].redirected = IF @ = "xwm" THEN "no" ELSE @] = z
    BY <1>2 DEF Shaped, XShape
  <2> HIDE DEF z
  <2> QED
    BY <1>2, <2>1 DEF Unredirected
<1> HIDE DEF v
<1>5. /\ f \in [Toplevels -> Windows] /\ \A o \in Toplevels : o # w => f[o] = xd.win[o]
      /\ f[w].phase = xd.win[w].phase /\ f[w].surface = xd.win[w].surface
      /\ f[w].drawn = xd.win[w].drawn
      /\ f[w].redirected = IF xd.win[w].redirected = "xwm" THEN "no" ELSE xd.win[w].redirected
  BY <1>2, <1>3 DEF Windows, Redirections
<1> HIDE DEF f
<1>6. XShape(y) /\ y.win = f /\ y.events = p.xd.events /\ y.requests = p.xd.requests
  BY <1>2, NewWin
<1> HIDE DEF y
<1>7. Shaped(z) /\ z.xd = y /\ z.table = table /\ z.shell = shell
  BY <1>2, <1>6, NewX
<1> HIDE DEF z
<1>8. Losing(v, w)
  <2>1. CASE w \in DOMAIN table /\ table[w].redirected = "xwm"
    BY <1>1, <1>2, <1>4, <1>5, <1>6, <1>7, <2>1 DEF Losing, Of
  <2>2. CASE ~(w \in DOMAIN table /\ table[w].redirected = "xwm")
    <3>1. xd.win[w].redirected # "xwm"
      BY <1>2, <1>3, <2>2 DEF RedirectsFit
    <3> QED
      BY <1>1, <1>2, <1>3, <1>4, <2>2, <3>1 DEF Losing, Of
  <2> QED
    BY <2>1, <2>2
<1> QED
  BY <1>1, <1>8, LosingKeeps

LEMMA EventsEndKeeps ==
    ASSUME RootlessInv, EventsEnd
    PROVE  RootlessInv'
<1>1. PICK order \in Orders(Present) : Becomes(AllTried(Present, order))
  BY DEF EventsEnd
<1>2. Fine(AllTried(Present, order))
  BY PresentIsFine, PassEffect
<1> QED
  BY <1>1, <1>2, FineStep

\* A window whose mapping was asked for and is not granted.
Refuses(y, w) ==
    LET e == [type |-> "unmap", window |-> w, arg |-> NoId]
    IN  /\ w \in Toplevels /\ xd.events # <<>> /\ Of(Head(xd.events), w, {"map"})
        /\ XShape(y) /\ y.win \in [Toplevels -> Windows] /\ y.requests = xd.requests
        /\ \A o \in Toplevels : o # w => y.win[o] = xd.win[o]
        /\ y.win[w].phase = IF xd.win[w].phase = "asked" THEN "out" ELSE "gone"
        /\ y.win[w].surface = NoId /\ ~y.win[w].drawn
        /\ y.win[w].redirected = xd.win[w].redirected
        /\ \/ y.events = Tail(xd.events)
           \/ y.events = Append(Tail(xd.events), e) /\ y.win[w].phase = "out"

\* What is known when the manager reads that w asks to be mapped.
LEMMA MapRead ==
    ASSUME RootlessInv, xd.events # <<>>, NEW w \in Toplevels, Of(Head(xd.events), w, {"map"})
    PROVE  /\ w \notin DOMAIN table /\ xd.win[w].phase \in {"asked", "gone"}
           /\ xd.win[w].surface = NoId /\ ~xd.win[w].drawn
           /\ xd.win[w].phase = "gone" => Orderly(Tail(xd.events), w, "gone", FALSE)
           /\ xd.win[w].phase = "asked" => /\ Orderly(Tail(xd.events), w, "out", FALSE)
                                           /\ Orderly(Tail(xd.events), w, "mapped", TRUE)
           /\ \A o \in Toplevels \ {w} :
                Orderly(Tail(xd.events), o, xd.win[o].phase, o \in DOMAIN table)
           /\ Tail(xd.events) \in Seq(News) /\ Talk(Tail(xd.events)) = Talk(xd.events)
<1> DEFINE q == xd.events
           phase == xd.win[w].phase
           known == w \in DOMAIN table
<1>1. Fits(xd, table, shell) /\ NewsFit(xd, table) /\ q \in Seq(News)
  BY FitsParts DEF RootlessInv
<1>2. Orderly(q, w, phase, known) /\ known \in BOOLEAN /\ q # <<>> /\ Of(Head(q), w, {"map"})
  BY <1>1 DEF NewsFit
<1>3. /\ ~known /\ phase \in {"asked", "gone"}
      /\ phase = "gone" => Orderly(Tail(q), w, "gone", FALSE)
      /\ phase = "asked" => Orderly(Tail(q), w, "out", FALSE) /\ Orderly(Tail(q), w, "mapped", TRUE)
  <2> HIDE DEF q, phase, known
  <2> QED
    BY <1>1, <1>2, OrderlyAsked
<1>4. Head(q).window = w /\ Head(q).type = "map"
  BY DEF Of
<1>5. \A o \in Toplevels : o # w => Orderly(Tail(q), o, xd.win[o].phase, o \in DOMAIN table)
  BY <1>1, <1>4, OthersRead
<1>6. Tail(q) \in Seq(News) /\ Talk(Tail(q)) = Talk(q)
  BY <1>1, <1>4, AtHead, TalkTail
<1>7. xd.win[w].surface = NoId /\ ~xd.win[w].drawn
  <2>1. phase # "mapped"
    BY <1>3
  <2> QED
    BY <1>1, <2>1, FitsParts
<1> QED
  BY <1>3, <1>5, <1>6, <1>7

LEMMA RefusesFits ==
    ASSUME RootlessInv, NEW y, NEW w, Refuses(y, w)
    PROVE  Fits(y, table, shell)
<1> DEFINE e == [type |-> "unmap", window |-> w, arg |-> NoId]
           p == Tail(xd.events)
<1>1. /\ w \in Toplevels /\ xd.events # <<>> /\ Of(Head(xd.events), w, {"map"})
      /\ XShape(y) /\ y.win \in [Toplevels -> Windows] /\ y.requests = xd.requests
      /\ \A o \in Toplevels : o # w => y.win[o] = xd.win[o]
      /\ y.win[w].phase = IF xd.win[w].phase = "asked" THEN "out" ELSE "gone"
      /\ y.win[w].surface = NoId /\ ~y.win[w].drawn
      /\ y.win[w].redirected = xd.win[w].redirected
      /\ y.events = p \/ (y.events = Append(p, e) /\ y.win[w].phase = "out")
  BY DEF Refuses
<1>2. /\ w \notin DOMAIN table /\ xd.win[w].phase \in {"asked", "gone"}
      /\ xd.win[w].surface = NoId
      /\ xd.win[w].phase = "gone" => Orderly(p, w, "gone", FALSE)
      /\ xd.win[w].phase = "asked" => Orderly(p, w, "out", FALSE)
      /\ \A o \in Toplevels \ {w} : Orderly(p, o, xd.win[o].phase, o \in DOMAIN table)
      /\ p \in Seq(News) /\ Talk(p) = Talk(xd.events)
  BY <1>1, MapRead
<1> HIDE DEF p
<1>3. /\ e \in News /\ Append(p, e) \in Seq(News) /\ Talk(Append(p, e)) = Talk(p)
      /\ e.window = w /\ e.type = "unmap"
  BY <1>1, <1>2, MoreNews
<1> HIDE DEF e
<1>4. Fits(xd, table, shell) /\ RedirectsFit(xd.win, table)
  BY FitsParts DEF RootlessInv
<1>5. Leaves(xd, y, table, w)
  BY <1>1, <1>2, <1>3 DEF Leaves
<1>6. ASSUME NEW o \in Toplevels
      PROVE  Orderly(y.events, o, y.win[o].phase, o \in DOMAIN table)
  <2> DEFINE known == o \in DOMAIN table
             phase == y.win[o].phase
  <2>1. Orderly(p, o, phase, known)
    <3>1. CASE o = w
      <4>1. known = FALSE
        BY <1>2, <3>1
      <4>2. Orderly(p, o, phase, FALSE)
        BY <1>1, <1>2, <3>1
      <4> HIDE DEF known, phase
      <4> QED
        BY <4>1, <4>2
    <3>2. CASE o # w
      BY <1>1, <1>2, <3>2
    <3> QED
      BY <3>1, <3>2
  <2>2. CASE y.events = p
    BY <2>1, <2>2
  <2>3. CASE y.events # p
    <3>1. y.events = Append(p, e) /\ (e.window # o \/ phase = "out") /\ known \in BOOLEAN
      BY <1>1, <1>3, <2>3
    <3>2. Orderly(Append(p, e), o, phase, known)
      <4> HIDE DEF known, phase
      <4> QED
        BY <1>2, <1>3, <2>1, <3>1, OrderlyAppend
    <3> QED
      BY <3>1, <3>2
  <2> QED
    BY <2>2, <2>3
<1>7. NewsFit(y, table)
  BY <1>6 DEF NewsFit
<1>8. RedirectsFit(y.win, table)
  <2>1. \A o \in Toplevels : /\ y.win[o].redirected = xd.win[o].redirected
                             /\ (y.win[o].phase = "gone") = (xd.win[o].phase = "gone")
    BY <1>1, <1>2
  <2> QED
    BY <1>4, <2>1 DEF RedirectsFit
<1> QED
  BY <1>1, <1>4, <1>5, <1>7, <1>8, LeavesFits

\* The table with w, and without it again.
LEMMA InAndOut ==
    ASSUME NEW t, t \in [DOMAIN t -> Entries], NEW w, w \notin DOMAIN t, NEW e
    PROVE  LET a == With(t, w, e)
           IN  /\ DOMAIN a = DOMAIN t \cup {w} /\ a[w] = e
               /\ \A o \in DOMAIN t : a[o] = t[o]
               /\ Without(a, w) = t
<1> DEFINE a == With(t, w, e)
<1>1. DOMAIN a = DOMAIN t \cup {w} /\ a[w] = e /\ \A o \in DOMAIN t : a[o] = t[o]
  BY DEF With
<1> HIDE DEF a
<1>2. Without(a, w) = [o \in DOMAIN t |-> t[o]]
  BY <1>1 DEF Without
<1>3. t = [o \in DOMAIN t |-> t[o]]
  OBVIOUS
<1> QED
  BY <1>1, <1>2, <1>3 DEF a

LEMMA MapRequestedKeeps ==
    ASSUME RootlessInv, NEW answer \in {"xwm", "no"}, MapRequested(answer)
    PROVE  RootlessInv'
<1> DEFINE w == Target
           p == Popped
           v == Remembered(p, w)
           redirected == IF v.table[w].redirected # "no" THEN v.table[w].redirected
                         ELSE IF v.xd.win[w].redirected = "other" THEN "other" ELSE answer
           f == [xd.win EXCEPT ![w].phase = "mapped"]
           y == [p.xd EXCEPT !.win = f]
           m == [v EXCEPT !.xd = y]
<1>1. /\ xd.events # <<>> /\ Head(xd.events).type = "map" /\ Head(xd.events).window = w
  BY DEF MapRequested, Reads, Target
<1>2. /\ Shaped(p) /\ XShape(p.xd) /\ p.xd.win = xd.win /\ p.xd.requests = xd.requests
      /\ p.xd.events = Tail(xd.events) /\ p.table = table /\ p.shell = shell /\ w \in Toplevels
  BY <1>1, PoppedEffect
<1>3. /\ Fits(xd, table, shell) /\ table \in [DOMAIN table -> Entries]
      /\ xd.win \in [Toplevels -> Windows] /\ RedirectsFit(xd.win, table)
  BY FitsParts DEF RootlessInv, TypesFit
<1>4. Becomes(IF w \notin DOMAIN v.table
              THEN [v EXCEPT !.xd.win[w].phase = IF @ = "asked" THEN "out" ELSE @]
              ELSE IF v.xd.win[w].phase = "gone" THEN [v EXCEPT !.table = Without(@, w)]
              ELSE IF redirected = "no"
              THEN [[v EXCEPT !.xd.win[w].phase = "mapped"]
                      EXCEPT !.table = Without(@, w), !.xd = Hidden(@, w, "out")]
              ELSE [[v EXCEPT !.xd.win[w].phase = "mapped"]
                      EXCEPT !.table[w].redirected = redirected, !.xd.win[w].redirected = redirected])
  BY DEF MapRequested
<1> HIDE DEF w, p
<1>5. /\ Shaped(v) /\ v.xd = p.xd /\ v.shell = shell
      /\ v.table = table \/ v.table = With(table, w, Entry)
  BY <1>2, RememberedEffect
<1>6. /\ w \notin DOMAIN table /\ xd.win[w].phase \in {"asked", "gone"}
      /\ xd.win[w].surface = NoId /\ ~xd.win[w].drawn
      /\ xd.win[w].phase = "asked" => /\ Orderly(Tail(xd.events), w, "out", FALSE)
                                      /\ Orderly(Tail(xd.events), w, "mapped", TRUE)
      /\ \A o \in Toplevels \ {w} :
           Orderly(Tail(xd.events), o, xd.win[o].phase, o \in DOMAIN table)
      /\ Tail(xd.events) \in Seq(News) /\ Talk(Tail(xd.events)) = Talk(xd.events)
  <2>1. Of(Head(xd.events), w, {"map"})
    BY <1>1 DEF Of
  <2> QED
    BY <1>1, <1>2, <2>1, MapRead
<1>7. Of(Head(xd.events), w, {"map"})
  BY <1>1 DEF Of
<1>8. LET a == With(table, w, Entry)
      IN  /\ DOMAIN a = DOMAIN table \cup {w} /\ a[w] = Entry
          /\ \A o \in DOMAIN table : a[o] = table[o]
          /\ Without(a, w) = table
  BY <1>3, <1>6, InAndOut
<1> HIDE DEF v
<1>9. CASE w \notin DOMAIN v.table
  <2> DEFINE k == [xd.win EXCEPT ![w].phase = IF @ = "asked" THEN "out" ELSE @]
             z == [p.xd EXCEPT !.win = k]
             u == [v EXCEPT !.xd = z]
  <2>1. v.table = table
    BY <1>5, <1>8, <1>9
  <2>2. [v EXCEPT !.xd.win[w].phase = IF @ = "asked" THEN "out" ELSE @] = u
    BY <1>2, <1>5 DEF Shaped, XShape
  <2>3. Becomes(u)
    <3> HIDE DEF u
    <3> QED
      BY <1>4, <1>9, <2>2
  <2>4. /\ k \in [Toplevels -> Windows] /\ \A o \in Toplevels : o # w => k[o] = xd.win[o]
        /\ k[w].phase = IF xd.win[w].phase = "asked" THEN "out" ELSE "gone"
        /\ k[w].surface = NoId /\ ~k[w].drawn /\ k[w].redirected = xd.win[w].redirected
    BY <1>2, <1>3, <1>6 DEF Windows
  <2> HIDE DEF k
  <2>5. XShape(z) /\ z.win = k /\ z.events = Tail(xd.events) /\ z.requests = xd.requests
    BY <1>2, NewWin
  <2> HIDE DEF z
  <2>6. u.xd = z /\ u.table = table /\ u.shell = shell
    BY <1>5, <2>1, <2>5, NewX
  <2> HIDE DEF u
  <2>7. Refuses(z, w)
    BY <1>1, <1>2, <1>7, <2>4, <2>5 DEF Refuses
  <2>8. Fits(z, table, shell)
    BY <2>7, RefusesFits
  <2> QED
    BY <2>3, <2>6, <2>8 DEF Becomes, RootlessInv
<1>10. CASE w \in DOMAIN v.table /\ xd.win[w].phase = "gone"
  <2> DEFINE t == Without(v.table, w)
             u == [v EXCEPT !.table = t]
  <2>1. v.table = With(table, w, Entry)
    BY <1>5, <1>6, <1>10
  <2>2. t = table
    BY <1>8, <2>1
  <2>3. Becomes(u)
    BY <1>2, <1>4, <1>5, <1>10
  <2> HIDE DEF t
  <2>4. u.xd = p.xd /\ u.table = table /\ u.shell = shell
    BY <1>5, <2>2, NewTable
  <2> HIDE DEF u
  <2>5. Refuses(p.xd, w)
    BY <1>1, <1>2, <1>3, <1>6, <1>7, <1>10 DEF Refuses
  <2>6. Fits(p.xd, table, shell)
    BY <2>5, RefusesFits
  <2> QED
    BY <2>3, <2>4, <2>6 DEF Becomes, RootlessInv
<1>11. CASE w \in DOMAIN v.table /\ xd.win[w].phase = "asked"
  <2> DEFINE a == v.table
  <2>1. /\ a = With(table, w, Entry) /\ DOMAIN a = DOMAIN table \cup {w} /\ a[w] = Entry
        /\ \A o \in DOMAIN table : a[o] = table[o]
        /\ Without(a, w) = table
    <3>1. a = With(table, w, Entry)
      BY <1>5, <1>6, <1>11
    <3> QED
      BY <1>8, <3>1
  <2>2. /\ f \in [Toplevels -> Windows] /\ \A o \in Toplevels : o # w => f[o] = xd.win[o]
        /\ f[w].phase = "mapped" /\ f[w].redirected = xd.win[w].redirected
        /\ f[w].surface = NoId /\ ~f[w].drawn
    BY <1>2, <1>3, <1>6 DEF Windows
  <2>3. [v EXCEPT !.xd.win[w].phase = "mapped"] = m
    BY <1>2, <1>5 DEF Shaped, XShape
  <2> HIDE DEF f
  <2>4. XShape(y) /\ y.win = f /\ y.events = Tail(xd.events) /\ y.requests = xd.requests
    BY <1>2, NewWin
  <2> HIDE DEF y
  <2>5. Shaped(m) /\ m.xd = y /\ m.table = a /\ m.shell = shell
    BY <1>5, <2>4, NewX
  <2> HIDE DEF m
  <2>6. CASE redirected = "no"
    <3> DEFINE h == Hidden(y, w, "out")
               b == [m EXCEPT !.table = table]
               u == [b EXCEPT !.xd = h]
               e == [type |-> "unmap", window |-> w, arg |-> NoId]
    <3>1. [m EXCEPT !.table = Without(@, w), !.xd = Hidden(@, w, "out")] = u
      <4> HIDE DEF a
      <4> QED
        BY <2>1, <2>5 DEF Shaped
    <3>2. Becomes(u)
      <4> HIDE DEF u, redirected
      <4>1. xd.win[w].phase # "gone"
        BY <1>11
      <4> QED
        BY <1>2, <1>4, <1>5, <1>11, <2>3, <2>6, <3>1, <4>1
    <3>3. /\ XShape(h) /\ h.win \in [Toplevels -> Windows]
          /\ \A o \in Toplevels : o # w => h.win[o] = y.win[o]
          /\ h.win[w].phase = "out" /\ h.win[w].surface = NoId /\ ~h.win[w].drawn
          /\ h.win[w].redirected = y.win[w].redirected
          /\ h.events = IF y.win[w].phase = "mapped" THEN Append(y.events, e) ELSE y.events
          /\ h.requests = IF y.win[w].surface = NoId THEN y.requests
                          ELSE Append(y.requests, [type |-> "destroy", surface |-> y.win[w].surface])
      <4>1. XShape(y) /\ y.win \in [Toplevels -> Windows] /\ w \in Toplevels
        BY <1>2, <2>2, <2>4
      <4> QED
        BY <4>1, HiddenEffect
    <3> HIDE DEF h
    <3>4. h.events = Append(Tail(xd.events), e) /\ h.requests = xd.requests
      <4> HIDE DEF e
      <4> QED
        BY <2>2, <2>4, <3>3
    <3>5. Refuses(h, w)
      BY <1>1, <1>2, <1>7, <1>11, <2>2, <2>4, <3>3, <3>4 DEF Refuses
    <3>6. Fits(h, table, shell)
      BY <3>5, RefusesFits
    <3>7. Shaped(b) /\ b.shell = shell /\ b.table = table
      BY <2>5, NewTable
    <3> HIDE DEF b
    <3>8. u.xd = h /\ u.table = table /\ u.shell = shell
      BY <3>3, <3>7, NewX
    <3> HIDE DEF u
    <3> QED
      BY <3>2, <3>6, <3>8 DEF Becomes, RootlessInv
  <2>7. CASE redirected # "no"
    <3> DEFINE r == redirected
               b == [a EXCEPT ![w].redirected = r]
               c == [m EXCEPT !.table = b]
               k == [f EXCEPT ![w].redirected = r]
               z == [y EXCEPT !.win = k]
               u == [c EXCEPT !.xd = z]
    <3>1. r \in Redirections
      <4>1. a[w].redirected = "no"
        BY <2>1 DEF Entry
      <4> QED
        BY <4>1 DEF Redirections
    <3> HIDE DEF r
    <3>2. [m EXCEPT !.table[w].redirected = r, !.xd.win[w].redirected = r] = u
      <4> HIDE DEF a
      <4> QED
        BY <2>4, <2>5 DEF Shaped, XShape
    <3>3. Becomes(u)
      <4> HIDE DEF u
      <4>1. xd.win[w].phase # "gone" /\ redirected = r
        BY <1>11 DEF r
      <4> HIDE DEF redirected
      <4> QED
        BY <1>2, <1>4, <1>5, <1>11, <2>3, <2>7, <3>2, <4>1
    <3>4. /\ k \in [Toplevels -> Windows] /\ \A o \in Toplevels : o # w => k[o] = xd.win[o]
          /\ k[w].phase = "mapped" /\ k[w].redirected = r
          /\ k[w].surface = NoId /\ ~k[w].drawn
      BY <1>2, <2>2, <3>1 DEF Windows
    <3>5. /\ DOMAIN b = DOMAIN table \cup {w} /\ \A o \in DOMAIN table : b[o] = table[o]
          /\ b[w] = [Entry EXCEPT !.redirected = r] /\ b \in [DOMAIN b -> Entries]
      <4> HIDE DEF a
      <4>1. Entry \in Entries
        BY DEF Entry, Entries, Redirections
      <4>2. [Entry EXCEPT !.redirected = r] \in Entries
        BY <3>1, <4>1 DEF Entries
      <4>3. /\ DOMAIN b = DOMAIN table \cup {w} /\ b[w] = [Entry EXCEPT !.redirected = r]
            /\ \A o \in DOMAIN table : b[o] = table[o]
        BY <1>6, <2>1
      <4>4. b = [o \in DOMAIN b |-> b[o]]
        OBVIOUS
      <4> HIDE DEF b
      <4> QED
        BY <1>3, <4>2, <4>3, <4>4
    <3> HIDE DEF b, k
    <3>6. XShape(z) /\ z.win = k /\ z.events = Tail(xd.events) /\ z.requests = xd.requests
      BY <2>4, NewWin
    <3> HIDE DEF z
    <3>7. Shaped(c) /\ c.shell = shell /\ c.table = b
      BY <2>5, NewTable
    <3> HIDE DEF c
    <3>8. u.xd = z /\ u.table = b /\ u.shell = shell
      BY <3>6, <3>7, NewX
    <3> HIDE DEF u
    <3>9. \A n \in Talk(xd.events) : ~Of(n, w, {"surface"})
      <4> DEFINE q == Tail(xd.events)
      <4>1. \A i \in 1 .. Len(q) : ~Of(q[i], w, Asked)
        <5>1. Orderly(q, w, "out", FALSE)
          BY <1>6, <1>11
        <5> HIDE DEF q
        <5> QED
          BY <5>1 DEF Orderly
      <4>2. \A n \in Talk(q) : ~Of(n, w, {"surface"})
        <5> HIDE DEF q
        <5> QED
          BY <4>1 DEF Talk, Of, Asked
      <4> QED
        BY <1>6, <4>2
    <3>10. Adopts(xd, z, table, b, w, r)
      <4>1. xd.win[w].phase # "mapped"
        BY <1>11
      <4>2. xd.win[w] \in Windows /\ z.win[w] \in Windows
        BY <1>2, <1>3, <3>4, <3>6
      <4>3. z.win[w].surface = xd.win[w].surface /\ z.win[w].drawn = xd.win[w].drawn
        BY <1>6, <3>4, <3>6, <4>2 DEF Windows
      <4>4. z.events \in Seq(News) /\ Talk(z.events) = Talk(xd.events)
        BY <1>2, <1>6, <3>6
      <4>5. /\ XShape(z) /\ z.win \in [Toplevels -> Windows] /\ z.requests = xd.requests
            /\ \A o \in Toplevels : o # w => z.win[o] = xd.win[o]
            /\ z.win[w].phase = "mapped" /\ z.win[w].redirected = r
        BY <3>4, <3>6
      <4> QED
        BY <4>1, <4>3, <4>4, <4>5, <1>6, <3>1, <3>5, <3>9 DEF Adopts
    <3>11. NewsFit(z, b)
      <4> SUFFICES ASSUME NEW o \in Toplevels
                   PROVE  Orderly(z.events, o, z.win[o].phase, o \in DOMAIN b)
        BY DEF NewsFit
      <4>1. CASE o = w
        <5>1. (w \in DOMAIN b) = TRUE
          BY <3>5
        <5> QED
          BY <1>6, <1>11, <3>4, <3>6, <4>1, <5>1
      <4>2. CASE o # w
        <5>1. (o \in DOMAIN b) = (o \in DOMAIN table)
          BY <3>5, <4>2
        <5> QED
          BY <1>6, <3>4, <3>6, <4>2, <5>1
      <4> QED
        BY <4>1, <4>2
    <3>12. Fits(z, b, shell)
      BY <1>2, <1>3, <3>10, <3>11, AdoptsFits
    <3> QED
      BY <3>3, <3>8, <3>12 DEF Becomes, RootlessInv
  <2> QED
    BY <2>6, <2>7
<1> QED
  BY <1>6, <1>9, <1>10, <1>11

(***************************************************************************)
(* The steps of the Wayland server and of the user.                        *)
(***************************************************************************)
\* A step of the server's from a world that fits, whatever becomes of the focus.
LEMMA SettleKeeps ==
    ASSUME NEW v, Fine(v), Settle(v)
    PROVE  RootlessInv'
<1>1. Fine(Sync(v))
  BY SyncFits
<1>2. Becomes(Sync(v))
  BY DEF Settle
<1> QED
  BY <1>1, <1>2, FineStep

LEMMA TakenEffect ==
    ASSUME RootlessInv, NEW type, Served(type)
    PROVE  /\ Shaped(Taken) /\ Taken.table = table /\ Taken.shell = shell
           /\ Serves(xd, Taken.xd, Named, type)
<1> DEFINE y == [xd EXCEPT !.requests = Tail(@)]
<1>1. xd.requests \in Seq(Calls) /\ XShape(xd) /\ ShellShape(shell)
  BY FitsParts DEF RootlessInv, TypesFit
<1>2. XShape(y) /\ y.win = xd.win /\ y.events = xd.events /\ y.requests = Tail(xd.requests)
  <2>1. xd = [win |-> xd.win, focus |-> xd.focus, events |-> xd.events, requests |-> xd.requests]
    BY <1>1 DEF XShape
  <2>2. y = [win |-> xd.win, focus |-> xd.focus, events |-> xd.events, requests |-> Tail(xd.requests)]
    <3> DEFINE t == Tail(xd.requests)
    <3>1. y = [xd EXCEPT !.requests = t]
      OBVIOUS
    <3> HIDE DEF t, y
    <3>2. y = [win |-> xd.win, focus |-> xd.focus, events |-> xd.events, requests |-> t]
      BY <2>1, <3>1
    <3> QED
      BY <3>2 DEF t
  <2> HIDE DEF y
  <2> QED
    BY <2>2 DEF XShape
<1>3. Taken = [xd |-> y, table |-> table, shell |-> shell, ok |-> TRUE]
  <2> DEFINE v == Present
  <2>1. v = [xd |-> xd, table |-> table, shell |-> shell, ok |-> TRUE]
    BY DEF Present
  <2>2. Taken = [v EXCEPT !.xd.requests = Tail(@)]
    BY DEF Taken
  <2> HIDE DEF v
  <2>3. Taken = [v EXCEPT !.xd = y]
    BY <2>1, <2>2
  <2> HIDE DEF y
  <2> QED
    BY <2>1, <2>3
<1>4. xd.requests # <<>> /\ Head(xd.requests).type = type
  BY DEF Served
<1>5. Head(xd.requests) \in Calls
  BY <1>1, <1>4, AtHead
<1>6. Named \in Surfaces /\ For(Head(xd.requests), Named, type)
  BY <1>4, <1>5 DEF Named, Calls, For
<1> HIDE DEF y
<1>7. Shaped(Taken) /\ Taken.xd = y /\ Taken.table = table /\ Taken.shell = shell
  BY <1>1, <1>2, <1>3 DEF Shaped
<1> HIDE DEF Taken
<1> QED
  BY <1>2, <1>4, <1>6, <1>7 DEF Serves

LEMMA SurfaceMadeKeeps ==
    ASSUME RootlessInv, SurfaceMade
    PROVE  RootlessInv'
<1> DEFINE v == Taken
           s == Named
           e == [NoSurface EXCEPT !.role = IF serials THEN "xwayland" ELSE "none"]
           f == With(shell.surf, s, e)
           g == [shell EXCEPT !.surf = f]
           u == [v EXCEPT !.shell = g]
<1>1. Served("create") /\ Settle([v EXCEPT !.shell.surf = With(@, s, e)])
  BY DEF SurfaceMade
<1>2. Shaped(v) /\ v.table = table /\ v.shell = shell /\ Serves(xd, v.xd, s, "create")
  BY <1>1, TakenEffect
<1>3. /\ Fits(xd, table, shell) /\ ShellShape(shell) /\ s \in Surfaces
      /\ shell.surf \in [DOMAIN shell.surf -> ShellSurfaces]
  BY <1>2, FitsParts DEF RootlessInv, TypesFit, Serves
<1> HIDE DEF v, s
<1>4. [v EXCEPT !.shell.surf = With(@, s, e)] = u
  <2> HIDE DEF e
  <2> QED
    BY <1>2 DEF Shaped
<1>5. /\ e \in ShellSurfaces /\ e.xwindow = NoId /\ ~e.pixels /\ ~e.fullscreen
  <2> DEFINE role == IF serials THEN "xwayland" ELSE "none"
  <2>1. role \in {"none", "xwayland"}
    OBVIOUS
  <2>2. e = [NoSurface EXCEPT !.role = role]
    OBVIOUS
  <2> HIDE DEF role, e
  <2>3. e = [role |-> role, xwindow |-> NoId, pixels |-> FALSE, title |-> 0, fullscreen |-> FALSE]
    BY <2>2 DEF NoSurface
  <2> QED
    BY <2>1, <2>3 DEF ShellSurfaces
<1> HIDE DEF e
<1>6. /\ DOMAIN f = DOMAIN shell.surf \cup {s} /\ f[s] = e /\ f \in [DOMAIN f -> ShellSurfaces]
      /\ \A r \in DOMAIN shell.surf \ {s} : f[r] = shell.surf[r]
  BY <1>3, <1>5 DEF With
<1> HIDE DEF f
<1>7. ShellShape(g) /\ g.surf = f /\ g.stack = shell.stack
  BY <1>3, NewSurf
<1> HIDE DEF g
<1>8. Made(shell, g, s)
  BY <1>5, <1>6, <1>7 DEF Made
<1>9. Fits(v.xd, table, g)
  BY <1>2, <1>3, <1>8, MadeFits
<1>10. Shaped(u) /\ u.xd = v.xd /\ u.table = table /\ u.shell = g
  BY <1>2, <1>7, NewShell
<1>11. Settle(u)
  BY <1>1, <1>4
<1> HIDE DEF u
<1>12. Fine(u)
  BY <1>9, <1>10 DEF Fine, Shaped
<1> QED
  BY <1>11, <1>12, SettleKeeps

LEMMA SurfaceCommittedKeeps ==
    ASSUME RootlessInv, SurfaceCommitted
    PROVE  RootlessInv'
<1> DEFINE v == Taken
           s == Named
           f == [shell.surf EXCEPT ![s].pixels = TRUE]
           g == [shell EXCEPT !.surf = f]
           m == [v EXCEPT !.shell = g]
           u == MapSurface(m, s)
<1>1. Served("commit") /\ Settle(MapSurface([v EXCEPT !.shell.surf[s].pixels = TRUE], s))
  BY DEF SurfaceCommitted
<1>2. Shaped(v) /\ v.table = table /\ v.shell = shell /\ Serves(xd, v.xd, s, "commit")
  BY <1>1, TakenEffect
<1>3. /\ Fits(xd, table, shell) /\ ShellShape(shell) /\ shell.stack \in Stacks
      /\ shell.surf \in [DOMAIN shell.surf -> ShellSurfaces] /\ DOMAIN shell.surf \subseteq Surfaces
  BY FitsParts DEF RootlessInv, TypesFit
<1>4. s \in DOMAIN shell.surf
  BY <1>2, <1>3, CommitRead
<1> HIDE DEF v, s
<1>5. [v EXCEPT !.shell.surf[s].pixels = TRUE] = m
  BY <1>2, <1>3 DEF Shaped, ShellShape
<1>6. /\ f \in [DOMAIN shell.surf -> ShellSurfaces]
      /\ \A r \in DOMAIN shell.surf : r # s => f[r] = shell.surf[r]
      /\ f[s].pixels
      /\ f[s].role = shell.surf[s].role /\ f[s].xwindow = shell.surf[s].xwindow
      /\ f[s].title = shell.surf[s].title /\ f[s].fullscreen = shell.surf[s].fullscreen
  BY <1>3, <1>4 DEF ShellSurfaces
<1> HIDE DEF f
<1>7. ShellShape(g) /\ g.surf = f /\ g.stack = shell.stack
  BY <1>3, NewSurf
<1> HIDE DEF g
<1>8. Shaped(m) /\ m.xd = v.xd /\ m.table = table /\ m.shell = g
  BY <1>2, <1>7, NewShell
<1>9. Settle(u)
  BY <1>1, <1>5
<1> HIDE DEF m
<1>10. s \in DOMAIN m.shell.surf /\ m.shell.stack \in Stacks /\ DOMAIN m.shell.surf \subseteq Surfaces
  BY <1>3, <1>4, <1>6, <1>7, <1>8
<1>11. /\ Shaped(u) /\ u.xd = m.xd /\ u.table = m.table
       /\ u.shell.surf = m.shell.surf /\ u.shell.stack \in Stacks
       /\ On(u.shell.stack) =
            IF m.shell.surf[s].role = "xwayland" /\ m.shell.surf[s].pixels
            THEN On(m.shell.stack) \cup {s} ELSE On(m.shell.stack)
  BY <1>8, <1>10, MapEffect
<1> HIDE DEF u
<1>12. Pictured(shell, u.shell, s)
  <2>1. On(u.shell.stack) = IF shell.surf[s].role = "xwayland"
                            THEN On(shell.stack) \cup {s} ELSE On(shell.stack)
    BY <1>6, <1>7, <1>8, <1>11
  <2>2. ShellShape(u.shell) /\ u.shell.stack \in Stacks /\ u.shell.surf = f
    BY <1>7, <1>8, <1>11 DEF Shaped
  <2> QED
    BY <1>6, <2>1, <2>2 DEF Pictured
<1>13. Fits(v.xd, table, u.shell)
  BY <1>2, <1>3, <1>12, PicturedFits
<1>14. Fine(u)
  BY <1>8, <1>11, <1>13 DEF Fine, Shaped
<1> QED
  BY <1>9, <1>14, SettleKeeps

LEMMA SurfaceGoneKeeps ==
    ASSUME RootlessInv, SurfaceGone
    PROVE  RootlessInv'
<1> DEFINE v == Taken
           s == Named
           m == UnmapSurface(v, s)
           f == Without(m.shell.surf, s)
           g == [m.shell EXCEPT !.surf = f]
           u == [m EXCEPT !.shell = g]
<1>1. Served("destroy") /\ Settle([m EXCEPT !.shell.surf = Without(@, s)])
  BY DEF SurfaceGone
<1>2. Shaped(v) /\ v.table = table /\ v.shell = shell /\ Serves(xd, v.xd, s, "destroy")
  BY <1>1, TakenEffect
<1>3. /\ Fits(xd, table, shell) /\ s \in Surfaces /\ shell.stack \in Stacks
      /\ shell.surf \in [DOMAIN shell.surf -> ShellSurfaces]
  BY <1>2, FitsParts DEF RootlessInv, TypesFit, Serves
<1> HIDE DEF v, s
<1>4. /\ Shaped(m) /\ SameX(v, m) /\ m.table = v.table
      /\ m.shell.stack \in Stacks /\ On(m.shell.stack) = On(v.shell.stack) \ {s}
      /\ m.shell.surf \in [DOMAIN v.shell.surf -> ShellSurfaces]
      /\ \A r \in DOMAIN v.shell.surf : r # s => m.shell.surf[r] = v.shell.surf[r]
  BY ZenonT(30), <1>2, <1>3, UnmapEffect
<1> HIDE DEF m
<1>5. [m EXCEPT !.shell.surf = Without(@, s)] = u
  BY <1>4 DEF Shaped
<1>6. /\ DOMAIN f = DOMAIN shell.surf \ {s} /\ f \in [DOMAIN f -> ShellSurfaces]
      /\ \A r \in DOMAIN f : f[r] = shell.surf[r]
  BY <1>2, <1>4 DEF Without
<1> HIDE DEF f
<1>7. ShellShape(g) /\ g.surf = f /\ g.stack = m.shell.stack
  BY <1>4, NewSurf DEF Shaped
<1> HIDE DEF g
<1>8. Shaped(u) /\ u.xd = m.xd /\ u.table = table /\ u.shell = g
  BY <1>2, <1>4, <1>7, NewShell
<1>9. Settle(u)
  BY <1>1, <1>5
<1> HIDE DEF u
<1>10. Ended(shell, g, s)
  BY <1>2, <1>4, <1>6, <1>7 DEF Ended
<1>11. Serves(xd, m.xd, s, "destroy")
  BY <1>2, <1>4 DEF Serves, SameX, Shaped
<1>12. Fits(m.xd, table, g)
  BY <1>3, <1>10, <1>11, EndedFits
<1>13. Fine(u)
  BY <1>8, <1>12 DEF Fine, Shaped
<1> QED
  BY <1>9, <1>13, SettleKeeps

LEMMA UserActivatesKeeps ==
    ASSUME RootlessInv, NEW s \in Surfaces \cup {NoId}, UserActivates(s)
    PROVE  RootlessInv'
<1> DEFINE v == Present
           q == Append(Remove(shell.stack, s), s)
           g == [shell EXCEPT !.stack = q]
           u == [v EXCEPT !.shell = g]
<1>1. s \in Shown(shell) \cup {NoId} /\ Settle([v EXCEPT !.shell.stack = Append(Remove(@, s), s)])
  BY DEF UserActivates
<1>2. Fine(v) /\ v.shell = shell
  BY PresentIsFine DEF Present
<1>3. shell.stack \in Stacks /\ ShellShape(shell)
  BY FitsParts DEF RootlessInv, TypesFit
<1> HIDE DEF v
<1>4. Shaped(v)
  BY <1>2, FineIsShaped
<1>5. [v EXCEPT !.shell.stack = Append(Remove(@, s), s)] = u
  BY <1>2, <1>4 DEF Shaped
<1>6. q \in Stacks /\ On(q) = On(shell.stack)
  <2>1. s \in On(shell.stack) \cup {NoId}
    BY <1>1 DEF Shown, On
  <2> QED
    BY <1>3, <2>1, RaiseEffect
<1> HIDE DEF q
<1>7. ShellShape(g) /\ g.surf = shell.surf /\ g.stack = q
  BY <1>3, NewStack
<1> HIDE DEF g
<1>8. Shaped(u) /\ u.xd = v.xd /\ u.table = v.table /\ u.shell = g
  BY <1>4, <1>7, NewShell
<1>9. Settle(u)
  BY <1>1, <1>5
<1> HIDE DEF u
<1>10. Fine(u)
  <2>1. SameX(v, u)
    BY <1>8 DEF SameX
  <2> QED
    BY <1>2, <1>6, <1>7, <1>8, <2>1, FineStays
<1> QED
  BY <1>9, <1>10, SettleKeeps

LEMMA RootlessInvInit ==
    ASSUME RootlessInit
    PROVE  RootlessInv
<1>1. PICK others \in SUBSET Toplevels :
        xd = [win |-> [w \in Toplevels |-> Unmapped(IF w \in others THEN "other" ELSE "no")],
              focus |-> NoId, events |-> <<>>, requests |-> <<>>]
  BY DEF RootlessInit
<1>2. /\ table = << >> /\ shell = [surf |-> << >>, stack |-> <<NoId>>, keyboard |-> NoId]
  BY DEF RootlessInit
<1>3. /\ XShape(xd) /\ ShellShape(shell) /\ xd.events = <<>> /\ xd.requests = <<>>
      /\ shell.surf = << >> /\ shell.stack = <<NoId>>
  BY <1>1, <1>2 DEF XShape, ShellShape
<1>4. /\ xd.win \in [Toplevels -> Windows]
      /\ \A w \in Toplevels : /\ xd.win[w].phase = "out" /\ xd.win[w].surface = NoId /\ ~xd.win[w].drawn
                              /\ xd.win[w].redirected \in {"other", "no"}
  <2> DEFINE r(w) == IF w \in others THEN "other" ELSE "no"
             k == [w \in Toplevels |-> Unmapped(r(w))]
  <2>1. \A w \in Toplevels : r(w) \in {"other", "no"}
    OBVIOUS
  <2>2. xd.win = k
    BY <1>1
  <2> HIDE DEF r
  <2>3. \A w \in Toplevels :
          k[w] = [phase |-> "out", redirected |-> r(w), surface |-> NoId, drawn |-> FALSE, title |-> 1]
    BY DEF Unmapped
  <2>4. \A w \in Toplevels : /\ k[w] \in Windows
                             /\ k[w].phase = "out" /\ k[w].surface = NoId /\ ~k[w].drawn
                             /\ k[w].redirected \in {"other", "no"}
    <3> SUFFICES ASSUME NEW w \in Toplevels
                 PROVE  /\ k[w] \in Windows
                        /\ k[w].phase = "out" /\ k[w].surface = NoId /\ ~k[w].drawn
                        /\ k[w].redirected \in {"other", "no"}
      OBVIOUS
    <3> DEFINE e == k[w]
               d == r(w)
    <3>1. /\ e = [phase |-> "out", redirected |-> d, surface |-> NoId, drawn |-> FALSE, title |-> 1]
          /\ d \in {"other", "no"}
      BY <2>1, <2>3
    <3> HIDE DEF e, d
    <3>2. /\ e \in Windows /\ e.phase = "out" /\ e.surface = NoId /\ ~e.drawn
          /\ e.redirected \in {"other", "no"}
      BY <3>1 DEF Windows, Redirections
    <3> QED
      BY <3>2 DEF e
  <2>5. k \in [Toplevels -> Windows]
    BY <2>4
  <2> HIDE DEF k
  <2> QED
    BY <2>2, <2>4, <2>5
<1>5. \A T : << >> \in [DOMAIN << >> -> T] /\ << >> \in Seq(T) /\ DOMAIN << >> = {}
  OBVIOUS
<1>6. /\ table \in [DOMAIN table -> Entries] /\ DOMAIN table = {}
      /\ shell.surf \in [DOMAIN shell.surf -> ShellSurfaces] /\ DOMAIN shell.surf = {}
      /\ xd.events \in Seq(News) /\ xd.requests \in Seq(Calls)
  <2>1. table = << >> /\ shell.surf = << >> /\ xd.events = <<>> /\ xd.requests = <<>>
    BY <1>2, <1>3
  <2> QED
    BY <1>5, <2>1, Zenon
<1>7. shell.stack \in Stacks /\ On(shell.stack) = {}
  BY <1>3 DEF Stacks, On
<1>8. TypesFit(xd, table, shell)
  BY <1>3, <1>4, <1>6, <1>7 DEF TypesFit
<1>9. NewsFit(xd, table)
  BY <1>3, <1>4, <1>6 DEF NewsFit, Orderly
<1>10. \A s \in Surfaces : ~Living(xd.win, s)
  BY <1>4, RootlessAssumption DEF Living
<1>11. CallsFit(xd, shell.surf)
  BY <1>3, <1>6, <1>10 DEF CallsFit, Told
<1>12. RedirectsFit(xd.win, table) /\ DrawnFit(xd, shell.surf) /\ OwnersFit(xd, table, shell.surf)
  BY <1>4, <1>6 DEF RedirectsFit, DrawnFit, OwnersFit
<1>13. ShownFit(xd.win, shell) /\ EntriesFit(xd, table, shell.surf)
  BY <1>4, <1>6 DEF ShownFit, EntriesFit
<1> QED
  BY <1>8, <1>9, <1>11, <1>12, <1>13 DEF RootlessInv, Fits

LEMMA RootlessInvStep == RootlessInv /\ [RootlessNext]_rootlessVars => RootlessInv'
<1> SUFFICES ASSUME RootlessInv, [RootlessNext]_rootlessVars
             PROVE  RootlessInv'
  OBVIOUS
<1>1. CASE UNCHANGED rootlessVars
  BY <1>1 DEF rootlessVars, RootlessInv
<1>2. ASSUME NEW w \in Toplevels,
             \/ ClientMaps(w) \/ ClientUnmaps(w) \/ ClientDestroys(w) \/ ClientRetitles(w)
             \/ XwaylandCreates(w) \/ XwaylandDraws(w)
             \/ \E on \in BOOLEAN : ClientAsksFullscreen(w, on)
      PROVE  RootlessInv'
  BY <1>2, ClientMapsKeeps, ClientUnmapsKeeps, ClientDestroysKeeps, ClientRetitlesKeeps,
     ClientAsksFullscreenKeeps, XwaylandCreatesKeeps, XwaylandDrawsKeeps
<1>3. ASSUME NEW answer \in {"xwm", "no"}, MapRequested(answer)
      PROVE  RootlessInv'
  BY <1>3, MapRequestedKeeps
<1>4. CASE \/ SurfaceNamed \/ StateAsked \/ PropertyChanged \/ WindowUnmapped \/ WindowDestroyed
           \/ EventsEnd
  BY <1>4, SurfaceNamedKeeps, StateAskedKeeps, PropertyChangedKeeps, WindowUnmappedKeeps,
     WindowDestroyedKeeps, EventsEndKeeps
<1>5. CASE SurfaceMade \/ SurfaceCommitted \/ SurfaceGone
  BY <1>5, SurfaceMadeKeeps, SurfaceCommittedKeeps, SurfaceGoneKeeps
<1>6. ASSUME NEW s \in Surfaces \cup {NoId}, UserActivates(s)
      PROVE  RootlessInv'
  BY <1>6, UserActivatesKeeps
<1> QED
  BY <1>1, <1>2, <1>3, <1>4, <1>5, <1>6 DEF RootlessNext

\* An association that could be made is made.
LEMMA AssociableIsTried ==
    ASSUME NEW v, Fine(v), NEW w \in DOMAIN v.table, Associated(v, w) = v,
           v.table[w].surface # NoId, Associable(v, v.table[w].surface, w)
    PROVE  v.table[w].associated
<1> SUFFICES ASSUME ~v.table[w].associated
             PROVE  FALSE
  OBVIOUS
<1> DEFINE s == v.table[w].surface
           a == [v.table EXCEPT ![w].associated = TRUE]
           f == [v.shell.surf EXCEPT ![s] = [@ EXCEPT !.role = "xwayland", !.xwindow = w,
                                                       !.title = v.xd.win[w].title]]
           g == [v.shell EXCEPT !.surf = f]
           b == [v EXCEPT !.table = a]
           m == [b EXCEPT !.shell = g]
<1>1. /\ Shaped(v) /\ ShellShape(v.shell) /\ v.table \in [DOMAIN v.table -> Entries]
      /\ v.shell.stack \in Stacks /\ DOMAIN v.shell.surf \subseteq Surfaces
  BY FineIsShaped, FitsParts DEF Fine, TypesFit
<1>2. v = MapSurface(m, s)
  <2>1. v = MapSurface([v EXCEPT !.table[w].associated = TRUE,
                                 !.shell.surf[s] = [@ EXCEPT !.role = "xwayland", !.xwindow = w,
                                                             !.title = v.xd.win[w].title]], s)
    BY DEF Associated
  <2>2. [v EXCEPT !.table[w].associated = TRUE,
                  !.shell.surf[s] = [@ EXCEPT !.role = "xwayland", !.xwindow = w,
                                              !.title = v.xd.win[w].title]] = m
    <3> HIDE DEF s
    <3> QED
      BY <1>1 DEF Shaped, ShellShape
  <2> HIDE DEF m, s
  <2> QED
    BY <2>1, <2>2
<1>3. s \in DOMAIN v.shell.surf
  BY DEF Associable
<1>4. a[w].associated
  BY <1>1 DEF Entries
<1> HIDE DEF a, s
<1>5. DOMAIN f = DOMAIN v.shell.surf
  OBVIOUS
<1> HIDE DEF f
<1>6. ShellShape(g) /\ g.surf = f /\ g.stack = v.shell.stack
  BY <1>1, NewSurf
<1> HIDE DEF g
<1>7. Shaped(b) /\ b.table = a
  BY <1>1, NewTable
<1> HIDE DEF b
<1>8. Shaped(m) /\ m.table = a /\ m.shell = g
  BY <1>6, <1>7, NewShell
<1> HIDE DEF m
<1>9. s \in DOMAIN m.shell.surf /\ m.shell.stack \in Stacks /\ DOMAIN m.shell.surf \subseteq Surfaces
  BY <1>1, <1>3, <1>5, <1>6, <1>8
<1>10. MapSurface(m, s).table = m.table
  BY <1>8, <1>9, MapEffect
<1> QED
  BY <1>2, <1>4, <1>8, <1>10

\* Some order of the table's slots is the one that the manager takes.
LEMMA SomeOrder ==
    ASSUME RootlessInv
    PROVE  Orders(Present) # {}
<1> DEFINE D == DOMAIN Present.table
<1>1. D \subseteq Toplevels /\ IsFiniteSet(Toplevels)
  BY FitsParts, RootlessAssumption DEF RootlessInv, Present
<1>2. IsFiniteSet(D)
  BY <1>1, FS_Subset
<1> HIDE DEF D
<1>3. ExistsBijection(1 .. Cardinality(D), D)
  BY <1>2, FS_CardinalityType
<1> QED
  BY <1>3 DEF Orders, ExistsBijection, D

\* What is left of the invariant when nothing is still to be heard.
LEMMA HeardOf ==
    ASSUME RootlessInv, xd.events = <<>>, xd.requests = <<>>
    PROVE  /\ \A w \in Toplevels : xd.win[w].phase = "mapped" <=> w \in DOMAIN table
           /\ \A s \in DOMAIN shell.surf : \E w \in Toplevels : xd.win[w].surface = s
           /\ Talk(xd.events) = {} /\ Commits(xd.requests) = {}
<1>1. NewsFit(xd, table) /\ CallsFit(xd, shell.surf) /\ DOMAIN shell.surf \subseteq Surfaces
  BY FitsParts DEF RootlessInv
<1>2. Len(xd.events) = 0 /\ Len(xd.requests) = 0 /\ 1 .. 0 = {}
  OBVIOUS
<1>3. \A w \in Toplevels : xd.win[w].phase = "mapped" <=> w \in DOMAIN table
  BY <1>1, <1>2 DEF NewsFit, Orderly
<1>4. \A s \in DOMAIN shell.surf : Living(xd.win, s)
  BY <1>1, <1>2 DEF CallsFit, Told
<1> QED
  BY <1>2, <1>3, <1>4 DEF Living, Talk, Commits

\* A surface that is shown once everything is heard, of a window that drew.
LEMMA DrawnIsShown ==
    ASSUME RootlessInv, xd.events = <<>>, xd.requests = <<>>,
           \A w \in DOMAIN table : Associated(Present, w) = Present,
           NEW w \in Toplevels, xd.win[w].surface # NoId, xd.win[w].drawn
    PROVE  LET s == xd.win[w].surface
           IN  /\ s \in Shown(shell)
               /\ shell.surf[s].xwindow = w /\ shell.surf[s].title = xd.win[w].title
               /\ shell.surf[s].fullscreen = table[w].fullscreen
<1> DEFINE s == xd.win[w].surface
           f == shell.surf
<1>1. /\ TypesFit(xd, table, shell) /\ DrawnFit(xd, f) /\ OwnersFit(xd, table, f)
      /\ ShownFit(xd.win, shell) /\ EntriesFit(xd, table, f) /\ s \in Surfaces
  BY FitsParts DEF RootlessInv
<1>2. Talk(xd.events) = {} /\ Commits(xd.requests) = {}
  BY HeardOf
<1>3. xd.win[w].phase = "mapped" /\ s \in DOMAIN f /\ f[s].pixels
  BY <1>1, <1>2 DEF DrawnFit
<1>4. w \in DOMAIN table
  BY <1>3, HeardOf
<1>5. Matches(xd, table[w], f, w)
  BY <1>1, <1>3 DEF EntriesFit
<1>6. table[w].surface = s
  BY <1>2, <1>5 DEF Matches
<1>7. table[w].associated
  <2> DEFINE v == Present
  <2>1. v.table = table /\ v.shell = shell /\ Fine(v)
    BY PresentIsFine DEF Present
  <2>2. SurfacesOf(v, w) \subseteq {s}
    <3> SUFFICES ASSUME NEW r \in DOMAIN f, f[r].xwindow = w, r # s
                 PROVE  FALSE
      BY <2>1 DEF SurfacesOf
    <3>1. PICK o \in Toplevels : xd.win[o].surface = r
      BY HeardOf
    <3>2. o # w /\ r # NoId
      BY <1>1, <3>1, RootlessAssumption DEF TypesFit
    <3> QED
      BY <1>1, <3>1, <3>2 DEF OwnersFit
  <2>3. f[s].xwindow \in {NoId, w}
    <3>1. f[s].xwindow \in Toplevels \cup {NoId}
      BY <1>1, <1>3 DEF TypesFit, ShellSurfaces
    <3> QED
      BY <1>1, <1>3, <3>1 DEF OwnersFit
  <2>4. Associable(v, s, w)
    BY <1>3, <2>1, <2>2, <2>3 DEF Associable
  <2>5. Associated(v, w) = v /\ w \in DOMAIN v.table /\ v.table[w].surface = s /\ s # NoId
    BY <1>4, <1>6, <2>1
  <2> HIDE DEF v
  <2>6. v.table[w].associated
    BY <2>1, <2>4, <2>5, AssociableIsTried
  <2> QED
    BY <2>1, <2>6
<1>8. f[s].role = "xwayland" /\ f[s].xwindow = w /\ f[s].title = xd.win[w].title
  BY <1>2, <1>5, <1>7 DEF Matches
<1>9. s \in Shown(shell)
  BY <1>1, <1>3, <1>8 DEF ShownFit, Shown, On
<1>10. f[s].fullscreen = table[w].fullscreen
  <2>1. f[s].fullscreen \in BOOLEAN /\ table[w].fullscreen \in BOOLEAN
    BY <1>1, <1>3, <1>4 DEF TypesFit, ShellSurfaces, Entries
  <2>2. table[w].fullscreen <=> f[s].fullscreen
    BY <1>3, <1>5 DEF Matches
  <2> QED
    BY <2>1, <2>2
<1> QED
  BY <1>8, <1>9, <1>10

LEMMA RootlessInvImplies == RootlessInv => ShellShowsX11
<1> SUFFICES ASSUME RootlessInv, AllHeard
             PROVE  ShellShowsX11
  BY DEF ShellShowsX11
<1>1. /\ xd.events = <<>> /\ xd.requests = <<>>
      /\ \A order \in Orders(Present) : AllTried(Present, order) = Present
  BY DEF AllHeard
<1>2. \A w \in DOMAIN table : Associated(Present, w) = Present
  <2>1. PICK order \in Orders(Present) : TRUE
    BY SomeOrder
  <2>2. AllTried(Present, order) = Present
    BY <1>1
  <2>3. \A w \in DOMAIN Present.table : Associated(Present, w) = Present
    BY <2>2, PresentIsFine, PassEffect
  <2> QED
    BY <2>3 DEF Present
<1>3. RedirectsFit(xd.win, table) /\ On(shell.stack) \subseteq DOMAIN shell.surf
  BY FitsParts DEF RootlessInv, TypesFit
<1>4. ASSUME NEW w \in Toplevels
      PROVE  LET s == xd.win[w].surface
             IN  /\ s # NoId /\ xd.win[w].drawn =>
                      /\ s \in Shown(shell)
                      /\ shell.surf[s].xwindow = w /\ shell.surf[s].title = xd.win[w].title
                      /\ shell.surf[s].fullscreen = table[w].fullscreen
                 /\ xd.win[w].redirected = "xwm" <=> w \in DOMAIN table /\ table[w].redirected = "xwm"
                 /\ xd.win[w].phase = "mapped" <=> w \in DOMAIN table
  <2>1. xd.win[w].phase = "mapped" <=> w \in DOMAIN table
    BY <1>1, HeardOf
  <2>2. xd.win[w].redirected = "xwm" <=> w \in DOMAIN table /\ table[w].redirected = "xwm"
    BY <1>3, <2>1 DEF RedirectsFit
  <2> QED
    BY <1>1, <1>2, <2>1, <2>2, DrawnIsShown
<1>5. \A s \in Shown(shell) : \E w \in Toplevels : xd.win[w].surface = s
  <2>1. Shown(shell) = On(shell.stack)
    BY DEF Shown, On
  <2> QED
    BY <1>1, <1>3, <2>1, HeardOf
<1> QED
  BY <1>4, <1>5, Zenon DEF ShellShowsX11

\* What the window manager and the shell know of a window is what X11 says,
\* up to what is still to be heard on the two sockets.
THEOREM RootlessInvAlways == RootlessSpec => []RootlessInv
<1> QED
  BY RootlessInvInit, RootlessInvStep, PTL DEF RootlessSpec

\* Once everything is heard, the shell shows the windows that X11 has, each
\* with its title and its state, and no other.
THEOREM X11WindowsShown == RootlessSpec => []ShellShowsX11
<1> QED
  BY RootlessInvAlways, RootlessInvImplies, PTL
================================================================================
