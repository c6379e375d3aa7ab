--------------------------- MODULE Renderer_proofs ---------------------------
(***************************************************************************)
(* Proofs about Renderer, for any number of images of the swapchain, any   *)
(* number of resizes and any age up to which frames are told apart.        *)
(***************************************************************************)
EXTENDS Renderer, FiniteSetTheorems, TLAPS

-----------------------------------------------------------------------------
(***************************************************************************)
(* The inductive invariant, part by part.                                  *)
(***************************************************************************)
\* The places in which the renderer has all its objects and makes no other.
InUse ==
  {"loop", "draw", "acquire", "submit", "waitGpu", "rendered", "waitPresent"}

\* All objects of one swapchain, those that new() has made first, and those
\* that recreate_swapchain() has.
All(g)     == ToSet(OfGen(BuildOrder, g))
FirstOf(n) == {Object(BuildOrder[i], 0) : i \in 1 .. n}
NewOf(n)   == {Object(Parts[i], 1 - gen) : i \in 1 .. n}

\* What goes when an object is destroyed.
Goes(o) == {o} \cup IF o[1] = "pool" THEN {Object("commands", g) : g \in 0 .. 1} ELSE {}

(* Everything that was made from an object on the list goes with it, or    *)
(* with one that stands before it on the list.                             *)
DestroyedBefore ==
  \A i \in DOMAIN todo : \A o \in live :
    todo[i] \in Parents(o) => \E j \in 1 .. i : o \in Goes(todo[j])

\* When the list has been gone through, just these objects are left.
Leaves(kept) ==
  /\ kept \subseteq live
  /\ \A o \in live \ kept : \E i \in DOMAIN todo : o \in Goes(todo[i])
  /\ \A i \in DOMAIN todo : Goes(todo[i]) \cap kept = {}

Lifetimes ==
  /\ ParentsOutlive
  /\ pc = "new" => gen = 0 /\ \E n \in 0 .. 11 : live = FirstOf(n)
  /\ pc \in InUse => live = All(gen)
  /\ pc = "recreate" => \E n \in 0 .. 3 : live = All(gen) \cup NewOf(n)
  /\ pc = "waitIdle" => live = All(gen) \cup NewOf(4)
  /\ pc \in {"undo", "retire", "drop"} => DestroyedBefore
  /\ pc = "retire" => Leaves(All(1 - gen))
  /\ pc = "drop" => Leaves({})
  /\ pc = "dropped" => live = {}

(* The GPU has work, and the semaphore is in use, only between the         *)
(* acquisition of an image and the end of queue_wait_idle; an error of a   *)
(* call in between ends the program.                                       *)
GpuIdle == sem = "unsignaled" /\ gpu = "idle"

Queue ==
  /\ pc \notin {"submit", "waitGpu", "failed"} => GpuIdle
  /\ pc = "submit" => gpu = "idle" /\ sem # "unsignaled"
  /\ pc = "waitGpu" => GpuIdle \/ (gpu # "idle" /\ sem # "unsignaled")
  /\ pc \in {"submit", "waitGpu", "rendered"} => acquired \in Images

(* The newest frame on its way from the buffer to the image: it is where   *)
(* the GPU has got.                                                        *)
NewestFrame ==
  /\ pc = "waitGpu" => CASE gpu = "copy" -> buffer = 0
                         [] gpu = "draw" -> texture = 0
                         [] OTHER -> content[acquired] = 0
  /\ pc = "rendered" => content[acquired] = 0

Returns == resume \in {"acquire", "waitPresent"}

IInv == TypeOK /\ Returns /\ Lifetimes /\ Queue /\ NewestFrame

-----------------------------------------------------------------------------
(***************************************************************************)
(* The objects.                                                            *)
(***************************************************************************)
LEMMA PartKinds ==
  ToSet(Parts) = {"swapchain", "pipeline", "framebuffers", "commands"}
BY DEF ToSet, Parts

LEMMA Kinds ==
  ToSet(BuildOrder) =
    {"instance", "surface", "device", "swapchain", "pixels", "sampler",
     "descriptors", "pipeline", "framebuffers", "pool", "commands", "semaphore"}
BY DEF ToSet, BuildOrder

(* Only the parts of a swapchain are told apart by it.                     *)
LEMMA ObjectValue ==
  ASSUME NEW g
  PROVE  /\ Object("instance", g) = <<"instance", 0>>
         /\ Object("surface", g) = <<"surface", 0>>
         /\ Object("device", g) = <<"device", 0>>
         /\ Object("swapchain", g) = <<"swapchain", g>>
         /\ Object("pixels", g) = <<"pixels", 0>>
         /\ Object("sampler", g) = <<"sampler", 0>>
         /\ Object("descriptors", g) = <<"descriptors", 0>>
         /\ Object("pipeline", g) = <<"pipeline", g>>
         /\ Object("framebuffers", g) = <<"framebuffers", g>>
         /\ Object("pool", g) = <<"pool", 0>>
         /\ Object("commands", g) = <<"commands", g>>
         /\ Object("semaphore", g) = <<"semaphore", 0>>
BY PartKinds DEF Object

(* What each object is made from.                                          *)
LEMMA ParentsValue ==
  ASSUME NEW g
  PROVE  /\ Parents(<<"instance", 0>>) = {}
         /\ Parents(<<"surface", 0>>) = {<<"instance", 0>>}
         /\ Parents(<<"device", 0>>) = {<<"instance", 0>>}
         /\ Parents(<<"swapchain", g>>) = {<<"device", 0>>, <<"surface", 0>>}
         /\ Parents(<<"pixels", 0>>) = {<<"device", 0>>}
         /\ Parents(<<"sampler", 0>>) = {<<"device", 0>>}
         /\ Parents(<<"descriptors", 0>>) = {<<"device", 0>>}
         /\ Parents(<<"pipeline", g>>) = {<<"device", 0>>}
         /\ Parents(<<"framebuffers", g>>) = {<<"device", 0>>, <<"swapchain", g>>}
         /\ Parents(<<"pool", 0>>) = {<<"device", 0>>}
         /\ Parents(<<"commands", g>>) = {<<"device", 0>>, <<"pool", 0>>}
         /\ Parents(<<"semaphore", 0>>) = {<<"device", 0>>}
<1>1. Parents(<<"instance", 0>>) = {}
  BY DEF Parents
<1>2. /\ Parents(<<"surface", 0>>) = {<<"instance", 0>>}
      /\ Parents(<<"device", 0>>) = {<<"instance", 0>>}
  BY ObjectValue DEF Parents
<1>3. Parents(<<"swapchain", g>>) = {<<"device", 0>>, <<"surface", 0>>}
  BY ObjectValue DEF Parents
<1>4. Parents(<<"framebuffers", g>>) = {<<"device", 0>>, <<"swapchain", g>>}
  BY ObjectValue DEF Parents
<1>5. Parents(<<"commands", g>>) = {<<"device", 0>>, <<"pool", 0>>}
  BY ObjectValue DEF Parents
<1>6. /\ Parents(<<"pixels", 0>>) = {<<"device", 0>>}
      /\ Parents(<<"sampler", 0>>) = {<<"device", 0>>}
      /\ Parents(<<"descriptors", 0>>) = {<<"device", 0>>}
      /\ Parents(<<"pipeline", g>>) = {<<"device", 0>>}
      /\ Parents(<<"pool", 0>>) = {<<"device", 0>>}
      /\ Parents(<<"semaphore", 0>>) = {<<"device", 0>>}
  BY ObjectValue DEF Parents
<1>. QED
  BY <1>1, <1>2, <1>3, <1>4, <1>5, <1>6

LEMMA AllValue ==
  ASSUME NEW g
  PROVE  All(g) = {<<"instance", 0>>, <<"surface", 0>>, <<"device", 0>>,
                   <<"swapchain", g>>, <<"pixels", 0>>, <<"sampler", 0>>,
                   <<"descriptors", 0>>, <<"pipeline", g>>, <<"framebuffers", g>>,
                   <<"pool", 0>>, <<"commands", g>>, <<"semaphore", 0>>}
<1>1. All(g) = {Object(kind, g) : kind \in ToSet(BuildOrder)}
  BY DEF All, OfGen, ToSet
<1>. QED
  BY <1>1, Kinds, ObjectValue

LEMMA ObjectsValue == Objects = All(0) \cup All(1)
<1>1. \A g : All(g) = {Object(kind, g) : kind \in ToSet(BuildOrder)}
  BY DEF All, OfGen, ToSet
<1>2. 0 .. 1 = {0, 1}
  OBVIOUS
<1>. QED
  BY <1>1, <1>2 DEF Objects

(* Nothing is made from command buffers.                                   *)
LEMMA NoChildren ==
  ASSUME NEW o \in Objects, NEW g
  PROVE  Object("commands", g) \notin Parents(o)
<1>1. PICK h \in {0, 1} : o \in All(h)
  BY ObjectsValue
<1>2. Parents(o) \subseteq {<<"instance", 0>>, <<"surface", 0>>, <<"device", 0>>,
                           <<"swapchain", h>>, <<"pool", 0>>}
  <2>1. o \in {<<"instance", 0>>, <<"surface", 0>>, <<"device", 0>>,
              <<"swapchain", h>>, <<"pixels", 0>>, <<"sampler", 0>>,
              <<"descriptors", 0>>, <<"pipeline", h>>, <<"framebuffers", h>>,
              <<"pool", 0>>, <<"commands", h>>, <<"semaphore", 0>>}
    BY <1>1, AllValue
  <2>2. CASE o \in {<<"swapchain", h>>, <<"pipeline", h>>, <<"framebuffers", h>>,
                   <<"commands", h>>}
    <3>1. /\ Parents(<<"swapchain", h>>) = {<<"device", 0>>, <<"surface", 0>>}
          /\ Parents(<<"pipeline", h>>) = {<<"device", 0>>}
          /\ Parents(<<"framebuffers", h>>) = {<<"device", 0>>, <<"swapchain", h>>}
          /\ Parents(<<"commands", h>>) = {<<"device", 0>>, <<"pool", 0>>}
      BY ParentsValue
    <3>. QED
      BY <2>2, <3>1
  <2>3. CASE o \in {<<"instance", 0>>, <<"surface", 0>>, <<"device", 0>>, <<"pool", 0>>}
    BY <2>3, ParentsValue
  <2>4. CASE o \in {<<"pixels", 0>>, <<"sampler", 0>>, <<"descriptors", 0>>,
                   <<"semaphore", 0>>}
    BY <2>4, ParentsValue
  <2>. QED
    BY <2>1, <2>2, <2>3, <2>4
<1>. QED
  BY <1>2, ObjectValue

-----------------------------------------------------------------------------
(***************************************************************************)
(* Going through a list of objects that are to be destroyed.               *)
(***************************************************************************)
LEMMA DestroyStep ==
  ASSUME TypeOK, Destroy
  PROVE  /\ live' = live \ Goes(todo[1])
         /\ 1 \in DOMAIN todo /\ todo' \in Seq(Objects)
         /\ DOMAIN todo \subseteq Nat \ {0}
         /\ \A i \in DOMAIN todo' : i + 1 \in DOMAIN todo /\ todo'[i] = todo[i + 1]
         /\ \A i \in DOMAIN todo \ {1} : i - 1 \in DOMAIN todo' /\ todo'[i - 1] = todo[i]
         /\ pc' = pc /\ gen' = gen /\ pc \in {"undo", "retire", "drop"}
<1>1. todo \in Seq(Objects) /\ todo # <<>> /\ todo' = Tail(todo)
  BY DEF TypeOK, Destroy
<1>2. live' = live \ Goes(todo[1])
  <2>1. Head(todo) = todo[1]
    BY <1>1
  <2>. QED
    BY <2>1 DEF Destroy, Without, Goes
<1>3. Len(todo) \in Nat /\ Len(todo) >= 1 /\ DOMAIN todo = 1 .. Len(todo)
  BY <1>1
<1>4. /\ todo' \in Seq(Objects) /\ DOMAIN todo' = 1 .. Len(todo) - 1
      /\ \A i \in 1 .. Len(todo) - 1 : todo'[i] = todo[i + 1]
  BY <1>1, <1>3
<1>. QED
  BY <1>2, <1>3, <1>4 DEF Destroy

(* An object that goes leaves no child behind.                             *)
LEMMA DestroyOrder ==
  ASSUME TypeOK, ParentsOutlive, DestroyedBefore, Destroy
  PROVE  ParentsOutlive' /\ DestroyedBefore'
<1>. USE DestroyStep
<1>1. live' \subseteq live /\ live \subseteq Objects
  BY DEF TypeOK
<1>2. ASSUME NEW o \in live', NEW p \in Parents(o) PROVE p \in live'
  <2>1. o \in live /\ p \in live
    BY <1>1 DEF ParentsOutlive
  <2>2. p # todo[1]
    <3>1. ASSUME p = todo[1] PROVE FALSE
      <4>1. PICK j \in 1 .. 1 : o \in Goes(todo[j])
        BY <2>1, <3>1 DEF DestroyedBefore
      <4>2. j = 1
        BY <4>1
      <4>. QED
        BY <4>1, <4>2
    <3>. QED
      BY <3>1
  <2>3. p \notin Goes(todo[1])
    BY <1>1, <2>1, <2>2, NoChildren DEF Goes
  <2>. QED
    BY <2>1, <2>3
<1>3. ASSUME NEW i \in DOMAIN todo', NEW o \in live', todo'[i] \in Parents(o)
      PROVE  \E j \in 1 .. i : o \in Goes(todo'[j])
  <2>1. i + 1 \in DOMAIN todo /\ todo[i + 1] \in Parents(o) /\ o \in live /\ i \in Int
    <3>1. DOMAIN todo' \subseteq Int
      OBVIOUS
    <3>. QED
      BY <1>1, <1>3, <3>1
  <2>2. PICK j \in 1 .. i + 1 : o \in Goes(todo[j])
    BY <2>1 DEF DestroyedBefore
  <2>3. j # 1
    BY <2>2
  <2>4. j \in DOMAIN todo
    BY <2>1, <2>2 DEF TypeOK
  <2>5. j - 1 \in 1 .. i /\ todo'[j - 1] = todo[j]
    BY <2>1, <2>2, <2>3, <2>4
  <2>. QED
    BY <2>2, <2>5
<1>. QED
  BY <1>2, <1>3 DEF ParentsOutlive, DestroyedBefore

(* What is to be left stays, and what is not goes sooner or later.         *)
LEMMA DestroyLeaves ==
  ASSUME TypeOK, Destroy, NEW K
  PROVE  /\ K \subseteq live
         /\ \A o \in live \ K : \E i \in DOMAIN todo : o \in Goes(todo[i])
         /\ \A i \in DOMAIN todo : Goes(todo[i]) \cap K = {}
         =>
         /\ K \subseteq live'
         /\ \A o \in live' \ K : \E i \in DOMAIN todo' : o \in Goes(todo'[i])
         /\ \A i \in DOMAIN todo' : Goes(todo'[i]) \cap K = {}
<1>. USE DestroyStep
<1>. SUFFICES ASSUME K \subseteq live,
                     \A o \in live \ K : \E i \in DOMAIN todo : o \in Goes(todo[i]),
                     \A i \in DOMAIN todo : Goes(todo[i]) \cap K = {}
              PROVE  /\ K \subseteq live'
                     /\ \A o \in live' \ K : \E i \in DOMAIN todo' : o \in Goes(todo'[i])
                     /\ \A i \in DOMAIN todo' : Goes(todo'[i]) \cap K = {}
  OBVIOUS
<1>1. K \subseteq live'
  OBVIOUS
<1>2. ASSUME NEW o \in live' \ K PROVE \E i \in DOMAIN todo' : o \in Goes(todo'[i])
  <2>1. PICK i \in DOMAIN todo : o \in Goes(todo[i])
    OBVIOUS
  <2>2. i # 1
    BY <2>1
  <2>. QED
    BY <2>1, <2>2
<1>3. \A i \in DOMAIN todo' : Goes(todo'[i]) \cap K = {}
  OBVIOUS
<1>. QED
  BY <1>1, <1>2, <1>3

-----------------------------------------------------------------------------
(***************************************************************************)
(* Making the objects, in PixelRenderer::new and when a swapchain is       *)
(* replaced.                                                               *)
(***************************************************************************)
LEMMA BuildOrderValue ==
  /\ BuildOrder[1] = "instance" /\ BuildOrder[2] = "surface" /\ BuildOrder[3] = "device"
  /\ BuildOrder[4] = "swapchain" /\ BuildOrder[5] = "pixels" /\ BuildOrder[6] = "sampler"
  /\ BuildOrder[7] = "descriptors" /\ BuildOrder[8] = "pipeline"
  /\ BuildOrder[9] = "framebuffers" /\ BuildOrder[10] = "pool"
  /\ BuildOrder[11] = "commands" /\ BuildOrder[12] = "semaphore"
BY DEF BuildOrder

LEMMA BuildOrderSeq ==
  BuildOrder \in Seq(ToSet(BuildOrder)) /\ Len(BuildOrder) = 12 /\ DOMAIN BuildOrder = 1 .. 12
<1>1. Len(BuildOrder) = 12
  BY DEF BuildOrder
<1>2. DOMAIN BuildOrder = 1 .. 12
  BY DEF BuildOrder
<1>3. BuildOrder \in Seq(ToSet(BuildOrder))
  <2>1. \A i \in 1 .. 12 : BuildOrder[i] \in ToSet(BuildOrder)
    BY <1>2 DEF ToSet
  <2>2. BuildOrder = [i \in 1 .. 12 |-> BuildOrder[i]]
    BY DEF BuildOrder
  <2>. QED
    BY <2>1, <2>2
<1>. QED
  BY <1>1, <1>2, <1>3

LEMMA PartsValue ==
  /\ Len(Parts) = 4 /\ DOMAIN Parts = 1 .. 4
  /\ Parts[1] = "swapchain" /\ Parts[2] = "pipeline"
  /\ Parts[3] = "framebuffers" /\ Parts[4] = "commands"
BY DEF Parts

(* No object is made before what it is made from.                          *)
LEMMA BuildTopological ==
  ASSUME NEW b \in 1 .. 12, NEW p \in Parents(Object(BuildOrder[b], 0))
  PROVE  \E a \in 1 .. b - 1 : p = Object(BuildOrder[a], 0)
<1>. DEFINE O(i) == Object(BuildOrder[i], 0)
<1>1. /\ O(1) = <<"instance", 0>> /\ O(2) = <<"surface", 0>> /\ O(3) = <<"device", 0>>
      /\ O(4) = <<"swapchain", 0>> /\ O(5) = <<"pixels", 0>> /\ O(6) = <<"sampler", 0>>
      /\ O(7) = <<"descriptors", 0>> /\ O(8) = <<"pipeline", 0>>
      /\ O(9) = <<"framebuffers", 0>> /\ O(10) = <<"pool", 0>>
      /\ O(11) = <<"commands", 0>> /\ O(12) = <<"semaphore", 0>>
  BY BuildOrderValue, ObjectValue
<1>2. p \in Parents(O(b))
  OBVIOUS
<1>. SUFFICES \E a \in 1 .. b - 1 : p = O(a)
  OBVIOUS
<1>3. /\ Parents(O(1)) = {} /\ Parents(O(2)) = {O(1)} /\ Parents(O(3)) = {O(1)}
      /\ Parents(O(4)) = {O(3), O(2)} /\ Parents(O(5)) = {O(3)} /\ Parents(O(6)) = {O(3)}
      /\ Parents(O(7)) = {O(3)} /\ Parents(O(8)) = {O(3)}
      /\ Parents(O(9)) = {O(3), O(4)} /\ Parents(O(10)) = {O(3)}
      /\ Parents(O(11)) = {O(3), O(10)} /\ Parents(O(12)) = {O(3)}
  <2>. HIDE DEF O
  <2>. QED
    BY <1>1, ParentsValue
<1>. HIDE DEF O
<1>4. b \in {2, 3} \/ b \in 4 .. 12
  BY <1>2, <1>3
<1>5. CASE b \in {2, 3}
  BY <1>2, <1>3, <1>5
<1>6. CASE b \in {4, 9, 11}
  BY <1>2, <1>3, <1>6
<1>7. CASE b \in {5, 6, 7, 8, 10, 12}
  BY <1>2, <1>3, <1>7
<1>. QED
  BY <1>4, <1>5, <1>6, <1>7

(* Each place of the order stands for an object of its own.                *)
LEMMA BuildInjective ==
  ASSUME NEW a \in 1 .. 12, NEW b \in 1 .. 12,
         Object(BuildOrder[a], 0) = Object(BuildOrder[b], 0)
  PROVE  a = b
<1>1. BuildOrder[a] = BuildOrder[b]
  BY DEF Object
<1>. QED
  BY <1>1, BuildOrderValue

(* new() has made the first n objects: it can be read off what exists.     *)
LEMMA Counted ==
  ASSUME NEW n \in Nat
  PROVE  Cardinality(1 .. n) = n
<1>1. Cardinality(1 .. n) = IF 1 > n THEN 0 ELSE n - 1 + 1
  <2>1. 1 \in Int /\ n \in Int
    OBVIOUS
  <2>. QED
    BY <2>1, FS_Interval, Zenon
<1>. QED
  BY <1>1

LEMMA BuiltCount ==
  ASSUME NEW n \in 0 .. 12, live = FirstOf(n)
  PROVE  Built = 1 .. n /\ Cardinality(Built) = n
<1>1. Built = 1 .. n
  BY BuildInjective, BuildOrderSeq DEF Built, FirstOf
<1>2. Cardinality(1 .. n) = n
  BY Counted
<1>. QED
  BY <1>1, <1>2

LEMMA AllIsFirst == All(0) = FirstOf(12)
BY BuildOrderSeq DEF All, FirstOf, OfGen, ToSet

LEMMA LifeBuild ==
  ASSUME TypeOK, Lifetimes, Build
  PROVE  Lifetimes'
<1>1. PICK n \in 0 .. 11 : live = FirstOf(n)
  BY DEF Build, Lifetimes
<1>2. PICK i \in 1 .. 12 :
        /\ Built = 1 .. i - 1
        /\ live' = live \cup {Object(BuildOrder[i], 0)}
        /\ pc' = IF i = 12 THEN "loop" ELSE "new"
  BY BuildOrderSeq DEF Build
<1>3. i = n + 1
  <2>1. Built = 1 .. n
    <3>1. n \in 0 .. 12
      OBVIOUS
    <3>. QED
      BY <1>1, <3>1, BuiltCount, Zenon
  <2>2. Cardinality(1 .. n) = n /\ Cardinality(1 .. i - 1) = i - 1
    BY Counted
  <2>. QED
    BY <1>2, <2>1, <2>2
<1>4. live' = FirstOf(i)
  BY <1>1, <1>2, <1>3 DEF FirstOf
<1>5. gen = 0 /\ gen' = gen
  BY DEF Build, Lifetimes
<1>6. ParentsOutlive'
  <2>1. ASSUME NEW o \in live', NEW p \in Parents(o) PROVE p \in live'
    <3>1. PICK b \in 1 .. i : o = Object(BuildOrder[b], 0)
      BY <1>4 DEF FirstOf
    <3>2. PICK a \in 1 .. b - 1 : p = Object(BuildOrder[a], 0)
      BY <3>1, BuildTopological
    <3>. QED
      BY <1>4, <3>2 DEF FirstOf
  <2>. QED
    BY <2>1 DEF ParentsOutlive
<1>7. CASE i = 12
  <2>1. pc' = "loop"
    BY <1>2, <1>7
  <2>2. live' = All(gen)'
    BY <1>4, <1>5, <1>7, AllIsFirst
  <2>. QED
    BY <1>6, <2>1, <2>2 DEF Lifetimes, InUse
<1>8. CASE i # 12
  <2>1. pc' = "new"
    BY <1>2, <1>8
  <2>2. i \in 0 .. 11
    BY <1>8
  <2>. QED
    BY <1>4, <1>5, <1>6, <2>1, <2>2 DEF Lifetimes, InUse, FirstOf
<1>. QED
  BY <1>7, <1>8

(* An error of new() destroys what it has made, from the last back.        *)
LEMMA LifeBuildFails ==
  ASSUME TypeOK, Lifetimes, BuildFails
  PROVE  Lifetimes'
<1>1. PICK n \in 0 .. 11 : live = FirstOf(n)
  BY DEF BuildFails, Lifetimes
<1>2. todo' = Reverse(OfGen(SubSeq(BuildOrder, 1, n), 0))
  BY <1>1, BuiltCount DEF BuildFails
<1>3. DOMAIN todo' = 1 .. n /\ \A i \in 1 .. n : todo'[i] = Object(BuildOrder[n + 1 - i], 0)
  <2>1. DOMAIN SubSeq(BuildOrder, 1, n) = 1 .. n
        /\ \A i \in 1 .. n : SubSeq(BuildOrder, 1, n)[i] = BuildOrder[i]
    BY BuildOrderSeq
  <2>2. OfGen(SubSeq(BuildOrder, 1, n), 0) = [i \in 1 .. n |-> Object(BuildOrder[i], 0)]
    BY <2>1 DEF OfGen
  <2>3. Len([i \in 1 .. n |-> Object(BuildOrder[i], 0)]) = n
    OBVIOUS
  <2>4. todo' = [i \in 1 .. n |-> [j \in 1 .. n |-> Object(BuildOrder[j], 0)][n - i + 1]]
    BY <1>2, <2>2, <2>3 DEF Reverse
  <2>. QED
    BY <2>4
<1>4. DestroyedBefore'
  <2>1. ASSUME NEW i \in DOMAIN todo', NEW o \in live', todo'[i] \in Parents(o)
        PROVE  \E j \in 1 .. i : o \in Goes(todo'[j])
    <3>1. PICK b \in 1 .. n : o = Object(BuildOrder[b], 0)
      BY <1>1 DEF BuildFails, FirstOf
    <3>2. i \in 1 .. n /\ todo'[i] = Object(BuildOrder[n + 1 - i], 0)
      BY <1>3
    <3>3. PICK a \in 1 .. b - 1 : todo'[i] = Object(BuildOrder[a], 0)
      BY <2>1, <3>1, BuildTopological
    <3>4. a = n + 1 - i
      BY <3>2, <3>3, BuildInjective
    <3>5. n + 1 - b \in 1 .. i /\ n + 1 - b \in 1 .. n /\ n + 1 - (n + 1 - b) = b
      BY <3>2, <3>3, <3>4
    <3>6. o = todo'[n + 1 - b]
      BY <1>3, <3>1, <3>5
    <3>. QED
      BY <3>5, <3>6 DEF Goes
  <2>. QED
    BY <2>1 DEF DestroyedBefore
<1>. QED
  BY <1>4 DEF BuildFails, Lifetimes, ParentsOutlive, InUse

(* Of what a swapchain is made again with, only the swapchain itself has   *)
(* something made from it: the framebuffers.                               *)
LEMMA PartChildren ==
  ASSUME NEW o \in Objects, NEW kind \in ToSet(Parts), NEW g \in 0 .. 1,
         Object(kind, g) \in Parents(o)
  PROVE  kind = "swapchain" /\ o = <<"framebuffers", g>>
<1>1. PICK h \in {0, 1} : o \in All(h)
  BY ObjectsValue
<1>2. Object(kind, g) = <<kind, g>> /\ kind \in {"swapchain", "pipeline", "framebuffers", "commands"}
  BY PartKinds DEF Object
<1>3. o \in {<<"instance", 0>>, <<"surface", 0>>, <<"device", 0>>,
            <<"swapchain", h>>, <<"pixels", 0>>, <<"sampler", 0>>,
            <<"descriptors", 0>>, <<"pipeline", h>>, <<"framebuffers", h>>,
            <<"pool", 0>>, <<"commands", h>>, <<"semaphore", 0>>}
  BY <1>1, AllValue
<1>4. o = <<"framebuffers", h>>
  <2>1. CASE o \in {<<"swapchain", h>>, <<"pipeline", h>>, <<"commands", h>>}
    <3>1. /\ Parents(<<"swapchain", h>>) = {<<"device", 0>>, <<"surface", 0>>}
          /\ Parents(<<"pipeline", h>>) = {<<"device", 0>>}
          /\ Parents(<<"commands", h>>) = {<<"device", 0>>, <<"pool", 0>>}
      BY ParentsValue
    <3>. QED
      BY <1>2, <2>1, <3>1
  <2>2. CASE o \in {<<"instance", 0>>, <<"surface", 0>>, <<"device", 0>>, <<"pool", 0>>}
    <3>1. Parents(o) \subseteq {<<"instance", 0>>, <<"device", 0>>}
      BY <2>2, ParentsValue
    <3>. QED
      BY <1>2, <3>1
  <2>3. CASE o \in {<<"pixels", 0>>, <<"sampler", 0>>, <<"descriptors", 0>>,
                   <<"semaphore", 0>>}
    <3>1. Parents(o) = {<<"device", 0>>}
      BY <2>3, ParentsValue
    <3>. QED
      BY <1>2, <3>1
  <2>. QED
    BY <1>3, <2>1, <2>2, <2>3
<1>5. Parents(o) = {<<"device", 0>>, <<"swapchain", h>>}
  BY <1>4, ParentsValue
<1>. QED
  BY <1>2, <1>4, <1>5

(* The parts of the new swapchain are told from those of the old one.      *)
LEMMA NewValue ==
  ASSUME gen \in 0 .. 1
  PROVE  /\ 1 - gen \in 0 .. 1 /\ 1 - gen # gen
         /\ \A i \in 1 .. 4 : Object(Parts[i], 1 - gen) = <<Parts[i], 1 - gen>>
         /\ \A i \in 1 .. 4 : Object(Parts[i], 1 - gen) \notin All(gen)
<1>1. 1 - gen \in 0 .. 1 /\ 1 - gen # gen
  OBVIOUS
<1>2. \A i \in 1 .. 4 : Parts[i] \in ToSet(Parts)
  BY PartsValue DEF ToSet
<1>3. \A i \in 1 .. 4 : Object(Parts[i], 1 - gen) = <<Parts[i], 1 - gen>>
  BY <1>2 DEF Object
<1>4. ASSUME NEW i \in 1 .. 4 PROVE Object(Parts[i], 1 - gen) \notin All(gen)
  <2>1. Parts[i] \in {"swapchain", "pipeline", "framebuffers", "commands"}
    BY <1>2, PartKinds
  <2>2. \A o \in All(gen) :
          o[1] \in {"swapchain", "pipeline", "framebuffers", "commands"} => o[2] = gen
    BY AllValue
  <2>. QED
    BY <1>1, <1>3, <2>1, <2>2
<1>. QED
  BY <1>1, <1>3, <1>4

LEMMA NewCount ==
  ASSUME gen \in 0 .. 1, NEW n \in 0 .. 4, live = All(gen) \cup NewOf(n)
  PROVE  NewParts = 1 .. n /\ Cardinality(NewParts) = n
<1>1. ASSUME NEW i \in 1 .. 4, NEW j \in 1 .. 4,
             Object(Parts[i], 1 - gen) = Object(Parts[j], 1 - gen)
      PROVE  i = j
  <2>1. Parts[i] = Parts[j]
    BY <1>1, NewValue
  <2>. QED
    BY <2>1, PartsValue
<1>2. NewParts = 1 .. n
  BY <1>1, NewValue, PartsValue DEF NewParts, NewOf
<1>. QED
  BY <1>2, Counted

LEMMA AllParents ==
  ASSUME NEW g, NEW o \in All(g)
  PROVE  Parents(o) \subseteq All(g)
<1>1. o \in {<<"instance", 0>>, <<"surface", 0>>, <<"device", 0>>,
            <<"swapchain", g>>, <<"pixels", 0>>, <<"sampler", 0>>,
            <<"descriptors", 0>>, <<"pipeline", g>>, <<"framebuffers", g>>,
            <<"pool", 0>>, <<"commands", g>>, <<"semaphore", 0>>}
  BY AllValue
<1>2. CASE o \in {<<"swapchain", g>>, <<"pipeline", g>>, <<"commands", g>>, <<"framebuffers", g>>}
  <2>1. /\ Parents(<<"swapchain", g>>) = {<<"device", 0>>, <<"surface", 0>>}
        /\ Parents(<<"pipeline", g>>) = {<<"device", 0>>}
        /\ Parents(<<"commands", g>>) = {<<"device", 0>>, <<"pool", 0>>}
        /\ Parents(<<"framebuffers", g>>) = {<<"device", 0>>, <<"swapchain", g>>}
    BY ParentsValue
  <2>. QED
    BY <1>2, <2>1, AllValue
<1>3. CASE o \in {<<"instance", 0>>, <<"surface", 0>>, <<"device", 0>>, <<"pool", 0>>}
  BY <1>3, ParentsValue, AllValue
<1>4. CASE o \in {<<"pixels", 0>>, <<"sampler", 0>>, <<"descriptors", 0>>,
                 <<"semaphore", 0>>}
  BY <1>4, ParentsValue, AllValue
<1>. QED
  BY <1>1, <1>2, <1>3, <1>4

(* recreate_swapchain() makes the new parts in order, beside the old ones. *)
LEMMA LifeRemake ==
  ASSUME TypeOK, Lifetimes, Remake
  PROVE  Lifetimes'
<1>1. PICK n \in 0 .. 3 : live = All(gen) \cup NewOf(n)
  BY DEF Remake, Lifetimes
<1>2. PICK i \in 1 .. 4 :
        /\ NewParts = 1 .. i - 1
        /\ live' = live \cup {Object(Parts[i], 1 - gen)}
        /\ pc' = IF i = 4 THEN "waitIdle" ELSE "recreate"
  BY PartsValue DEF Remake
<1>3. i = n + 1
  <2>1. NewParts = 1 .. n
    <3>1. n \in 0 .. 4 /\ gen \in 0 .. 1
      BY DEF TypeOK
    <3>. QED
      BY <1>1, <3>1, NewCount, Zenon
  <2>2. Cardinality(1 .. n) = n /\ Cardinality(1 .. i - 1) = i - 1
    BY Counted
  <2>. QED
    BY <1>2, <2>1, <2>2
<1>4. gen' = gen
  BY DEF Remake
<1>5. live' = All(gen) \cup NewOf(i)
  BY <1>1, <1>2, <1>3 DEF NewOf
<1>6. ParentsOutlive'
  <2>1. ASSUME NEW o \in live', NEW p \in Parents(o) PROVE p \in live'
    <3>1. CASE o \in All(gen)
      BY <1>5, <2>1, <3>1, AllParents
    <3>2. CASE o \in NewOf(i)
      <4>1. PICK k \in 1 .. i : o = Object(Parts[k], 1 - gen)
        BY <3>2 DEF NewOf
      <4>2. o = <<Parts[k], 1 - gen>> /\ gen \in 0 .. 1
        BY <4>1, NewValue DEF TypeOK
      <4>3. /\ {<<"device", 0>>, <<"surface", 0>>, <<"pool", 0>>} \subseteq live'
        BY <1>5, AllValue
      <4>4. CASE k = 3
        <5>1. Parents(o) = {<<"device", 0>>, <<"swapchain", 1 - gen>>}
          BY <4>2, <4>4, PartsValue, ParentsValue
        <5>2. <<"swapchain", 1 - gen>> \in live'
          <6>1. Object(Parts[1], 1 - gen) \in NewOf(i)
            BY <1>2 DEF NewOf
          <6>. QED
            BY <1>5, <4>2, <6>1, PartsValue, NewValue
        <5>. QED
          BY <4>3, <5>1, <5>2
      <4>5. CASE k = 1
        <5>1. Parents(o) = {<<"device", 0>>, <<"surface", 0>>}
          BY <4>2, <4>5, PartsValue, ParentsValue
        <5>. QED
          BY <4>3, <5>1
      <4>6. CASE k = 2
        <5>1. Parents(o) = {<<"device", 0>>}
          BY <4>2, <4>6, PartsValue, ParentsValue
        <5>. QED
          BY <4>3, <5>1
      <4>7. CASE k = 4
        <5>1. Parents(o) = {<<"device", 0>>, <<"pool", 0>>}
          BY <4>2, <4>7, PartsValue, ParentsValue
        <5>. QED
          BY <4>3, <5>1
      <4>. QED
        BY <4>1, <4>4, <4>5, <4>6, <4>7
    <3>. QED
      BY <1>5, <3>1, <3>2
  <2>. QED
    BY <2>1 DEF ParentsOutlive
<1>7. CASE i = 4
  <2>1. pc' = "waitIdle"
    BY <1>2, <1>7
  <2>. QED
    BY <1>4, <1>5, <1>6, <1>7, <2>1 DEF Lifetimes, InUse, NewOf
<1>8. CASE i # 4
  <2>1. pc' = "recreate" /\ i \in 0 .. 3
    BY <1>2, <1>8
  <2>. QED
    BY <1>4, <1>5, <1>6, <2>1 DEF Lifetimes, InUse, NewOf
<1>. QED
  BY <1>7, <1>8

LEMMA UndoValue ==
  /\ UndoOrder[1] = <<>> /\ UndoOrder[2] = <<"swapchain">>
  /\ UndoOrder[3] = <<"swapchain", "pipeline">>
  /\ UndoOrder[4] = <<"framebuffers", "swapchain", "pipeline">>
  /\ UndoOrder[5] = <<"commands", "framebuffers", "swapchain", "pipeline">>
BY DEF UndoOrder

(* An error of recreate_swapchain() destroys the framebuffers, if they     *)
(* were made, before the swapchain that their images belong to.            *)
LEMMA LifeRemakeFails ==
  ASSUME TypeOK, Lifetimes, RemakeFails
  PROVE  Lifetimes'
<1>. gen \in 0 .. 1 /\ live \subseteq Objects
  BY DEF TypeOK
<1>1. PICK n \in 0 .. 4 : live = All(gen) \cup NewOf(n)
  <2>1. 0 .. 3 \subseteq 0 .. 4 /\ 4 \in 0 .. 4
    OBVIOUS
  <2>. QED
    BY <2>1 DEF RemakeFails, Lifetimes
<1>2. todo' = OfGen(UndoOrder[n + 1], 1 - gen)
  <2>1. Cardinality(NewParts) = n
    BY <1>1, NewCount
  <2>. QED
    BY <2>1 DEF RemakeFails, Undone
<1>3. ASSUME NEW i \in DOMAIN todo', NEW o \in live', todo'[i] \in Parents(o)
      PROVE  \E j \in 1 .. i : o \in Goes(todo'[j])
  <2>. DEFINE kinds == UndoOrder[n + 1]
  <2>1. DOMAIN todo' = DOMAIN kinds /\ \A k \in DOMAIN kinds : todo'[k] = Object(kinds[k], 1 - gen)
    BY <1>2 DEF OfGen
  <2>2. n \in {0, 1, 2, 3, 4}
    OBVIOUS
  <2>3. i \in DOMAIN kinds /\ kinds[i] \in ToSet(Parts)
    <3>1. i \in DOMAIN kinds
      BY <2>1
    <3>2. kinds[i] \in {"swapchain", "pipeline", "framebuffers", "commands"}
      BY <2>2, <3>1, UndoValue
    <3>. QED
      BY <3>1, <3>2, PartKinds
  <2>4. kinds[i] = "swapchain" /\ o = <<"framebuffers", 1 - gen>>
    <3>1. Object(kinds[i], 1 - gen) \in Parents(o) /\ o \in Objects /\ 1 - gen \in 0 .. 1
      BY <1>3, <2>1, <2>3 DEF RemakeFails
    <3>. QED
      BY <2>3, <3>1, PartChildren
  <2>5. n \in {3, 4}
    <3>1. o \notin All(gen)
      BY <2>4, PartsValue, NewValue
    <3>2. PICK k \in 1 .. n : o = Object(Parts[k], 1 - gen)
      BY <1>1, <3>1 DEF RemakeFails, NewOf
    <3>3. Parts[k] = "framebuffers"
      BY <2>4, <3>2, NewValue
    <3>4. k = 3
      BY <3>2, <3>3, PartsValue
    <3>. QED
      BY <2>2, <3>4
  <2>6. PICK j \in 1 .. i - 1 : j \in DOMAIN kinds /\ kinds[j] = "framebuffers"
    <3>1. CASE n = 3
      <4>1. i = 2
        BY <2>3, <2>4, <3>1, UndoValue
      <4>. QED
        BY <3>1, <4>1, UndoValue
    <3>2. CASE n = 4
      <4>1. i = 3
        BY <2>3, <2>4, <3>2, UndoValue
      <4>. QED
        BY <3>2, <4>1, UndoValue
    <3>. QED
      BY <2>5, <3>1, <3>2
  <2>7. todo'[j] = o
    BY <2>1, <2>4, <2>6, ObjectValue
  <2>8. i \in Nat
    BY <2>2, <2>3, UndoValue
  <2>9. j \in 1 .. i
    BY <2>6, <2>8
  <2>. QED
    BY <2>7, <2>9 DEF Goes
<1>4. DestroyedBefore'
  BY <1>3 DEF DestroyedBefore
<1>. QED
  BY <1>4 DEF RemakeFails, Lifetimes, ParentsOutlive, InUse

LEMMA OldParts ==
  ASSUME gen \in 0 .. 1
  PROVE  /\ All(1 - gen) \subseteq All(gen) \cup NewOf(4)
         /\ All(gen) \ All(1 - gen) \subseteq
              {<<"framebuffers", gen>>, <<"swapchain", gen>>, <<"pipeline", gen>>,
               <<"commands", gen>>}
         /\ NewOf(4) \subseteq All(1 - gen)
         /\ {<<"framebuffers", gen>>, <<"swapchain", gen>>, <<"pipeline", gen>>,
             <<"commands", gen>>} \cap All(1 - gen) = {}
<1>1. NewOf(4) = {<<"swapchain", 1 - gen>>, <<"pipeline", 1 - gen>>,
                  <<"framebuffers", 1 - gen>>, <<"commands", 1 - gen>>}
  <2>1. NewOf(4) = {<<Parts[i], 1 - gen>> : i \in 1 .. 4}
    BY NewValue DEF NewOf
  <2>2. 1 .. 4 = {1, 2, 3, 4}
    OBVIOUS
  <2>. QED
    BY <2>1, <2>2, PartsValue
<1>2. /\ All(gen) = {<<"instance", 0>>, <<"surface", 0>>, <<"device", 0>>,
                   <<"swapchain", gen>>, <<"pixels", 0>>, <<"sampler", 0>>,
                   <<"descriptors", 0>>, <<"pipeline", gen>>, <<"framebuffers", gen>>,
                   <<"pool", 0>>, <<"commands", gen>>, <<"semaphore", 0>>}
      /\ All(1 - gen) = {<<"instance", 0>>, <<"surface", 0>>, <<"device", 0>>,
                   <<"swapchain", 1 - gen>>, <<"pixels", 0>>, <<"sampler", 0>>,
                   <<"descriptors", 0>>, <<"pipeline", 1 - gen>>,
                   <<"framebuffers", 1 - gen>>, <<"pool", 0>>,
                   <<"commands", 1 - gen>>, <<"semaphore", 0>>}
  BY AllValue
<1>3. 1 - gen # gen
  OBVIOUS
<1>4. \A o \in All(1 - gen) :
        o[1] \in {"swapchain", "pipeline", "framebuffers", "commands"} => o[2] = 1 - gen
  BY <1>2
<1>. QED
  BY <1>1, <1>2, <1>3, <1>4

(* Of two swapchains with all that was made for them, the old one goes,    *)
(* framebuffers first.                                                     *)
LEMMA LifeDeviceIdle ==
  ASSUME TypeOK, Lifetimes, DeviceIdle
  PROVE  Lifetimes'
<1>. gen \in 0 .. 1 /\ live \subseteq Objects
  BY DEF TypeOK
<1>1. live = All(gen) \cup NewOf(4) /\ live' = live /\ gen' = gen /\ pc' = "retire"
  BY DEF DeviceIdle, Lifetimes
<1>. DEFINE kinds == <<"framebuffers", "swapchain", "pipeline", "commands">>
<1>2. todo' = OfGen(kinds, gen)
  BY DEF DeviceIdle
<1>3. /\ DOMAIN todo' = 1 .. 4
      /\ \A i \in 1 .. 4 : todo'[i] = Object(kinds[i], gen) /\ kinds[i] \in ToSet(Parts)
      /\ todo'[1] = <<"framebuffers", gen>> /\ todo'[2] = <<"swapchain", gen>>
      /\ todo'[3] = <<"pipeline", gen>> /\ todo'[4] = <<"commands", gen>>
  <2>1. DOMAIN todo' = 1 .. 4 /\ \A i \in 1 .. 4 : todo'[i] = Object(kinds[i], gen)
    BY <1>2 DEF OfGen
  <2>2. \A i \in 1 .. 4 : kinds[i] \in ToSet(Parts)
    BY PartKinds
  <2>. QED
    BY <2>1, <2>2, ObjectValue
<1>4. DestroyedBefore'
  <2>1. ASSUME NEW i \in DOMAIN todo', NEW o \in live', todo'[i] \in Parents(o)
        PROVE  \E j \in 1 .. i : o \in Goes(todo'[j])
    <3>1. o = <<"framebuffers", gen>>
      <4>1. o \in Objects /\ Object(kinds[i], gen) \in Parents(o) /\ kinds[i] \in ToSet(Parts)
        BY <1>1, <1>3, <2>1
      <4>. QED
        BY <4>1, PartChildren
    <3>2. 1 \in 1 .. i
      BY <1>3
    <3>. QED
      BY <1>3, <3>1, <3>2 DEF Goes
  <2>. QED
    BY <2>1 DEF DestroyedBefore
<1>5. Leaves(All(1 - gen))'
  <2>1. All(1 - gen) \subseteq live'
    BY <1>1, OldParts
  <2>2. ASSUME NEW o \in live' \ All(1 - gen) PROVE \E i \in DOMAIN todo' : o \in Goes(todo'[i])
    <3>1. o \in {<<"framebuffers", gen>>, <<"swapchain", gen>>, <<"pipeline", gen>>,
                 <<"commands", gen>>}
      BY <1>1, OldParts
    <3>. QED
      BY <1>3, <3>1 DEF Goes
  <2>3. ASSUME NEW i \in DOMAIN todo' PROVE Goes(todo'[i]) \cap All(1 - gen) = {}
    <3>1. Goes(todo'[i]) = {todo'[i]}
      BY <1>3 DEF Goes
    <3>. QED
      BY <1>3, <3>1, OldParts
  <2>. QED
    BY <1>1, <2>1, <2>2, <2>3 DEF Leaves
<1>. QED
  BY <1>1, <1>4, <1>5 DEF DeviceIdle, Lifetimes, ParentsOutlive, InUse

LEMMA LifeReplace ==
  ASSUME TypeOK, Returns, Lifetimes, Replace
  PROVE  Lifetimes'
<1>1. gen' = 1 - gen /\ live' = live /\ pc' \in {"acquire", "waitPresent"} /\ todo = <<>>
  BY DEF Replace, Returns
<1>2. live = All(1 - gen)
  <2>1. Leaves(All(1 - gen))
    BY DEF Replace, Lifetimes
  <2>2. DOMAIN todo = {}
    BY <1>1
  <2>. QED
    BY <2>1, <2>2 DEF Leaves
<1>3. live' = All(gen)'
  BY <1>1, <1>2
<1>. QED
  BY <1>1, <1>3 DEF Lifetimes, ParentsOutlive, InUse

(* At the end everything goes, children first; the command buffers go with *)
(* their pool.                                                             *)
LEMMA LifeDrop ==
  ASSUME TypeOK, Lifetimes, Drop
  PROVE  Lifetimes'
<1>. gen \in 0 .. 1 /\ live \subseteq Objects
  BY DEF TypeOK
<1>1. live = All(gen) /\ live' = live /\ gen' = gen /\ pc' = "drop"
  BY DEF Drop, Lifetimes, InUse
<1>. DEFINE kinds == <<"semaphore", "pool", "framebuffers", "pipeline", "descriptors",
                       "sampler", "pixels", "swapchain", "device", "surface", "instance">>
<1>2. todo' = OfGen(kinds, gen)
  BY DEF Drop
<1>3. /\ DOMAIN todo' = 1 .. 11
      /\ todo'[1] = <<"semaphore", 0>> /\ todo'[2] = <<"pool", 0>>
      /\ todo'[3] = <<"framebuffers", gen>> /\ todo'[4] = <<"pipeline", gen>>
      /\ todo'[5] = <<"descriptors", 0>> /\ todo'[6] = <<"sampler", 0>>
      /\ todo'[7] = <<"pixels", 0>> /\ todo'[8] = <<"swapchain", gen>>
      /\ todo'[9] = <<"device", 0>> /\ todo'[10] = <<"surface", 0>>
      /\ todo'[11] = <<"instance", 0>>
  <2>1. DOMAIN todo' = 1 .. 11 /\ \A i \in 1 .. 11 : todo'[i] = Object(kinds[i], gen)
    BY <1>2 DEF OfGen
  <2>. QED
    BY <2>1, ObjectValue
<1>4. <<"commands", gen>> \in Goes(todo'[2])
  BY <1>3, ObjectValue DEF Goes
<1>5. \A i \in 1 .. 11 : todo'[i] \in Goes(todo'[i])
  BY DEF Goes
<1>6. live' = {<<"instance", 0>>, <<"surface", 0>>, <<"device", 0>>,
               <<"swapchain", gen>>, <<"pixels", 0>>, <<"sampler", 0>>,
               <<"descriptors", 0>>, <<"pipeline", gen>>, <<"framebuffers", gen>>,
               <<"pool", 0>>, <<"commands", gen>>, <<"semaphore", 0>>}
  BY <1>1, AllValue
<1>7. ASSUME NEW o \in live'
      PROVE  \E j \in 1 .. 11 :
               /\ o \in Goes(todo'[j])
               /\ \A i \in 1 .. 11 : todo'[i] \in Parents(o) => j <= i
  <2>1. CASE o \in {<<"instance", 0>>, <<"surface", 0>>, <<"device", 0>>}
    <3>1. /\ Parents(<<"instance", 0>>) = {}
          /\ Parents(<<"surface", 0>>) = {<<"instance", 0>>}
          /\ Parents(<<"device", 0>>) = {<<"instance", 0>>}
      BY ParentsValue
    <3>2. CASE o = <<"instance", 0>>
      BY <1>3, <1>5, <3>1, <3>2
    <3>3. \A i \in 1 .. 11 : todo'[i] = <<"instance", 0>> => i = 11
      BY <1>3
    <3>4. CASE o = <<"surface", 0>>
      BY <1>3, <1>5, <3>1, <3>3, <3>4
    <3>5. CASE o = <<"device", 0>>
      BY <1>3, <1>5, <3>1, <3>3, <3>5
    <3>. QED
      BY <2>1, <3>2, <3>4, <3>5
  <2>2. CASE o = <<"framebuffers", gen>>
    <3>1. Parents(o) = {<<"device", 0>>, <<"swapchain", gen>>}
      BY <2>2, ParentsValue
    <3>2. \A i \in 1 .. 11 : todo'[i] \in Parents(o) => i \in {8, 9}
      BY <1>3, <3>1
    <3>. QED
      BY <1>3, <1>5, <2>2, <3>2
  <2>3. CASE o = <<"commands", gen>>
    <3>1. Parents(o) = {<<"device", 0>>, <<"pool", 0>>}
      BY <2>3, ParentsValue
    <3>2. \A i \in 1 .. 11 : todo'[i] \in Parents(o) => i \in {2, 9}
      BY <1>3, <3>1
    <3>. QED
      BY <1>4, <2>3, <3>2
  <2>4. CASE o = <<"swapchain", gen>>
    <3>1. Parents(o) = {<<"device", 0>>, <<"surface", 0>>}
      BY <2>4, ParentsValue
    <3>2. \A i \in 1 .. 11 : todo'[i] \in Parents(o) => i \in {9, 10}
      BY <1>3, <3>1
    <3>. QED
      BY <1>3, <1>5, <2>4, <3>2
  <2>5. CASE o \in {<<"pixels", 0>>, <<"sampler", 0>>, <<"descriptors", 0>>,
                    <<"pipeline", gen>>, <<"pool", 0>>, <<"semaphore", 0>>}
    <3>1. /\ Parents(<<"pixels", 0>>) = {<<"device", 0>>}
          /\ Parents(<<"sampler", 0>>) = {<<"device", 0>>}
          /\ Parents(<<"descriptors", 0>>) = {<<"device", 0>>}
          /\ Parents(<<"pipeline", gen>>) = {<<"device", 0>>}
          /\ Parents(<<"pool", 0>>) = {<<"device", 0>>}
          /\ Parents(<<"semaphore", 0>>) = {<<"device", 0>>}
      BY ParentsValue
    <3>2. Parents(o) = {<<"device", 0>>}
      BY <2>5, <3>1
    <3>3. \A i \in 1 .. 11 : todo'[i] \in Parents(o) => i = 9
      BY <1>3, <3>2
    <3>4. \E j \in {1, 2, 4, 5, 6, 7} : o = todo'[j]
      BY <1>3, <2>5
    <3>. QED
      BY <1>5, <3>3, <3>4
  <2>. QED
    BY <1>6, <2>1, <2>2, <2>3, <2>4, <2>5
<1>8. DestroyedBefore'
  <2>1. ASSUME NEW i \in DOMAIN todo', NEW o \in live', todo'[i] \in Parents(o)
        PROVE  \E j \in 1 .. i : o \in Goes(todo'[j])
    <3>1. PICK j \in 1 .. 11 :
            /\ o \in Goes(todo'[j])
            /\ \A k \in 1 .. 11 : todo'[k] \in Parents(o) => j <= k
      BY <1>7
    <3>2. i \in 1 .. 11 /\ j <= i
      BY <1>3, <2>1, <3>1
    <3>3. j \in 1 .. i
      BY <3>2
    <3>. QED
      BY <3>1, <3>3
  <2>. QED
    BY <2>1 DEF DestroyedBefore
<1>9. Leaves({})'
  BY <1>3, <1>7 DEF Leaves
<1>. QED
  BY <1>1, <1>8, <1>9 DEF Drop, Lifetimes, ParentsOutlive, InUse

LEMMA LifeDestroy ==
  ASSUME TypeOK, Lifetimes, Destroy
  PROVE  Lifetimes'
<1>1. pc' = pc /\ gen' = gen /\ pc \in {"undo", "retire", "drop"}
  BY DestroyStep
<1>2. ParentsOutlive' /\ DestroyedBefore'
  BY <1>1, DestroyOrder DEF Lifetimes
<1>3. \A K : Leaves(K) => /\ K \subseteq live'
                          /\ \A o \in live' \ K : \E i \in DOMAIN todo' : o \in Goes(todo'[i])
                          /\ \A i \in DOMAIN todo' : Goes(todo'[i]) \cap K = {}
  BY DestroyLeaves DEF Leaves
<1>4. pc = "retire" => Leaves(All(1 - gen))'
  BY <1>1, <1>3 DEF Lifetimes, Leaves
<1>5. pc = "drop" => Leaves({})'
  BY <1>3 DEF Lifetimes, Leaves
<1>. QED
  BY <1>1, <1>2, <1>4, <1>5 DEF Lifetimes, InUse

LEMMA LifeDestroyed ==
  ASSUME TypeOK, Lifetimes, Destroyed
  PROVE  Lifetimes'
<1>1. live' = live /\ gen' = gen /\ todo' = todo /\ todo = <<>>
  BY DEF Destroyed, objectVars
<1>2. pc = "drop" => live' = {}
  <2>1. pc = "drop" => Leaves({})
    BY DEF Lifetimes
  <2>2. DOMAIN todo = {}
    BY <1>1
  <2>. QED
    BY <1>1, <2>1, <2>2 DEF Leaves
<1>. QED
  BY <1>1, <1>2 DEF Destroyed, Lifetimes, ParentsOutlive, InUse

(* No other step makes or destroys an object.                              *)
LEMMA LifeKept ==
  ASSUME Lifetimes, UNCHANGED objectVars,
         \/ pc' = pc \/ pc' = "failed"
         \/ pc \in InUse /\ pc' \in InUse
         \/ pc \in InUse /\ pc' = "recreate"
  PROVE  Lifetimes'
<1>1. live' = live /\ gen' = gen /\ todo' = todo
  BY DEF objectVars
<1>2. ParentsOutlive'
  BY <1>1 DEF Lifetimes, ParentsOutlive
<1>3. CASE pc' = pc
  BY <1>1, <1>2, <1>3 DEF Lifetimes, InUse, DestroyedBefore, Leaves, NewOf
<1>4. CASE pc' = "failed"
  BY <1>2, <1>4 DEF Lifetimes, InUse
<1>5. CASE pc \in InUse /\ pc' \in InUse
  BY <1>1, <1>2, <1>5 DEF Lifetimes, InUse
<1>6. CASE pc \in InUse /\ pc' = "recreate"
  <2>1. NewOf(0)' = {} /\ live' = All(gen)'
    BY <1>1, <1>6 DEF Lifetimes, NewOf
  <2>2. 0 \in 0 .. 3 /\ live' = (All(gen) \cup NewOf(0))'
    BY <2>1
  <2>. QED
    BY <1>2, <1>6, <2>2 DEF Lifetimes, InUse
<1>. QED
  BY <1>3, <1>4, <1>5, <1>6

LEMMA LifeNext ==
  ASSUME TypeOK, Returns, Lifetimes, [Next]_vars
  PROVE  Lifetimes'
<1>1. CASE Build
  BY <1>1, LifeBuild
<1>2. CASE BuildFails
  BY <1>2, LifeBuildFails
<1>3. CASE Remake
  BY <1>3, LifeRemake
<1>4. CASE RemakeFails
  BY <1>4, LifeRemakeFails
<1>5. CASE DeviceIdle
  BY <1>5, LifeDeviceIdle
<1>6. CASE Replace
  BY <1>6, LifeReplace
<1>7. CASE Drop
  BY <1>7, LifeDrop
<1>8. CASE Destroy
  BY <1>8, LifeDestroy
<1>9. CASE Destroyed
  BY <1>9, LifeDestroyed
<1>10. CASE BeginDraw \/ EndDraw \/ RenderAgain \/ Acquire \/ Submit \/ QueueIdle
  BY <1>10, LifeKept DEF BeginDraw, EndDraw, RenderAgain, Acquire, Submit, QueueIdle, InUse
<1>11. CASE Present \/ PresentFails \/ Presented
  BY <1>11, LifeKept DEF Present, PresentFails, Presented, InUse
<1>12. CASE AcquireOutOfDate \/ PresentOutOfDate
  BY <1>12, LifeKept DEF AcquireOutOfDate, PresentOutOfDate, InUse
<1>13. CASE RenderFails
  BY <1>13, LifeKept DEF RenderFails
<1>14. CASE Device \/ Resize
  BY <1>14, LifeKept DEF Device, GpuCopy, GpuDraw, ImageAvailable, Resize
<1>15. CASE UNCHANGED vars
  BY <1>15, LifeKept DEF vars
<1>16. CASE Ended
  BY <1>15, <1>16 DEF Ended
<1>. QED
  BY <1>1, <1>2, <1>3, <1>4, <1>5, <1>6, <1>7, <1>8, <1>9, <1>10, <1>11, <1>12, <1>13,
     <1>14, <1>15, <1>16
     DEF Next, Emulator, Render, Show, Recreate, Errors

-----------------------------------------------------------------------------
(***************************************************************************)
(* The types: everything that is destroyed is an object.                   *)
(***************************************************************************)
LEMMA AgesValue ==
  /\ Ages = 0 .. MaxBehind + 1 /\ MaxBehind \in Nat /\ MaxBehind >= 1
  /\ 0 \in Ages /\ Torn \in Ages /\ MaxBehind \in Ages
  /\ \A a \in Ages : Older(a) \in Ages
BY RendererAssumption DEF Ages, Torn, Older

LEMMA OfGenSeq ==
  ASSUME NEW n \in Nat, NEW kinds, DOMAIN kinds = 1 .. n, NEW g \in 0 .. 1,
         \A i \in 1 .. n : kinds[i] \in ToSet(BuildOrder)
  PROVE  OfGen(kinds, g) \in Seq(Objects)
BY DEF OfGen, Objects

LEMMA PartsAreKinds == ToSet(Parts) \subseteq ToSet(BuildOrder)
BY PartKinds, Kinds

LEMMA TypeInit == Init => TypeOK
<1>. SUFFICES ASSUME Init PROVE TypeOK
  OBVIOUS
<1>1. pc \in Places /\ resume \in Places /\ gen \in 0 .. 1 /\ coherent \in BOOLEAN
  BY DEF Init, Places
<1>2. live \subseteq Objects /\ todo \in Seq(Objects)
  BY DEF Init
<1>3. /\ buffer \in Ages /\ texture \in Ages /\ content \in [Images -> Ages]
      /\ behind \in Ages
  BY AgesValue DEF Init
<1>4. /\ acquired \in Images \cup {None} /\ displayed \in Images \cup {None}
      /\ acquired = displayed => acquired = None
      /\ sem = "unsignaled" /\ gpu = "idle"
      /\ fits \in BOOLEAN /\ newFits \in BOOLEAN /\ lost \in BOOLEAN
  BY DEF Init
<1>5. resizes \in 0 .. MaxResizes
  BY RendererAssumption DEF Init
<1>. QED
  BY <1>1, <1>2, <1>3, <1>4, <1>5 DEF TypeOK

(* The lists that are gone through.                                        *)
LEMMA TypeTodo ==
  ASSUME TypeOK, Lifetimes, BuildFails \/ RemakeFails \/ DeviceIdle \/ Drop
  PROVE  todo' \in Seq(Objects)
<1>. gen \in 0 .. 1 /\ 1 - gen \in 0 .. 1
  BY DEF TypeOK
<1>1. CASE BuildFails
  <2>1. PICK n \in 0 .. 11 : live = FirstOf(n)
    BY <1>1 DEF BuildFails, Lifetimes
  <2>2. todo' = Reverse(OfGen(SubSeq(BuildOrder, 1, n), 0))
    BY <1>1, <2>1, BuiltCount DEF BuildFails
  <2>3. DOMAIN SubSeq(BuildOrder, 1, n) = 1 .. n
        /\ \A i \in 1 .. n : SubSeq(BuildOrder, 1, n)[i] \in ToSet(BuildOrder)
    <3>1. \A i \in 1 .. 12 : BuildOrder[i] \in ToSet(BuildOrder)
      BY BuildOrderSeq DEF ToSet
    <3>2. DOMAIN SubSeq(BuildOrder, 1, n) = 1 .. n
          /\ \A i \in 1 .. n : SubSeq(BuildOrder, 1, n)[i] = BuildOrder[i]
      BY BuildOrderSeq
    <3>. QED
      BY <3>1, <3>2
  <2>4. OfGen(SubSeq(BuildOrder, 1, n), 0) \in Seq(Objects)
    <3>1. \A kinds : DOMAIN kinds = 1 .. n /\ (\A i \in 1 .. n : kinds[i] \in ToSet(BuildOrder))
            => OfGen(kinds, 0) \in Seq(Objects)
      <4>1. n \in Nat /\ 0 \in 0 .. 1
        OBVIOUS
      <4>. QED
        BY <4>1, OfGenSeq
    <3>. QED
      BY <2>3, <3>1
  <2>. QED
    BY <2>2, <2>4 DEF Reverse
<1>2. CASE RemakeFails
  <2>1. PICK n \in 0 .. 4 : live = All(gen) \cup NewOf(n)
    <3>1. 0 .. 3 \subseteq 0 .. 4 /\ 4 \in 0 .. 4
      OBVIOUS
    <3>. QED
      BY <1>2, <3>1 DEF RemakeFails, Lifetimes
  <2>2. todo' = OfGen(UndoOrder[n + 1], 1 - gen)
    <3>1. Cardinality(NewParts) = n
      BY <2>1, NewCount
    <3>. QED
      BY <1>2, <3>1 DEF RemakeFails, Undone
  <2>3. \E m \in Nat : /\ DOMAIN UndoOrder[n + 1] = 1 .. m
                       /\ \A i \in 1 .. m : UndoOrder[n + 1][i] \in ToSet(Parts)
    <3>1. n \in {0, 1, 2, 3, 4}
      OBVIOUS
    <3>2. CASE n = 0
      <4>1. DOMAIN UndoOrder[n + 1] = 1 .. 0
        BY <3>2, UndoValue
      <4>. QED
        BY <4>1
    <3>3. CASE n = 1
      <4>1. DOMAIN UndoOrder[n + 1] = 1 .. 1
            /\ \A i \in 1 .. 1 : UndoOrder[n + 1][i] \in ToSet(Parts)
        BY <3>3, UndoValue, PartKinds
      <4>. QED
        BY <4>1
    <3>4. CASE n = 2
      <4>1. DOMAIN UndoOrder[n + 1] = 1 .. 2
            /\ \A i \in 1 .. 2 : UndoOrder[n + 1][i] \in ToSet(Parts)
        BY <3>4, UndoValue, PartKinds
      <4>. QED
        BY <4>1
    <3>5. CASE n = 3
      <4>1. DOMAIN UndoOrder[n + 1] = 1 .. 3
            /\ \A i \in 1 .. 3 : UndoOrder[n + 1][i] \in ToSet(Parts)
        BY <3>5, UndoValue, PartKinds
      <4>. QED
        BY <4>1
    <3>6. CASE n = 4
      <4>1. DOMAIN UndoOrder[n + 1] = 1 .. 4
            /\ \A i \in 1 .. 4 : UndoOrder[n + 1][i] \in ToSet(Parts)
        BY <3>6, UndoValue, PartKinds
      <4>. QED
        BY <4>1
    <3>. QED
      BY <3>1, <3>2, <3>3, <3>4, <3>5, <3>6
  <2>. QED
    BY <2>2, <2>3, OfGenSeq, PartsAreKinds
<1>3. CASE DeviceIdle
  <2>. DEFINE kinds == <<"framebuffers", "swapchain", "pipeline", "commands">>
  <2>1. DOMAIN kinds = 1 .. 4 /\ \A i \in 1 .. 4 : kinds[i] \in ToSet(BuildOrder)
    BY Kinds
  <2>2. todo' = OfGen(kinds, gen)
    BY <1>3 DEF DeviceIdle
  <2>. HIDE DEF kinds
  <2>. QED
    BY <2>1, <2>2, OfGenSeq
<1>4. CASE Drop
  <2>. DEFINE kinds == <<"semaphore", "pool", "framebuffers", "pipeline", "descriptors",
                         "sampler", "pixels", "swapchain", "device", "surface", "instance">>
  <2>1. DOMAIN kinds = 1 .. 11 /\ \A i \in 1 .. 11 : kinds[i] \in ToSet(BuildOrder)
    BY Kinds
  <2>2. todo' = OfGen(kinds, gen)
    BY <1>4 DEF Drop
  <2>. HIDE DEF kinds
  <2>. QED
    BY <2>1, <2>2, OfGenSeq
<1>. QED
  BY <1>1, <1>2, <1>3, <1>4

(* A step leaves every variable its type.                                  *)
LEMMA TypeNext ==
  ASSUME TypeOK, Returns, Lifetimes, Queue, [Next]_vars
  PROVE  TypeOK'
<1>. USE DEF TypeOK, objectVars, gpuVars, imageVars, windowVars
<1>1. CASE Build
  <2>1. PICK i \in 1 .. 12 :
          /\ live' = live \cup {Object(BuildOrder[i], 0)}
          /\ fits' = IF BuildOrder[i] = "swapchain" THEN TRUE ELSE fits
          /\ pc' = IF i = 12 THEN "loop" ELSE "new"
    BY <1>1, BuildOrderSeq DEF Build
  <2>2. Object(BuildOrder[i], 0) \in Objects
    <3>1. BuildOrder[i] \in ToSet(BuildOrder) /\ 0 \in 0 .. 1
      BY BuildOrderSeq DEF ToSet
    <3>. QED
      BY <3>1 DEF Objects
  <2>3. live' \subseteq Objects /\ fits' \in BOOLEAN /\ pc' \in Places
    BY <2>1, <2>2 DEF Places
  <2>. QED
    BY <1>1, <2>3 DEF Build
<1>2. CASE BuildFails
  <2>1. todo' \in Seq(Objects)
    BY <1>2, TypeTodo
  <2>. QED
    BY <1>2, <2>1 DEF BuildFails, Places
<1>3. CASE Remake
  <2>1. PICK i \in 1 .. 4 :
          /\ live' = live \cup {Object(Parts[i], 1 - gen)}
          /\ newFits' = IF Parts[i] = "swapchain" THEN TRUE ELSE newFits
          /\ pc' = IF i = 4 THEN "waitIdle" ELSE "recreate"
    BY <1>3, PartsValue DEF Remake
  <2>2. Object(Parts[i], 1 - gen) \in Objects
    <3>1. Parts[i] \in ToSet(BuildOrder)
      BY PartsValue, PartsAreKinds DEF ToSet
    <3>. QED
      BY <3>1 DEF Objects
  <2>3. live' \subseteq Objects /\ newFits' \in BOOLEAN /\ pc' \in Places
    BY <2>1, <2>2 DEF Places
  <2>. QED
    BY <1>3, <2>3 DEF Remake
<1>4. CASE RemakeFails
  <2>1. todo' \in Seq(Objects)
    BY <1>4, TypeTodo
  <2>. QED
    BY <1>4, <2>1 DEF RemakeFails, Places
<1>5. CASE DeviceIdle
  <2>1. todo' \in Seq(Objects)
    BY <1>5, TypeTodo
  <2>. QED
    BY <1>5, <2>1 DEF DeviceIdle, Places
<1>6. CASE Replace
  BY <1>6, AgesValue DEF Replace
<1>7. CASE Drop
  <2>1. todo' \in Seq(Objects)
    BY <1>7, TypeTodo
  <2>. QED
    BY <1>7, <2>1 DEF Drop, Places
<1>8. CASE Destroy
  <2>1. todo' \in Seq(Objects) /\ live' \subseteq live /\ pc' = pc
    BY <1>8, DestroyStep
  <2>. QED
    BY <1>8, <2>1 DEF Destroy
<1>9. CASE Destroyed
  BY <1>9 DEF Destroyed, Places
<1>10. CASE BeginDraw
  <2>1. buffer' \in Ages /\ texture' \in Ages /\ content' \in [Images -> Ages] /\ behind' \in Ages
    BY <1>10, AgesValue DEF BeginDraw
  <2>. QED
    BY <1>10, <2>1 DEF BeginDraw, Places
<1>11. CASE EndDraw
  <2>1. buffer' \in Ages
    BY <1>11, AgesValue DEF EndDraw
  <2>. QED
    BY <1>11, <2>1 DEF EndDraw, Places
<1>12. CASE RenderAgain \/ QueueIdle \/ Presented \/ RenderFails
  BY <1>12 DEF RenderAgain, QueueIdle, Presented, RenderFails, Places
<1>13. CASE Acquire
  BY <1>13, RendererAssumption DEF Acquire, Places
<1>14. CASE Submit
  BY <1>14, AgesValue DEF Submit, Places
<1>15. CASE Present
  <2>1. behind' \in Ages /\ displayed' \in Images \cup {None} /\ acquired' = None
    BY <1>15 DEF Present, Queue
  <2>. QED
    BY <1>15, <2>1 DEF Present, Places
<1>16. CASE PresentFails \/ AcquireOutOfDate \/ PresentOutOfDate
  BY <1>16 DEF PresentFails, AcquireOutOfDate, PresentOutOfDate, Places
<1>17. CASE GpuCopy \/ ImageAvailable
  BY <1>17 DEF GpuCopy, ImageAvailable
<1>18. CASE GpuDraw
  BY <1>18 DEF GpuDraw
<1>19. CASE Resize
  <2>1. resizes' \in 0 .. MaxResizes
    BY <1>19, RendererAssumption DEF Resize
  <2>. QED
    BY <1>19, <2>1 DEF Resize
<1>20. CASE UNCHANGED vars
  BY <1>20 DEF vars
<1>21. CASE Ended
  BY <1>20, <1>21 DEF Ended
<1>. QED
  BY <1>1, <1>2, <1>3, <1>4, <1>5, <1>6, <1>7, <1>8, <1>9, <1>10, <1>11, <1>12, <1>13,
     <1>14, <1>15, <1>16, <1>17, <1>18, <1>19, <1>20, <1>21
     DEF Next, Emulator, Render, Show, Recreate, Errors, Device

-----------------------------------------------------------------------------
(***************************************************************************)
(* The GPU's work, the semaphore, and the newest frame.                    *)
(***************************************************************************)
LEMMA ReturnsNext ==
  ASSUME TypeOK, Returns, [Next]_vars
  PROVE  Returns'
<1>1. CASE AcquireOutOfDate \/ PresentOutOfDate
  BY <1>1 DEF AcquireOutOfDate, PresentOutOfDate, Returns
<1>2. CASE UNCHANGED resume
  BY <1>2 DEF Returns
<1>. QED
  BY <1>1, <1>2
     DEF Next, Emulator, Render, Show, Recreate, Errors, Device, Build, BuildFails,
         BeginDraw, EndDraw, RenderAgain, Acquire, RenderFails, Submit, QueueIdle, Present,
         PresentFails, Presented, Remake, RemakeFails, DeviceIdle, Replace, Destroy,
         Destroyed, Drop, GpuCopy, GpuDraw, ImageAvailable, Resize, Ended, vars

(* A step that touches neither the GPU nor the images, and does not enter  *)
(* the places between acquisition and presentation.                        *)
LEMMA QueueKept ==
  ASSUME Queue, NewestFrame, UNCHANGED <<sem, gpu>>,
         pc \notin {"submit", "waitGpu", "failed"},
         pc' \notin {"submit", "waitGpu", "rendered"}
  PROVE  (Queue /\ NewestFrame)'
BY DEF Queue, NewestFrame, GpuIdle

LEMMA QueueNext ==
  ASSUME TypeOK, Returns, Queue, NewestFrame, [Next]_vars
  PROVE  (Queue /\ NewestFrame)'
<1>. USE DEF gpuVars, imageVars
<1>1. CASE Build \/ BuildFails \/ BeginDraw \/ EndDraw \/ RenderAgain \/ AcquireOutOfDate
  BY <1>1, QueueKept
     DEF Build, BuildFails, BeginDraw, EndDraw, RenderAgain, AcquireOutOfDate
<1>2. CASE Remake \/ RemakeFails \/ DeviceIdle \/ Destroy \/ Destroyed \/ Drop
  BY <1>2, QueueKept DEF Remake, RemakeFails, DeviceIdle, Destroy, Destroyed, Drop
<1>3. CASE Present \/ PresentOutOfDate \/ PresentFails \/ Presented
  BY <1>3, QueueKept DEF Present, PresentOutOfDate, PresentFails, Presented
<1>4. CASE Replace
  BY <1>4, QueueKept DEF Replace, Returns
<1>5. CASE RenderFails
  BY <1>5 DEF RenderFails, Queue, NewestFrame
<1>6. CASE Acquire
  <2>1. pc = "acquire" /\ pc' = "submit" /\ sem' = "pending" /\ gpu' = gpu /\ acquired' \in Images
    BY <1>6 DEF Acquire
  <2>. QED
    BY <2>1 DEF Queue, NewestFrame, GpuIdle
<1>7. CASE Submit
  <2>1. /\ pc = "submit" /\ pc' = "waitGpu" /\ sem' = sem /\ gpu' = "copy"
        /\ acquired' = acquired /\ buffer' = 0
    BY <1>7 DEF Submit
  <2>. QED
    BY <2>1 DEF Queue, NewestFrame, GpuIdle
<1>8. CASE QueueIdle
  <2>1. /\ pc = "waitGpu" /\ pc' = "rendered" /\ sem' = sem /\ gpu' = "idle" /\ gpu = "idle"
        /\ acquired' = acquired /\ content' = content
    BY <1>8 DEF QueueIdle
  <2>. QED
    BY <2>1 DEF Queue, NewestFrame, GpuIdle
<1>9. CASE GpuCopy
  <2>1. /\ gpu = "copy" /\ gpu' = "draw" /\ texture' = buffer /\ pc' = pc /\ sem' = sem
        /\ acquired' = acquired
    BY <1>9 DEF GpuCopy
  <2>2. pc \in {"waitGpu", "failed"}
    BY <2>1 DEF Queue, GpuIdle
  <2>. QED
    BY <2>1, <2>2 DEF Queue, NewestFrame, GpuIdle
<1>10. CASE GpuDraw
  <2>1. /\ gpu = "draw" /\ gpu' = "idle" /\ sem' = "unsignaled" /\ pc' = pc
        /\ content' = [content EXCEPT ![acquired] = texture] /\ acquired' = acquired
    BY <1>10 DEF GpuDraw
  <2>2. pc \in {"waitGpu", "failed"}
    BY <2>1 DEF Queue, GpuIdle
  <2>3. pc = "waitGpu" => acquired \in Images /\ content'[acquired] = 0
    BY <2>1 DEF Queue, NewestFrame, TypeOK
  <2>. QED
    BY <2>1, <2>2, <2>3 DEF Queue, NewestFrame, GpuIdle
<1>11. CASE ImageAvailable
  <2>1. /\ sem = "pending" /\ sem' = "signaled" /\ pc' = pc /\ gpu' = gpu
        /\ acquired' = acquired /\ texture' = texture /\ buffer' = buffer
        /\ content' = content
    BY <1>11 DEF ImageAvailable
  <2>2. pc \in {"submit", "waitGpu", "failed"}
    BY <2>1 DEF Queue, GpuIdle
  <2>. QED
    BY <2>1, <2>2 DEF Queue, NewestFrame, GpuIdle
<1>12. CASE Resize
  BY <1>12 DEF Resize, Queue, NewestFrame, GpuIdle
<1>13. CASE UNCHANGED vars
  BY <1>13 DEF vars, Queue, NewestFrame, GpuIdle
<1>14. CASE Ended
  BY <1>13, <1>14 DEF Ended
<1>. QED
  BY <1>1, <1>2, <1>3, <1>4, <1>5, <1>6, <1>7, <1>8, <1>9, <1>10, <1>11, <1>12, <1>13, <1>14
     DEF Next, Emulator, Render, Show, Recreate, Errors, Device

-----------------------------------------------------------------------------
(***************************************************************************)
(* The theorems.                                                           *)
(***************************************************************************)
LEMMA IInvInit == Init => IInv
<1>. SUFFICES ASSUME Init PROVE IInv
  OBVIOUS
<1>1. live = FirstOf(0) /\ 0 \in 0 .. 11
  BY DEF Init, FirstOf
<1>2. ParentsOutlive
  BY DEF Init, ParentsOutlive
<1>3. Lifetimes
  BY <1>1, <1>2 DEF Init, Lifetimes, InUse
<1>4. Returns /\ Queue /\ NewestFrame
  BY DEF Init, Returns, Queue, NewestFrame, GpuIdle
<1>. QED
  BY <1>3, <1>4, TypeInit DEF IInv

LEMMA IInvNext == IInv /\ [Next]_vars => IInv'
BY TypeNext, ReturnsNext, LifeNext, QueueNext DEF IInv

LEMMA Invariance == Spec => []IInv
BY IInvInit, IInvNext, PTL DEF Spec

(* The semaphore goes to acquire_next_image only when nothing waits for it *)
(* or will signal it, and only acquired images of the swapchain in use are *)
(* drawn to and presented, with all the objects that the commands name in  *)
(* existence, whatever happens to the window and whichever call fails.     *)
THEOREM VulkanIsUsedRight == Spec => []CommandsValid
<1>1. IInv => CommandsValid
  <2>. SUFFICES ASSUME IInv PROVE CommandsValid
    OBVIOUS
  <2>1. SemaphoreReusable
    BY DEF IInv, Queue, GpuIdle, SemaphoreReusable
  <2>2. SubmitsAcquired
    BY RendererAssumption DEF IInv, Queue, Lifetimes, InUse, All, SubmitsAcquired
  <2>. QED
    BY <2>1, <2>2 DEF IInv, CommandsValid
<1>. QED
  BY <1>1, Invariance, PTL

(* new(), recreate_swapchain(), their error paths and drop() destroy every *)
(* object after what was made from it, and lose none, however many         *)
(* swapchains the renderer goes through.                                   *)
THEOREM NothingOutlivesItsParents == Spec => []ObjectLifetimes
<1>1. IInv => ObjectLifetimes
  BY DEF IInv, Lifetimes, InUse, All, ObjectLifetimes, NothingLeaks
<1>. QED
  BY <1>1, Invariance, PTL

-----------------------------------------------------------------------------
(***************************************************************************)
(* The steps of the renderer as the emulator and the user see them.        *)
(***************************************************************************)
Off == {"undo", "drop", "failed", "dropped"}

LEMMA StepBegins ==
  ASSUME TypeOK, BeginDraw
  PROVE  Frames!BeginFrame
<1>1. pc = "loop" /\ pc' = "draw" /\ behind' = Older(behind) /\ behind \in 0 .. MaxBehind + 1
  BY DEF TypeOK, BeginDraw, Ages, Torn
<1>2. behind' = IF behind < MaxBehind THEN behind + 1 ELSE behind
  BY <1>1, AgesValue DEF Older
<1>. QED
  BY <1>1, <1>2 DEF Frames!BeginFrame

LEMMA StepEnds ==
  ASSUME EndDraw
  PROVE  Frames!EndFrame
BY DEF EndDraw, Frames!EndFrame, imageVars

(* The image that is presented holds the newest frame.                     *)
LEMMA StepShows ==
  ASSUME NewestFrame, Present
  PROVE  Frames!Show
BY DEF NewestFrame, Present, Frames!Show

LEMMA StepOff ==
  ASSUME pc \notin Off, pc # "draw", pc' \in Off, UNCHANGED behind
  PROVE  Frames!SwitchOff
BY DEF Off, Frames!SwitchOff

LEMMA StepHidden ==
  ASSUME pc \in Off <=> pc' \in Off, pc = "draw" <=> pc' = "draw", UNCHANGED behind
  PROVE  UNCHANGED Frames!vars
BY DEF Off, Frames!vars

LEMMA StepShown ==
  ASSUME IInv, [Next]_vars
  PROVE  [Frames!Next]_(Frames!vars)
<1>. USE DEF imageVars
<1>1. CASE BeginDraw
  BY <1>1, StepBegins DEF IInv, Frames!Next
<1>2. CASE EndDraw
  BY <1>2, StepEnds DEF Frames!Next
<1>3. CASE Present
  BY <1>3, StepShows DEF IInv, Frames!Next
<1>4. CASE BuildFails \/ RenderFails \/ RemakeFails \/ Drop
  BY <1>4, StepOff DEF BuildFails, RenderFails, RemakeFails, Drop, Off, Frames!Next
<1>5. CASE Build \/ RenderAgain \/ Acquire \/ AcquireOutOfDate \/ Submit \/ QueueIdle
  <2>1. pc' \in {"new", "loop", "acquire", "submit", "recreate", "waitGpu", "rendered"}
    BY <1>5 DEF Build, RenderAgain, Acquire, AcquireOutOfDate, Submit, QueueIdle
  <2>2. pc \in {"new", "loop", "acquire", "submit", "waitGpu"} /\ UNCHANGED behind
    BY <1>5 DEF Build, RenderAgain, Acquire, AcquireOutOfDate, Submit, QueueIdle
  <2>. QED
    BY <2>1, <2>2, StepHidden DEF Off
<1>6. CASE PresentOutOfDate \/ PresentFails \/ Presented \/ Remake \/ DeviceIdle \/ Replace
  <2>1. pc' \in {"loop", "acquire", "recreate", "waitIdle", "retire", "waitPresent"}
    BY <1>6
       DEF PresentOutOfDate, PresentFails, Presented, Remake, DeviceIdle, Replace, IInv, Returns
  <2>2. pc \in {"rendered", "waitPresent", "recreate", "waitIdle", "retire"} /\ UNCHANGED behind
    BY <1>6 DEF PresentOutOfDate, PresentFails, Presented, Remake, DeviceIdle, Replace
  <2>. QED
    BY <2>1, <2>2, StepHidden DEF Off
<1>7. CASE Destroy \/ Destroyed \/ Device \/ Resize
  BY <1>7, StepHidden
     DEF Destroy, Destroyed, Device, GpuCopy, GpuDraw, ImageAvailable, Resize, Off
<1>8. CASE UNCHANGED vars
  BY <1>8, StepHidden DEF vars
<1>9. CASE Ended
  BY <1>8, <1>9 DEF Ended
<1>. QED
  BY <1>1, <1>2, <1>3, <1>4, <1>5, <1>6, <1>7, <1>8, <1>9
     DEF Next, Emulator, Render, Show, Recreate, Errors

(* What the safety part of ShowsFrames says: the renderer implements the   *)
(* display step by step.  Whenever the window changes what it shows, it    *)
(* shows the newest frame that was drawn, and never while one is being     *)
(* drawn; that it does so again and again is liveness.                     *)
THEOREM ImplementsDisplay == Spec => Frames!Init /\ [][Frames!Next]_(Frames!vars)
<1>1. Init => Frames!Init
  BY DEF Init, Frames!Init
<1>. QED
  BY <1>1, StepShown, Invariance, PTL DEF Spec

=============================================================================
