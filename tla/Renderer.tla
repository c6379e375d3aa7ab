------------------------------ MODULE Renderer ------------------------------
(***************************************************************************)
(* PixelRenderer (src/pixel_renderer): the emulator draws a frame into a   *)
(* buffer that is mapped into its memory, render_frame() has the GPU copy  *)
(* it and draw it into an image of the swapchain, present() hands that     *)
(* image to the window system.  CPU, GPU and window system run at the same *)
(* time; a resize of the window makes the swapchain, and everything that   *)
(* was made for it, out of date at any moment.                             *)
(***************************************************************************)
EXTENDS Naturals, Sequences, FiniteSets, SequencesExt

CONSTANTS
  Images,       \* the images of a swapchain
  None,         \* no image
  MaxBehind,    \* bound: frames are told apart up to this age
  MaxResizes    \* bound: resizes of the window

ASSUME RendererAssumption ==
  /\ Images # {} /\ None \notin Images
  /\ MaxBehind \in Nat \ {0} /\ MaxResizes \in Nat

VARIABLES
  pc,         \* where the emulator is, see Places
  resume,     \* where recreate_swapchain() returns to
  gen,        \* which swapchain is in use: two never outlive the next
  live,       \* the Vulkan objects that exist, see Objects
  todo,       \* the objects that are to be destroyed next, in order
  coherent,   \* the buffer's memory is coherent: the GPU sees writes at once
  buffer,     \* what the GPU sees in the buffer
  texture,    \* what the GPU copied last
  content,    \* what each image of the swapchain holds
  acquired,   \* the image that is being rendered or waits for present()
  displayed,  \* the image that the window system shows, if of this swapchain
  sem,        \* image_available_semaphore
  gpu,        \* what the GPU has left to do of the last submission
  behind,     \* the age of what the window shows
  fits,       \* the swapchain in use has the size of the window
  newFits,    \* so has the one that recreate_swapchain() is making
  lost,       \* the surface is gone
  resizes     \* bounded: resizes that are left

objectVars == <<gen, live, todo>>
gpuVars == <<sem, gpu, texture>>
imageVars == <<content, acquired, displayed, behind>>
windowVars == <<fits, newFits, lost, resizes>>
vars == <<pc, resume, objectVars, coherent, buffer, gpuVars, imageVars, windowVars>>

(***************************************************************************)
(* A frame is known by its age, the frames begun since: 0 is the newest.   *)
(***************************************************************************)
Torn == MaxBehind + 1
Ages == 0 .. Torn
Older(a) == IF a >= MaxBehind THEN a ELSE a + 1

(***************************************************************************)
(* The objects in the order in which PixelRenderer::new makes them; those  *)
(* in Parts depend on the swapchain and are made again with it.            *)
(***************************************************************************)
Parts == <<"swapchain", "pipeline", "framebuffers", "commands">>
BuildOrder ==
  <<"instance", "surface", "device", "swapchain", "pixels", "sampler",
    "descriptors", "pipeline", "framebuffers", "pool", "commands", "semaphore">>
Object(kind, g) == <<kind, IF kind \in ToSet(Parts) THEN g ELSE 0>>
Objects == {Object(kind, g) : kind \in ToSet(BuildOrder), g \in 0 .. 1}
OfGen(kinds, g) == [i \in DOMAIN kinds |-> Object(kinds[i], g)]

\* What an object is made from, or was created with
Parents(o) ==
  LET kinds == CASE o[1] = "instance" -> {}
                 [] o[1] \in {"surface", "device"} -> {"instance"}
                 [] o[1] = "swapchain" -> {"device", "surface"}
                 [] o[1] = "framebuffers" -> {"device", "swapchain"}
                 [] o[1] = "commands" -> {"device", "pool"}
                 [] OTHER -> {"device"}
  IN {Object(kind, o[2]) : kind \in kinds}

\* The command buffers go with the pool that they come from.
Without(objects, o) ==
  objects \ ({o} \cup IF o[1] = "pool" THEN {Object("commands", g) : g \in 0 .. 1} ELSE {})

Places ==
  {"new", "loop", "draw", "acquire", "submit", "waitGpu", "rendered", "waitPresent",
   "recreate", "waitIdle", "retire", "undo", "drop", "failed", "dropped"}

(***************************************************************************)
(* PixelRenderer::new                                                      *)
(***************************************************************************)
Init ==
  /\ pc = "new" /\ resume = "acquire"
  /\ gen = 0 /\ live = {} /\ todo = <<>>
  /\ coherent \in BOOLEAN
  /\ buffer = MaxBehind /\ texture = MaxBehind
  /\ content = [i \in Images |-> MaxBehind]
  /\ acquired = None /\ displayed = None
  /\ sem = "unsignaled" /\ gpu = "idle"
  /\ behind = MaxBehind
  /\ fits = TRUE /\ newFits = TRUE /\ lost = FALSE
  /\ resizes = MaxResizes

\* The objects that exist while new() is making them: a part of BuildOrder
Built == {i \in DOMAIN BuildOrder : Object(BuildOrder[i], 0) \in live}

Build ==
  /\ pc = "new"
  /\ \E i \in DOMAIN BuildOrder :
       /\ Built = 1 .. i - 1
       /\ live' = live \cup {Object(BuildOrder[i], 0)}
       /\ fits' = IF BuildOrder[i] = "swapchain" THEN TRUE ELSE fits
       /\ pc' = IF i = Len(BuildOrder) THEN "loop" ELSE "new"
  /\ UNCHANGED <<resume, gen, todo, coherent, buffer, gpuVars, imageVars,
                 newFits, lost, resizes>>

\* An error: what was made before is destroyed, the last first.
BuildFails ==
  /\ pc = "new"
  /\ pc' = "undo"
  /\ todo' = Reverse(OfGen(SubSeq(BuildOrder, 1, Cardinality(Built)), 0))
  /\ UNCHANGED <<resume, gen, live, coherent, buffer, gpuVars, imageVars, windowVars>>

(***************************************************************************)
(* The main loop, as far as the renderer is concerned: draw a frame, or    *)
(* only render again (when the window is resized or exposed in a pause).   *)
(***************************************************************************)
BeginDraw ==
  /\ pc = "loop"
  /\ pc' = "draw"
  /\ buffer' \in IF coherent THEN {Torn} ELSE {Older(buffer), Torn}
  /\ texture' = Older(texture)
  /\ content' = [i \in Images |-> Older(content[i])]
  /\ behind' = Older(behind)
  /\ UNCHANGED <<resume, objectVars, coherent, sem, gpu, acquired, displayed, windowVars>>

EndDraw ==
  /\ pc = "draw"
  /\ pc' = "acquire"
  /\ buffer' \in IF coherent THEN {0} ELSE {buffer, 0}
  /\ UNCHANGED <<resume, objectVars, coherent, gpuVars, imageVars, windowVars>>

RenderAgain ==
  /\ pc = "loop"
  /\ pc' = "acquire"
  /\ UNCHANGED <<resume, objectVars, coherent, buffer, gpuVars, imageVars, windowVars>>

(***************************************************************************)
(* render_frame()                                                          *)
(***************************************************************************)
\* acquire_next_image, which returns before the image may be drawn to
Acquire ==
  /\ pc = "acquire" /\ ~lost
  /\ \E i \in Images \ {acquired, displayed} : acquired' = i
  /\ sem' = "pending"
  /\ pc' = "submit"
  /\ UNCHANGED <<resume, objectVars, coherent, buffer, gpu, texture, content, displayed,
                 behind, windowVars>>

AcquireOutOfDate ==
  /\ pc = "acquire" /\ ~fits
  /\ pc' = "recreate" /\ resume' = "acquire"
  /\ UNCHANGED <<objectVars, coherent, buffer, gpuVars, imageVars, windowVars>>

\* An error of any of the calls is a panic, which aborts.
RenderFails ==
  /\ pc \in {"acquire", "submit", "waitGpu", "waitPresent"}
  /\ pc' = "failed"
  /\ UNCHANGED <<resume, objectVars, coherent, buffer, gpuVars, imageVars, windowVars>>

\* Mutant: the mapped memory is not flushed.
SubmitUnflushed ==
  /\ pc = "submit"
  /\ gpu' = "copy"
  /\ pc' = "waitGpu"
  /\ UNCHANGED <<resume, objectVars, coherent, buffer, sem, texture, imageVars, windowVars>>

\* flush_mapped_buffer, then queue_submit
Submit ==
  /\ pc = "submit"
  /\ buffer' = 0
  /\ gpu' = "copy"
  /\ pc' = "waitGpu"
  /\ UNCHANGED <<resume, objectVars, coherent, sem, texture, imageVars, windowVars>>

\* Mutant: render_frame() does not wait for the GPU.
QueueIdleNoWait ==
  /\ pc = "waitGpu"
  /\ pc' = "rendered"
  /\ UNCHANGED <<resume, objectVars, coherent, buffer, gpuVars, imageVars, windowVars>>

\* queue_wait_idle; the main loop then sleeps until it is time to present
QueueIdle ==
  /\ pc = "waitGpu" /\ gpu = "idle"
  /\ pc' = "rendered"
  /\ UNCHANGED <<resume, objectVars, coherent, buffer, gpuVars, imageVars, windowVars>>

(***************************************************************************)
(* present()                                                               *)
(***************************************************************************)
Present ==
  /\ pc = "rendered" /\ ~lost
  /\ displayed' = acquired /\ acquired' = None
  /\ behind' = content[acquired]
  /\ pc' = "waitPresent"
  /\ UNCHANGED <<resume, objectVars, coherent, buffer, gpuVars, content, windowVars>>

PresentOutOfDate ==
  /\ pc = "rendered" /\ ~fits
  /\ pc' = "recreate" /\ resume' = "waitPresent"
  /\ UNCHANGED <<objectVars, coherent, buffer, gpuVars, imageVars, windowVars>>

\* Any other error is ignored.
PresentFails ==
  /\ pc = "rendered"
  /\ lost' = TRUE
  /\ pc' = "waitPresent"
  /\ UNCHANGED <<resume, objectVars, coherent, buffer, gpuVars, imageVars, fits, newFits,
                 resizes>>

\* queue_wait_idle on the queue of presentations
Presented ==
  /\ pc = "waitPresent"
  /\ pc' = "loop"
  /\ UNCHANGED <<resume, objectVars, coherent, buffer, gpuVars, imageVars, windowVars>>

(***************************************************************************)
(* recreate_swapchain()                                                    *)
(***************************************************************************)
NewParts == {i \in DOMAIN Parts : Object(Parts[i], 1 - gen) \in live}

Remake ==
  /\ pc = "recreate"
  /\ \E i \in DOMAIN Parts :
       /\ NewParts = 1 .. i - 1
       /\ live' = live \cup {Object(Parts[i], 1 - gen)}
       /\ newFits' = IF Parts[i] = "swapchain" THEN TRUE ELSE newFits
       /\ pc' = IF i = Len(Parts) THEN "waitIdle" ELSE "recreate"
  /\ UNCHANGED <<resume, gen, todo, coherent, buffer, gpuVars, imageVars, fits, lost, resizes>>

\* What is destroyed when making one of the parts, or waiting, fails, by the
\* number of parts that were made: the swapchain before the pipeline.
UndoOrder ==
  << <<>>, <<"swapchain">>, <<"swapchain", "pipeline">>,
     <<"framebuffers", "swapchain", "pipeline">>,
     <<"commands", "framebuffers", "swapchain", "pipeline">> >>
Undone == OfGen(UndoOrder[Cardinality(NewParts) + 1], 1 - gen)

RemakeFails ==
  /\ pc \in {"recreate", "waitIdle"}
  /\ pc' = "undo"
  /\ todo' = Undone
  /\ UNCHANGED <<resume, gen, live, coherent, buffer, gpuVars, imageVars, windowVars>>

\* Mutant: the command buffers of the old swapchain are not freed.
DeviceIdleNoFree ==
  /\ pc = "waitIdle" /\ gpu = "idle"
  /\ pc' = "retire"
  /\ todo' = OfGen(<<"framebuffers", "swapchain", "pipeline">>, gen)
  /\ UNCHANGED <<resume, gen, live, coherent, buffer, gpuVars, imageVars, windowVars>>

\* device_wait_idle
DeviceIdle ==
  /\ pc = "waitIdle" /\ gpu = "idle"
  /\ pc' = "retire"
  /\ todo' = OfGen(<<"framebuffers", "swapchain", "pipeline", "commands">>, gen)
  /\ UNCHANGED <<resume, gen, live, coherent, buffer, gpuVars, imageVars, windowVars>>

Replace ==
  /\ pc = "retire" /\ todo = <<>>
  /\ gen' = 1 - gen
  /\ fits' = newFits
  /\ content' = [i \in Images |-> MaxBehind]
  /\ acquired' = None /\ displayed' = None
  /\ pc' = resume
  /\ UNCHANGED <<resume, live, todo, coherent, buffer, gpuVars, behind, newFits, lost,
                 resizes>>

(***************************************************************************)
(* Destroying, in order, and what follows; an error of new() ends the      *)
(* program, and so does one of recreate_swapchain().                       *)
(***************************************************************************)
Destroy ==
  /\ pc \in {"undo", "retire", "drop"} /\ todo # <<>>
  /\ live' = Without(live, Head(todo))
  /\ todo' = Tail(todo)
  /\ UNCHANGED <<pc, resume, gen, coherent, buffer, gpuVars, imageVars, windowVars>>

Destroyed ==
  /\ pc \in {"undo", "drop"} /\ todo = <<>>
  /\ pc' = IF pc = "undo" THEN "failed" ELSE "dropped"
  /\ UNCHANGED <<resume, objectVars, coherent, buffer, gpuVars, imageVars, windowVars>>

\* The program ends: PixelRenderer::drop
Drop ==
  /\ pc = "loop" /\ gpu = "idle"
  /\ pc' = "drop"
  /\ todo' = OfGen(<<"semaphore", "pool", "framebuffers", "pipeline", "descriptors",
                     "sampler", "pixels", "swapchain", "device", "surface", "instance">>, gen)
  /\ UNCHANGED <<resume, gen, live, coherent, buffer, gpuVars, imageVars, windowVars>>

(***************************************************************************)
(* The GPU: the command buffer of the acquired image.                      *)
(***************************************************************************)
GpuCopy ==
  /\ gpu = "copy"
  /\ texture' = buffer
  /\ gpu' = "draw"
  /\ UNCHANGED <<pc, resume, objectVars, coherent, buffer, sem, imageVars, windowVars>>

GpuDraw ==
  /\ gpu = "draw" /\ sem = "signaled"
  /\ content' = [content EXCEPT ![acquired] = texture]
  /\ sem' = "unsignaled"
  /\ gpu' = "idle"
  /\ UNCHANGED <<pc, resume, objectVars, coherent, buffer, texture, acquired, displayed,
                 behind, windowVars>>

(***************************************************************************)
(* The window system.                                                      *)
(***************************************************************************)
ImageAvailable ==
  /\ sem = "pending"
  /\ sem' = "signaled"
  /\ UNCHANGED <<pc, resume, objectVars, coherent, buffer, gpu, texture, imageVars,
                 windowVars>>

Resize ==
  /\ pc \notin {"failed", "dropped"} /\ resizes > 0
  /\ resizes' = resizes - 1
  /\ fits' = FALSE /\ newFits' = FALSE
  /\ UNCHANGED <<pc, resume, objectVars, coherent, buffer, gpuVars, imageVars, lost>>

Render == Acquire \/ AcquireOutOfDate \/ Submit \/ QueueIdle
Show == Present \/ PresentOutOfDate \/ Presented
Recreate == Remake \/ DeviceIdle \/ Replace
Errors == BuildFails \/ RenderFails \/ PresentFails \/ RemakeFails
Emulator ==
  \/ Build \/ BeginDraw \/ EndDraw \/ Render \/ Show \/ Recreate \/ Destroy \/ Destroyed
  \/ lost /\ (PresentFails \/ RenderFails)
Device == GpuCopy \/ GpuDraw \/ ImageAvailable

Ended == pc \in {"failed", "dropped"} /\ UNCHANGED vars

Next == Emulator \/ Device \/ Errors \/ RenderAgain \/ Drop \/ Resize \/ Ended

(* The emulator draws frame after frame, the GPU and the window system do  *)
(* what they were asked; errors, resizes and pauses need not happen.       *)
Spec == Init /\ [][Next]_vars
FairSpec == Spec /\ WF_vars(Emulator) /\ WF_vars(Device)

-----------------------------------------------------------------------------
TypeOK ==
  /\ pc \in Places /\ resume \in Places
  /\ gen \in 0 .. 1 /\ live \subseteq Objects /\ todo \in Seq(Objects)
  /\ coherent \in BOOLEAN
  /\ buffer \in Ages /\ texture \in Ages
  /\ content \in [Images -> Ages]
  /\ acquired \in Images \cup {None} /\ displayed \in Images \cup {None}
  /\ acquired = displayed => acquired = None
  /\ sem \in {"unsignaled", "pending", "signaled"}
  /\ gpu \in {"idle", "copy", "draw"}
  /\ behind \in Ages
  /\ fits \in BOOLEAN /\ newFits \in BOOLEAN /\ lost \in BOOLEAN
  /\ resizes \in 0 .. MaxResizes

(* What the window shows is at all times a whole frame, the newest at the  *)
(* time, however the emulator's writes, the copy on the GPU, the flips of  *)
(* the swapchain and its replacement interleave; and frames go on being    *)
(* shown as long as the program runs.                                      *)
Frames == INSTANCE Display WITH
            on <- pc \notin {"undo", "drop", "failed", "dropped"},
            drawing <- pc = "draw"
ShowsFrames == Frames!Spec

(* The one semaphore is handed to acquire_next_image only when nothing is  *)
(* left that will signal it or that waits for it.                          *)
SemaphoreReusable == pc = "acquire" => sem = "unsignaled" /\ gpu = "idle"

(* A command buffer is submitted, and an image presented, only for an      *)
(* image that was acquired from the swapchain in use, and the objects that *)
(* the commands name exist.                                                *)
SubmitsAcquired ==
  pc \in {"submit", "waitGpu", "rendered"} =>
    /\ acquired # None
    /\ ToSet(OfGen(BuildOrder, gen)) \subseteq live

(* What is given to Vulkan is in a state in which Vulkan accepts it; an    *)
(* image is never on the screen and being drawn to at once.                *)
CommandsValid == TypeOK /\ SemaphoreReusable /\ SubmitsAcquired

(* Nothing is destroyed before what was made from it: not when new() fails *)
(* half way, not when a swapchain is replaced, not at the end.             *)
ParentsOutlive == \A o \in live : Parents(o) \subseteq live

(* However often the window is resized, one object of each kind exists     *)
(* when the main loop goes on, and none when the renderer is gone.         *)
NothingLeaks ==
  /\ pc = "loop" => live = ToSet(OfGen(BuildOrder, gen))
  /\ pc = "dropped" => live = {}

\* Objects are destroyed once, in time and in order.
ObjectLifetimes == ParentsOutlive /\ NothingLeaks

=============================================================================
