------------------------------ MODULE D3DFrames ------------------------------
(* Frames of Direct3D 8 on Vulkan: one command buffer that collects every    *)
(* scene of a frame until Present, a fence and a semaphore that tie it to    *)
(* the GPU, a swapchain that a resize or Reset replaces, one vertex buffer   *)
(* shared by the draws of a frame, and one descriptor set per texture.       *)
(*                                                                           *)
(* Vulkan is external and modelled by its rules: an acquire signals          *)
(* "available", a submission consumes it, and signals the fence when the GPU *)
(* is done; a draw reads its vertices and its descriptor set when it         *)
(* executes. A submission whose fence is signalled already is against the    *)
(* rules: the fence then stays as it is, or counts for the submission.       *)
EXTENDS Naturals, FiniteSets, Sequences

CONSTANTS
    Image,         \* indices of the swapchain's images
    Region,        \* _vk_vertex_buffer_size in draws
    Tex,           \* textures with a surface the guest may lock
    Pool,          \* the descriptor sets of _vk_descriptor_pool not yet given away
    Default,       \* _vk_descriptor_set, of the untextured draws
    MaxSwapchain,  \* bound: swapchains made
    FramePrograms  \* the sets of things that may happen

ASSUME D3DFramesAssumption ==
    /\ 0 \in Image
    /\ Region \in Nat \ {0} /\ MaxSwapchain \in Nat \ {0} /\ Default \notin Pool

VARIABLES
    instance,   \* _vk_instance is not None
    device,     \* _vk_device is not None
    swapchain,  \* generation of _vk_swapchain and _vk_swapchain_images
    views,      \* generation _vk_image_views and _vk_framebuffers were made from
    stale,      \* the window changed: the swapchain is out of date
    layout,     \* the layout each image of the swapchain is in
    used,       \* _vk_swapchain_images_used
    acquired,   \* _vk_image_acquired
    current,    \* _vk_current_image_idx
    submitted,  \* _vk_frame_submitted
    inPass,     \* _vk_in_render_pass
    frame,      \* parity of the frame, to tell its draws from those of the one before
    draws,      \* the draws recorded in _vk_cmd_buf: [at, id, tex, set]
    busy,       \* the GPU has not finished what was submitted
    inFlight,   \* the draws it may not have run yet
    awaited,    \* ... whose fence was not yet signalled when they were submitted
    cursor,     \* _vk_vertex_cursor
    vertices,   \* the draw each region of the vertex buffer holds the vertices of
    fence,      \* _vk_in_flight is signalled
    available,  \* _vk_image_available is signalled
    own,        \* the descriptor set of each texture, Default before it has one
    points,     \* the texture whose image each set points at, if that exists
    blend,      \* the blend factors SetRenderState stored: "known" or "unknown" to D3D8
    fatal,      \* cpu.fatal_halt
    frameProgram

recording == <<frame, draws, cursor, vertices>>
gpu       == <<busy, inFlight, awaited>>
textures  == <<own, points>>
frameVars == <<instance, device, swapchain, views, stale, layout, used, acquired, current, submitted,
               inPass, recording, gpu, fence, available, textures, blend, fatal, frameProgram>>

Fresh == [i \in Image |-> "undefined"]

FrameInit ==
    /\ instance = FALSE /\ device = FALSE /\ swapchain = 0 /\ views = 0 /\ stale = FALSE
    /\ layout = Fresh /\ used = {} /\ acquired = FALSE
    /\ current = 0
    /\ submitted = FALSE /\ inPass = FALSE
    /\ frame = 0 /\ draws = <<>> /\ cursor = 0
    /\ vertices = [r \in 0..(Region - 1) |-> <<0, 0>>]
    /\ busy = FALSE /\ inFlight = {} /\ awaited = FALSE
    /\ fence = FALSE /\ available = FALSE
    /\ own = [t \in Tex |-> Default] /\ points = [s \in Pool |-> {}]
    /\ blend = "known" /\ fatal = FALSE
    /\ frameProgram \in FramePrograms

Playing(name) == ~fatal /\ name \in frameProgram
Unlocked == UNCHANGED <<textures, blend, frameProgram>>
Undrawn == UNCHANGED recording
Presentation == UNCHANGED <<swapchain, views, stale, layout, used, current>>
Halt == fatal' = TRUE

(* The GPU has run everything: on its own, or because it is waited for. *)
Finished ==
    /\ busy' = FALSE /\ inFlight' = {} /\ awaited' = FALSE
    /\ fence' = (fence \/ busy)

(* Direct3DCreate8 makes the Vulkan instance once. *)
Direct3DCreate8 ==
    /\ ~fatal /\ frameProgram # {}
    /\ \/ instance /\ UNCHANGED <<instance, fatal>>
       \/ ~instance /\ instance' = TRUE /\ UNCHANGED fatal
       \/ ~instance /\ instance' \in BOOLEAN /\ Halt
    /\ UNCHANGED <<device, acquired, submitted, inPass, gpu, fence, available>>
    /\ Presentation /\ Undrawn /\ Unlocked

(* The steps of CreateDevice, in order. Each may fail and stops the machine; *)
(* what the steps before it made stays.                                      *)
WindowSteps    == <<"window", "functions", "surface">>
DeviceSteps    == <<"family", "device", "queue">>
SwapchainSteps == <<"swapchain">>
FrameSteps     == <<"commands", "sync">>
PipelineSteps  == <<"views", "pipeline">>
Steps == WindowSteps \o DeviceSteps \o SwapchainSteps \o FrameSteps \o PipelineSteps

CreateDevice ==
    /\ ~fatal /\ instance /\ ~device
    /\ \E done \in 0..Len(Steps) :
          LET made(step) == \E i \in 1..done : Steps[i] = step
              one(step)  == IF made(step) THEN 1 ELSE 0
          IN /\ device' = made("device")
             /\ swapchain' = one("swapchain") /\ views' = one("views")
             /\ fence' = made("sync")
             /\ fatal' = (done < Len(Steps))
    /\ UNCHANGED <<instance, stale, layout, used, acquired, current, submitted, inPass, gpu,
                   available>>
    /\ Undrawn /\ Unlocked

(* _rebuild_swapchain: new images, the old ones destroyed; the image views   *)
(* and the framebuffers are not made again.                                  *)
Rebuilt ==
    /\ swapchain < MaxSwapchain
    /\ swapchain' = swapchain + 1 /\ stale' = FALSE
    /\ layout' = Fresh
    /\ UNCHANGED views

(* Mutant: every image is taken as new. *)
OldLayout_Undefined(seen, i) == "undefined"

(* Mutant of Waited: the frame that was submitted is not waited for. *)
Waited_Not == TRUE

(* BeginScene with no image acquired waits for the fence of the last frame   *)
(* that was submitted, acquires an image and opens the command buffer.       *)
Waited == submitted => fence
OldLayout(seen, i) == IF i \in seen THEN "present" ELSE "undefined"

(* The barrier leaves the image ready for drawing; its content is kept only  *)
(* if the old layout is the one it really is in.                             *)
OpenFrame(i, seen) ==
    /\ used' = seen \cup {i}
    /\ current' = i
    /\ layout' = [(IF stale THEN Fresh ELSE layout) EXCEPT ![i] = "color"]
    /\ frame' = 1 - frame /\ draws' = <<>> /\ cursor' = 0 /\ UNCHANGED vertices
    /\ inPass' = TRUE

BeginScene ==
    /\ Playing("scene") /\ device /\ (~acquired => Waited)
    /\ IF acquired THEN UNCHANGED frameVars
       ELSE /\ IF submitted THEN fence' = FALSE /\ submitted' = FALSE
                            ELSE UNCHANGED <<fence, submitted>>
            /\ acquired' = TRUE /\ available' = TRUE
            /\ \E i \in Image : OpenFrame(i, IF stale THEN {} ELSE used)
            /\ IF stale
               THEN swapchain < MaxSwapchain /\ swapchain' = swapchain + 1 /\ stale' = FALSE
               ELSE UNCHANGED <<swapchain, stale>>
            /\ UNCHANGED <<instance, device, views, gpu, fatal>>
            /\ Unlocked

EndScene == Playing("scene") /\ device /\ UNCHANGED frameVars

(* Clear and DrawPrimitive; the guest calls them within a scene. *)
Clear ==
    /\ Playing("scene") /\ device /\ acquired
    /\ layout' = IF inPass THEN layout ELSE [layout EXCEPT ![current] = "transfer"]
    /\ UNCHANGED <<instance, device, swapchain, views, stale, used, acquired, current,
                   submitted, inPass, gpu, fence, available, fatal>>
    /\ Undrawn /\ Unlocked

(* Every draw has a region of the vertex buffer for itself. The pipeline for *)
(* the blend state is made after the vertices are written, and factors D3D8  *)
(* does not define raise. The descriptor set of the texture is bound, or the *)
(* default one; what it points at is read when the GPU runs the draw.        *)
AfterDraw == cursor + 1
DrawPrimitive(t) ==
    /\ Playing("scene") /\ device /\ acquired
    /\ IF cursor >= Region THEN Halt /\ Undrawn
       ELSE /\ vertices' = [vertices EXCEPT ![cursor] = <<frame, Len(draws) + 1>>]
            /\ cursor' = AfterDraw /\ UNCHANGED frame
            /\ IF blend = "unknown" THEN Halt /\ UNCHANGED draws
               ELSE /\ draws' = Append(draws, [at |-> cursor, id |-> <<frame, Len(draws) + 1>>,
                                               tex |-> t, set |-> own[t]])
                    /\ UNCHANGED fatal
    /\ UNCHANGED <<instance, device, acquired, submitted, inPass, gpu, fence, available>>
    /\ Presentation /\ Unlocked

(* A primitive type tew does not draw, no primitives, or no stream source. *)
DrawNothing == Playing("scene") /\ device /\ UNCHANGED frameVars

SetRenderState ==
    /\ Playing("blend") /\ device
    /\ blend' \in {"known", "unknown"}
    /\ UNCHANGED <<instance, device, acquired, submitted, inPass, gpu, fence, available, textures,
                   fatal, frameProgram>>
    /\ Presentation /\ Undrawn

(* Present ends the pass, submits the command buffer and shows the image; an *)
(* out-of-date swapchain is rebuilt after the submission.                    *)
Finalized == [layout EXCEPT ![current] = "present"]
Present ==
    /\ Playing("scene") /\ device /\ acquired
    /\ submitted' = TRUE /\ available' = FALSE
    /\ inPass' = FALSE /\ acquired' = FALSE
    /\ fence' \in {fence, FALSE}
    /\ busy' = TRUE
    /\ inFlight' = inFlight \cup {draws[i] : i \in DOMAIN draws}
    /\ awaited' = (~fence' /\ (busy => awaited))
    /\ IF stale THEN Rebuilt /\ used' = {}
                ELSE layout' = Finalized /\ UNCHANGED <<swapchain, views, stale, used>>
    /\ draws' = <<>>
    /\ UNCHANGED <<instance, device, current, frame, cursor, vertices, fatal>>
    /\ Unlocked

(* Reset waits for the device, then makes the swapchain, its views and its   *)
(* framebuffers again, or fails and stops the machine.                       *)
Reset ==
    /\ Playing("Reset") /\ device
    /\ \/ /\ swapchain < MaxSwapchain
          /\ swapchain' = swapchain + 1 /\ views' = swapchain + 1 /\ stale' = FALSE
          /\ layout' = Fresh /\ used' = {}
          /\ current' = 0
          /\ submitted' = FALSE /\ acquired' = FALSE
          /\ UNCHANGED fatal
       \/ /\ Halt
          /\ UNCHANGED <<swapchain, views, stale, layout, used, current, submitted, acquired>>
    /\ Finished
    /\ UNCHANGED <<instance, device, inPass, available>>
    /\ Undrawn /\ Unlocked

(* UnlockRect destroys the image of the texture, uploads the pixels into a   *)
(* new one and waits for the queue.                                          *)
Upload ==
    /\ device /\ Finished
    /\ UNCHANGED <<instance, device, acquired, submitted, inPass, available, blend, frameProgram>>
    /\ Undrawn /\ Presentation

(* A texture is given a set once and keeps it. *)
SetFor(t) == IF own[t] = Default THEN Pool \ {own[u] : u \in Tex} ELSE {own[t]}

(* The surface's UnlockRect points the descriptor set of the texture at the  *)
(* new image. Sets are never returned to the pool: when textures that are    *)
(* gone have used it up, a texture without a set of its own raises.          *)
UnlockSurface(t) ==
    /\ Playing("UnlockRect") /\ Upload
    /\ \/ /\ \E s \in SetFor(t) : /\ own' = [own EXCEPT ![t] = s]
                                 /\ points' = [points EXCEPT ![s] = {t}]
          /\ UNCHANGED fatal
       \/ own[t] = Default /\ Halt /\ UNCHANGED textures

(* The texture's UnlockRect does not: the set is left without an image. *)
UnlockTexture(t) ==
    /\ Playing("TextureUnlockRect") /\ Upload
    /\ points' = [s \in Pool |-> IF s = own[t] THEN {} ELSE points[s]]
    /\ UNCHANGED <<own, fatal>>

(* The process ends: the GPU is waited for and the objects are destroyed in  *)
(* the reverse of the order they were made in.                               *)
Shutdown ==
    /\ ~fatal /\ instance /\ Halt
    /\ instance' = FALSE /\ device' = FALSE /\ swapchain' = 0
    /\ Finished
    /\ UNCHANGED <<views, stale, layout, used, acquired, current, submitted, inPass, available>>
    /\ Undrawn /\ Unlocked

(* The GPU executes the frame. *)
Execute ==
    /\ busy /\ Finished
    /\ UNCHANGED <<instance, device, acquired, submitted, inPass, available, fatal>>
    /\ Undrawn /\ Presentation /\ Unlocked

(* The user resizes the window. *)
Resize ==
    /\ Playing("resize") /\ device /\ ~stale
    /\ stale' = TRUE
    /\ UNCHANGED <<instance, device, swapchain, views, layout, used, acquired, current,
                   submitted, inPass, gpu, fence, available, fatal>>
    /\ Undrawn /\ Unlocked

FrameNext ==
    \/ Direct3DCreate8 \/ CreateDevice \/ BeginScene \/ EndScene \/ Clear
    \/ \E t \in Tex : DrawPrimitive(t) \/ UnlockSurface(t) \/ UnlockTexture(t)
    \/ DrawNothing \/ SetRenderState \/ Present \/ Reset \/ Shutdown \/ Execute \/ Resize

FrameSpec == FrameInit /\ [][FrameNext]_frameVars

---------------------------------------------------------------------------
HasVertices(d) == vertices[d.at] = d.id

(* The GPU reads the vertices of a draw long after they were written. Until  *)
(* then no later draw writes over them: not one of the same frame, whatever  *)
(* scenes, resizes, resets and uploads come in between, and not one of the   *)
(* next, provided that the frame was submitted with a fence that was not     *)
(* signalled already (idirect3d8device.py:720-725, 1404-1418).               *)
DrawsKeepTheirVertices ==
    /\ \A i \in DOMAIN draws : HasVertices(draws[i])
    /\ busy /\ awaited => \A d \in inFlight : HasVertices(d)

(* The set that a recorded draw binds is filled in by whoever unlocks        *)
(* textures until the frame is submitted: it still shows the texture of this *)
(* draw, and no other (_pipeline.py:335-349). A guest that locks textures    *)
(* and not their surfaces is left with sets that show nothing.               *)
DrawsSampleTheirTextures ==
    "TextureUnlockRect" \notin frameProgram =>
        \A i \in DOMAIN draws :
            draws[i].set = Default \/ points[draws[i].set] = {draws[i].tex}

(* What a draw was recorded with is there when the GPU runs it.              *)
DrawsFindTheirData == DrawsKeepTheirVertices /\ DrawsSampleTheirTextures

(* An image that was shown and is acquired again keeps its content, and one  *)
(* that was never used is taken as undefined.                                *)
ContentIsKept ==
    [][acquired' /\ ~acquired /\ swapchain' = swapchain
         => layout[current'] = OldLayout(used, current')]_frameVars
=============================================================================
