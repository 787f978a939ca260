----------------------------- MODULE D3DObjects -----------------------------
(* The COM objects of Direct3D 8: vertex and index buffers, surfaces and     *)
(* textures with their mip levels, allocated from a private bump heap whose  *)
(* freed blocks are kept on one free list per kind and size, and freed when  *)
(* a reference count the handlers keep beside the object reaches zero.       *)
(*                                                                           *)
(* The guest is correct: it uses and releases only what it holds ("held").   *)
(* Addresses count blocks from 1; a block's size is in the same unit.        *)
EXTENDS Naturals, FiniteSets, Sequences, SequencesExt

CONSTANTS
    Limit,        \* last address of the heap (D3D8_HEAP_LIMIT)
    Sizes,        \* sizes of the data of a surface or a buffer
    Levels,       \* mip levels a texture is created with
    Stage,        \* sampler stages
    MaxHeld,      \* bound: references the guest holds to one object
    ObjPrograms   \* the sets of calls a guest may be made of

ASSUME D3DObjectsAssumption ==
    /\ Limit \in Nat /\ MaxHeld \in Nat \ {0}
    /\ Sizes \subseteq Nat \ {0} /\ Levels \subseteq Nat \ {0}
    /\ IsFiniteSet(Stage)

VARIABLES
    heap,     \* [next, free, reg, refs]: cursor, free lists, _alloc_registry, _ref_counts
    bound,    \* _bound_textures: stage -> texture or 0
    stream,   \* _draw_stream_ptr: the data block of the bound vertex buffer, or 0
    target,   \* the cached back buffer and depth-stencil surface, or 0
    extent,   \* _vk_logical_width x _vk_logical_height, as a size
    held,     \* the references the guest owns, by address
    objHalted,
    objProgram

objVars == <<heap, bound, stream, target, extent, held, objHalted, objProgram>>

Addr == 1..Limit
Kinds == {"res_data", "res_obj", "surf_data", "surf_obj", "tex_obj"}
Keys == Kinds \X (Sizes \cup Levels \cup {1})

---------------------------------------------------------------------------
(* The heap. *)

Room(h, k) == h.free[k] # <<>> \/ h.next + k[2] <= Limit + 1
AllocAddr(h, k) == IF h.free[k] # <<>> THEN Last(h.free[k]) ELSE h.next
HeapAlloc(h, k) ==
    IF h.free[k] # <<>> THEN [h EXCEPT !.free[k] = Front(@)]
                        ELSE [h EXCEPT !.next = @ + k[2]]
HeapFree(h, a, k) == [h EXCEPT !.free[k] = Append(@, a)]

Registered(h, a, entry) ==
    [h EXCEPT !.reg = [b \in DOMAIN @ \cup {a} |-> IF b = a THEN entry ELSE @[b]]]

(* An allocation that does not fit raises; "ok" is false from then on, and   *)
(* what was allocated before stays allocated.                                *)
AllocObject(r, kind, size) ==
    LET dataKey == IF kind = "res" THEN <<"res_data", size>> ELSE <<"surf_data", size>>
        objKey  == IF kind = "res" THEN <<"res_obj", 1>> ELSE <<"surf_obj", 1>>
        h1 == HeapAlloc(r.h, dataKey)
        d  == AllocAddr(r.h, dataKey)
        o  == AllocAddr(h1, objKey)
    IN IF ~r.ok \/ ~Room(r.h, dataKey) THEN [h |-> r.h, ok |-> FALSE, made |-> r.made]
       ELSE IF ~Room(h1, objKey) THEN [h |-> h1, ok |-> FALSE, made |-> r.made]
       ELSE [h |-> Registered(HeapAlloc(h1, objKey), o,
                              [kind |-> kind, data |-> d, size |-> size, mips |-> <<>>]),
             ok |-> TRUE, made |-> Append(r.made, o)]

Start(h) == [h |-> h, ok |-> TRUE, made |-> <<>>]

AllocTexture(h, size, levels) ==
    LET key  == <<"tex_obj", levels>>
        mips == FoldLeft(LAMBDA r, i : AllocObject(r, "surf", size),
                         Start(HeapAlloc(h, key)), [i \in 1..levels |-> i])
        o    == AllocAddr(h, key)
    IN IF ~Room(h, key) THEN [Start(h) EXCEPT !.ok = FALSE]
       ELSE IF ~mips.ok THEN mips
       ELSE [mips EXCEPT !.made = <<o>>,
                         !.h = Registered(@, o, [kind |-> "tex", data |-> 0, size |-> levels,
                                                 mips |-> mips.made])]

---------------------------------------------------------------------------
(* Reference counts. *)

Alive(h) == DOMAIN h.reg
Count(h, a) == IF a \in DOMAIN h.refs THEN h.refs[a] ELSE 1
WithCount(h, a, n) ==
    [h EXCEPT !.refs = [b \in DOMAIN @ \cup {a} |-> IF b = a THEN n ELSE @[b]]]
Dropped(f, a) == [b \in DOMAIN f \ {a} |-> f[b]]
AddRef(h, a) == WithCount(h, a, Count(h, a) + 1)

(* _free_object for a buffer or a surface: both blocks go back. *)
FreeLeaf(h, a) ==
    IF a \notin Alive(h) THEN h
    ELSE LET e == h.reg[a] IN
         HeapFree(HeapFree([h EXCEPT !.reg = Dropped(@, a)],
                           e.data, <<IF e.kind = "res" THEN "res_data" ELSE "surf_data", e.size>>),
                  a, <<IF e.kind = "res" THEN "res_obj" ELSE "surf_obj", 1>>)

DecLeaf(h, a) ==
    IF Count(h, a) > 1 THEN WithCount(h, a, Count(h, a) - 1)
    ELSE FreeLeaf([h EXCEPT !.refs = Dropped(@, a)], a)

(* A texture gives up its own reference on each of its mip surfaces. *)
FreeObject(h, a) ==
    IF a \in Alive(h) /\ h.reg[a].kind = "tex"
    THEN LET e == h.reg[a] IN
         FoldLeft(DecLeaf,
                  HeapFree([h EXCEPT !.reg = Dropped(@, a)], a, <<"tex_obj", e.size>>),
                  e.mips)
    ELSE FreeLeaf(h, a)

DecRef(h, a) ==
    IF Count(h, a) > 1 THEN WithCount(h, a, Count(h, a) - 1)
    ELSE FreeObject([h EXCEPT !.refs = Dropped(@, a)], a)

---------------------------------------------------------------------------
ObjInit ==
    /\ heap = [next |-> 1, free |-> [k \in Keys |-> <<>>],
               reg |-> [a \in {} |-> 0], refs |-> [a \in {} |-> 0]]
    /\ bound = [s \in Stage |-> 0] /\ stream = 0
    /\ target = [t \in {"back", "depth"} |-> 0]
    /\ extent \in Sizes
    /\ held = [a \in Addr |-> 0]
    /\ objHalted = FALSE
    /\ objProgram \in ObjPrograms

Calls(name) == ~objHalted /\ name \in objProgram
Owned(a) == held[a] > 0 /\ a \in Alive(heap)
Given(a) == held' = [held EXCEPT ![a] = @ + 1]
NotRead == UNCHANGED <<extent, objProgram>>

(* The objects a Create call makes for the guest, or the exhaustion of the   *)
(* heap, which ends the run.                                                 *)
Created(r) ==
    /\ heap' = r.h
    /\ IF r.ok THEN Given(Last(r.made)) /\ UNCHANGED objHalted
               ELSE objHalted' = TRUE /\ UNCHANGED held
    /\ UNCHANGED <<bound, stream, target>> /\ NotRead

CreateBuffer  == Calls("CreateVertexBuffer")
                 /\ \E size \in Sizes : Created(AllocObject(Start(heap), "res", size))
CreateSurface == Calls("CreateImageSurface")
                 /\ \E size \in Sizes : Created(AllocObject(Start(heap), "surf", size))
CreateTexture == Calls("CreateTexture")
                 /\ \E size \in Sizes, n \in Levels : Created(AllocTexture(heap, size, n))

AddRefCall(a) ==
    /\ Calls("AddRef") /\ Owned(a) /\ held[a] < MaxHeld
    /\ heap' = AddRef(heap, a) /\ Given(a)
    /\ UNCHANGED <<bound, stream, target, objHalted>> /\ NotRead

Release(a) ==
    /\ ~objHalted /\ held[a] > 0
    /\ heap' = DecRef(heap, a)
    /\ held' = [held EXCEPT ![a] = @ - 1]
    /\ UNCHANGED <<bound, stream, target, objHalted>> /\ NotRead

(* Mutant: no reference for the caller. *)
GetSurfaceLevel_NoRef(a, level) ==
    /\ Calls("GetSurfaceLevel") /\ Owned(a) /\ heap.reg[a].kind = "tex"
    /\ level \in DOMAIN heap.reg[a].mips
    /\ held[heap.reg[a].mips[level]] < MaxHeld
    /\ Given(heap.reg[a].mips[level])
    /\ UNCHANGED <<heap, bound, stream, target, objHalted>> /\ NotRead

(* GetSurfaceLevel hands out a mip surface with a reference of its own; a    *)
(* level out of range stops the machine.                                     *)
GetSurfaceLevel(a, level) ==
    /\ Calls("GetSurfaceLevel") /\ Owned(a) /\ heap.reg[a].kind = "tex"
    /\ LET mips == heap.reg[a].mips IN
       IF level > Len(mips) THEN objHalted' = TRUE /\ UNCHANGED <<heap, held>>
       ELSE /\ held[mips[level]] < MaxHeld
            /\ heap' = AddRef(heap, mips[level]) /\ Given(mips[level])
            /\ UNCHANGED objHalted
    /\ UNCHANGED <<bound, stream, target>> /\ NotRead

(* The texture of a stage: the previous one is released unless it is the     *)
(* same, and the new one is referenced even when it is the same.             *)
Rebound(h, prev, a) ==
    LET h1 == IF prev # 0 /\ prev # a THEN DecRef(h, prev) ELSE h
    IN IF a = 0 THEN h1 ELSE AddRef(h1, a)

SetTexture(s, a) ==
    /\ Calls("SetTexture")
    /\ a # 0 => Owned(a) /\ heap.reg[a].kind = "tex" /\ Count(heap, a) <= 2 * MaxHeld
    /\ heap' = Rebound(heap, bound[s], a)
    /\ bound' = [bound EXCEPT ![s] = a]
    /\ UNCHANGED <<stream, target, held, objHalted>> /\ NotRead

GetTexture(s) ==
    /\ Calls("SetTexture") /\ bound[s] # 0 /\ held[bound[s]] < MaxHeld
    /\ heap' = AddRef(heap, bound[s]) /\ Given(bound[s])
    /\ UNCHANGED <<bound, stream, target, objHalted>> /\ NotRead

(* SetStreamSource keeps the address of the buffer's data and no reference. *)
SetStreamSource(a) ==
    /\ Calls("SetStreamSource")
    /\ a # 0 => Owned(a) /\ heap.reg[a].kind = "res"
    /\ stream' = IF a = 0 THEN stream ELSE heap.reg[a].data
    /\ UNCHANGED <<heap, bound, target, held, objHalted>> /\ NotRead

(* GetBackBuffer: the cached surface if it is still registered; a new one is *)
(* counted for the device and for the caller.                                *)
GetBackBuffer ==
    LET a == target["back"]
        r == AllocObject(Start(heap), "surf", extent)
        o == Last(r.made)
    IN /\ Calls("GetBackBuffer")
       /\ IF a # 0 /\ a \in Alive(heap)
          THEN /\ held[a] < MaxHeld
               /\ heap' = AddRef(heap, a) /\ Given(a)
               /\ UNCHANGED <<target, objHalted>>
          ELSE IF r.ok
          THEN /\ heap' = WithCount(r.h, o, 2) /\ Given(o)
               /\ target' = [target EXCEPT !["back"] = o]
               /\ UNCHANGED objHalted
          ELSE heap' = r.h /\ objHalted' = TRUE /\ UNCHANGED <<target, held>>
       /\ UNCHANGED <<bound, stream>> /\ NotRead

(* GetRenderTarget and GetDepthStencilSurface: a new surface keeps the count *)
(* 1 it was made with.                                                       *)
GetTarget(t) ==
    LET a == target[t]
        r == AllocObject(Start(heap), "surf", extent)
        o == Last(r.made)
    IN /\ Calls("GetRenderTarget")
       /\ IF a # 0
          THEN /\ held[a] < MaxHeld
               /\ heap' = AddRef(heap, a) /\ Given(a)
               /\ UNCHANGED <<target, objHalted>>
          ELSE IF r.ok
          THEN /\ heap' = r.h /\ Given(o)
               /\ target' = [target EXCEPT ![t] = o]
               /\ UNCHANGED objHalted
          ELSE heap' = r.h /\ objHalted' = TRUE /\ UNCHANGED <<target, held>>
       /\ UNCHANGED <<bound, stream>> /\ NotRead

(* Reset forgets the cached surfaces; the references of the device stay. *)
ResetTargets ==
    /\ Calls("Reset")
    /\ extent' \in Sizes
    /\ target' = [t \in {"back", "depth"} |-> 0]
    /\ UNCHANGED <<heap, bound, stream, held, objHalted, objProgram>>

ObjNext ==
    \/ CreateBuffer \/ CreateSurface \/ CreateTexture
    \/ \E a \in Addr : AddRefCall(a) \/ Release(a)
    \/ \E a \in Addr, level \in Levels : GetSurfaceLevel(a, level)
    \/ \E s \in Stage, a \in Addr \cup {0} : SetTexture(s, a)
    \/ \E s \in Stage : GetTexture(s)
    \/ \E a \in Addr \cup {0} : SetStreamSource(a)
    \/ GetBackBuffer
    \/ \E t \in {"back", "depth"} : GetTarget(t)
    \/ ResetTargets

ObjSpec == ObjInit /\ [][ObjNext]_objVars

---------------------------------------------------------------------------
(* Who uses an object: the guest, the stages it is bound to, the textures it *)
(* is a level of, and the device for a cached surface.                       *)
Users(a) ==
    held[a] + Cardinality({s \in Stage : bound[s] = a})
            + Cardinality({x \in Alive(heap) : \E i \in DOMAIN heap.reg[x].mips :
                                                   heap.reg[x].mips[i] = a})
Covered(a) == a \in Alive(heap) /\ Count(heap, a) >= Users(a)

(* An object in use is registered, and its count covers all of its users, so *)
(* that no release frees what another still uses: AddRef, Release,           *)
(* GetSurfaceLevel, SetTexture, GetTexture and the recursive release of a    *)
(* texture agree on who owns what.                                           *)
UsersAreCounted ==
    "GetRenderTarget" \notin objProgram => \A a \in Addr : Users(a) > 0 => Covered(a)

(* A block is on at most one free list, once, and no object that is alive    *)
(* uses it: whatever the guest releases, nothing is freed twice and no block *)
(* is handed out while its owner lives.                                      *)
FreeBlocksUnused ==
    LET onLists(a) == Cardinality({at \in Keys \X (1..Limit) :
                                       /\ at[2] \in DOMAIN heap.free[at[1]]
                                       /\ heap.free[at[1]][at[2]] = a})
        owners(a) == Cardinality({o \in Alive(heap) : o = a})
                     + Cardinality({o \in Alive(heap) : heap.reg[o].data = a})
    IN \A a \in Addr : onLists(a) + owners(a) <= 1

(* Reference counts and free lists agree on which objects are alive.         *)
ObjectsAreKept == UsersAreCounted /\ FreeBlocksUnused
=============================================================================
