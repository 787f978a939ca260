--------------------------- MODULE MCAddressSpace ---------------------------
(* What fills the guest's address space. `part` says what a behaviour is     *)
(* about: the "heap", the "pages" of VirtualAlloc, the "libraries" that are  *)
(* loaded and their COM classes, their "startup" or the "stubs".             *)
(*                                                                           *)
(* The heap: an arena of four 16-byte cells, the size zero, and sizes that   *)
(* fill cells exactly and by one byte more, so that blocks are split with    *)
(* and without a remainder and the arena runs out. The pages: six of them,   *)
(* the cursor begins at the second.                                          *)
(*                                                                           *)
(* Five DLLs: a imports b and k, b imports k and c, c imports b, e imports   *)
(* a; k has only Python handlers, and the file of e is in a directory of its *)
(* own. Most prefer the same base, and a reserved range lies where c wants   *)
(* to be. c is also a COM server, so it can be activated while it is loaded, *)
(* by the DllMain of b. The program imports c and a, or nothing: b and c     *)
(* import each other when it starts, and e may be loaded by a DllMain while  *)
(* that of a waits. A table of initializers has two functions and a null     *)
(* slot between them.                                                        *)
(*                                                                           *)
(* The table of stubs has room for six, of two DLLs. k exports guest code    *)
(* with two hooks in two slots, r has a file, with an export both DLLs have  *)
(* a handler for and one that has the name of the guest code.                *)
EXTENDS Heap, VirtualMemory, OleCom, StubTable, Initializers

VARIABLE part

ThreadSymmetry == Permutations(Thread)

MCImports == [d \in Dll \cup {Program} |-> CASE d = "a" -> <<"b", "k">> [] d = "b" -> <<"k", "c">>
                              [] d = "c" -> <<"b">> [] d = "e" -> <<"a">>
                              [] d = Program -> <<"c", "a">> [] OTHER -> <<>>]
MCPreferred == [d \in Dll |-> CASE d = "c" -> 5 [] OTHER -> 3]
MCReserved == {<<6, 6>>}

MCGuestCodes == {[dll |-> "k", size |-> 4, exports |-> [f \in {"enter"} |-> 0], hooks |-> {1, 3}],
                 [dll |-> "k", size |-> 1, exports |-> [f \in {} |-> 0], hooks |-> {0}]}
MCRealExports == {[dll |-> "r", func |-> "f", addr |-> 20], [dll |-> "r", func |-> "enter", addr |-> 21]}

MCTable == <<TRUE, FALSE, TRUE>>

heapVars == vars
spaceVars == <<heapVars, vmVars, loaderVars, comVars, stubVars, initVars, part>>

(* What the last LoadLibrary of a thread gave back is read by nobody, and    *)
(* states that differ in it alone are taken for one.                         *)
SpaceView == <<heapVars, vmVars, base, slot, unpatched, notFound, searched, dllMain, attaches,
               pending, handleStore, stack, comVars, stubVars, initVars, part>>

SpaceInit ==
    /\ part \in {"heap", "pages", "libraries", "startup", "stubs"}
    (* the components the behaviour is not about have one initial state *)
    /\ IF part = "libraries" THEN TRUE ELSE stack = [t \in Thread |-> <<>>]
    /\ IF part = "stubs" THEN TRUE ELSE loadedReal = {}
    /\ IF part = "startup" THEN TRUE ELSE loaded = 1 /\ load = [callers |-> {1}, waiting |-> {}]
    /\ Init /\ VmInit /\ LoaderInit /\ ComInit /\ StubInit /\ InitializersInit

SpaceNext ==
    /\ UNCHANGED part
    /\ \/ part = "heap" /\ Next
          /\ UNCHANGED <<vmVars, loaderVars, comVars, stubVars, initVars>>
       \/ part = "pages" /\ VmNext
          /\ UNCHANGED <<heapVars, loaderVars, comVars, stubVars, initVars>>
       \/ part = "libraries" /\ ComNext
          /\ UNCHANGED <<heapVars, vmVars, stubVars, initVars>>
       \/ part = "stubs" /\ StubNext
          /\ UNCHANGED <<heapVars, vmVars, loaderVars, comVars, initVars>>
       \/ part = "startup" /\ InitializersNext
          /\ UNCHANGED <<heapVars, vmVars, loaderVars, comVars, stubVars>>

SpaceSpec == SpaceInit /\ [][SpaceNext]_spaceVars
=============================================================================
