-------------------------------- MODULE Loader --------------------------------
(* The DLL loader: which images are mapped where, what the slots of their    *)
(* import tables hold, and whose DllMain has run.                            *)
(*                                                                           *)
(* Loading recurses through the imports, and a dependency's DllMain is guest *)
(* code run in the middle of it, which may load again. So every thread has a *)
(* stack of frames. The DllMain of the DLL a thread asked for runs after the *)
(* handler has returned, as ordinary code of the thread; the other frames    *)
(* are inside a handler, and while a thread has one no other thread runs.    *)
(* A program with imports starts in a frame that loads them; their DllMains  *)
(* wait in a list until all are patched.                                     *)
EXTENDS Integers, Sequences, FiniteSets, FiniteSetsExt, SequencesExt, Functions

CONSTANTS
    Thread,
    Dll,          \* DLL names
    Program,      \* the executable
    Imports,      \* import descriptors: DLL or program -> sequence of DLLs
    Handled,      \* names whose functions have Python handlers
    HasEntry,     \* DLLs that have a DllMain
    HasNoFile,    \* DLLs in no directory at all
    Elsewhere,    \* DLLs in a directory that is not searched until a path names it
    Preferred,    \* preferred image base, in half images
    Reserved,     \* ranges the process owns: pairs <<first, last>>
    FirstBase, MaxAddress,
    MaxDepth      \* bound: frames of a thread

_DLL_SIZE == 2

ASSUME LoaderAssumption ==
    /\ Program \notin Dll /\ Imports \in [Dll \cup {Program} -> Seq(Dll)] /\ Preferred \in [Dll -> Nat]
    /\ HasEntry \cup Elsewhere \cup HasNoFile \cup Handled \subseteq Dll

VARIABLES
    base,         \* _loaded_dlls: loaded DLL -> image base
    slot,         \* <<DLL, import>> -> what the IAT slots of that descriptor hold
    unpatched,    \* _dll_iat_entries from _iat_patch_cursor on
    notFound,     \* _not_found
    searched,     \* DLLs whose directory add_search_path has added
    dllMain,      \* DLL -> "no", "running", "true" or "false"
    attaches,     \* DLL -> how often its DllMain was started
    pending,      \* _pending_dllmain_dlls
    handleStore,  \* the DLL whose handle is in DLLMAIN_HANDLE_STORE
    stack,        \* thread -> frames, the newest last
    returned      \* thread -> [asked, got] of its last finished LoadLibrary

loaderVars == <<base, slot, unpatched, notFound, searched, dllMain, attaches, pending,
                handleStore, stack, returned>>

Null == "null"
Frame(at, d, k, notify) == [at |-> at, dll |-> d, k |-> k, notify |-> notify]

LoaderInit ==
    /\ base = <<>> /\ unpatched = {}
    /\ notFound = {} /\ searched = {}
    /\ dllMain = [d \in Dll |-> "no"] /\ attaches = [d \in Dll |-> 0]
    /\ handleStore = Null /\ pending = <<>>
    /\ \/ stack = [t \in Thread |-> <<>>] /\ slot = <<>>
       \/ \E main \in Thread :
             /\ stack = [t \in Thread |-> IF t = main THEN <<Frame("startup", Program, 1, "later")>> ELSE <<>>]
             /\ slot = [p \in {Program} \X Range(Imports[Program]) |-> "raw"]
    /\ returned = [t \in Thread |-> [asked |-> Null, got |-> Null]]

Loaded == DOMAIN base
Top(t) == Last(stack[t])
LoadingFrames == {"startup", "library", "dependency", "server_dll"}
GuestFrames == {"main", "dependency_main", "server_main", "server"}
AtGuest(t) == stack[t] # <<>> => Top(t).at \in GuestFrames
InHandler(t) == \E i \in DOMAIN stack[t] : stack[t][i].at # "main"
Turn(t) == \A u \in Thread \ {t} : ~InHandler(u)
Stacked(t, s) == stack' = [stack EXCEPT ![t] = s]

---------------------------------------------------------------------------

Available(b) ==
    /\ \A d \in Loaded : b + _DLL_SIZE - 1 < base[d] \/ b > base[d] + _DLL_SIZE - 1
    /\ \A r \in Reserved : b + _DLL_SIZE - 1 < r[1] \/ b > r[2]

Rebased == {b \in FirstBase..(MaxAddress - 1) : (b - FirstBase) % _DLL_SIZE = 0 /\ Available(b)}
KeepsBase(d) == Preferred[d] \in 1..(MaxAddress - 1) /\ Available(Preferred[d])
Base(d) == IF KeepsBase(d) THEN Preferred[d] ELSE Min(Rebased)
HasBase(d) == KeepsBase(d) \/ Rebased # {}

(* find_dll_file over the search paths *)
OnDisk(d, paths) == d \notin HasNoFile /\ (d \in Elsewhere => d \in paths)
Findable(d) == d \notin notFound /\ OnDisk(d, searched)

(* patch_iat_entry: a handler, else the real export, else a stub that halts. *)
Binding(m) == IF m \in Handled THEN "handler" ELSE IF m \in Loaded THEN "real" ELSE "stub"

(* patch_dll_iats: the slots that were added since it was last called. *)
Patched == [p \in DOMAIN slot |-> IF p \in unpatched THEN Binding(p[2]) ELSE slot[p]]
PatchIats == slot' = Patched /\ unpatched' = {}

(* Sections are loaded and the DLL entered in the tables, its slots still    *)
(* holding what the file has in them.                                        *)
Map(d) ==
    /\ base' = [m \in Loaded \cup {d} |-> IF m = d THEN Base(d) ELSE base[m]]
    /\ slot' = [p \in DOMAIN slot \cup ({d} \X Range(Imports[d])) |->
                  IF p \in DOMAIN slot THEN slot[p] ELSE "raw"]

(* The slots of d for its import m: an exported address is written at once   *)
(* (in a DLL, not in the program), and the entry waits for patch_dll_iats.   *)
Linked(d, m) == [slot EXCEPT ![<<d, m>>] = IF m \in Loaded /\ d # Program THEN "real" ELSE @]

---------------------------------------------------------------------------
(* LoadLibrary. byPath: the directory of the file is searched from then on.  *)
CallReturns(t, d, got) == returned' = [returned EXCEPT ![t] = [asked |-> d, got |-> got]]
StubHandle(d) == IF d \in Handled THEN d ELSE Null

AddSearchPath(d, byPath) ==
    LET adds == byPath /\ d \in Elsewhere \ searched
    IN /\ searched' = IF adds THEN searched \cup {d} ELSE searched
       /\ notFound' = IF adds THEN {} ELSE notFound

IsLoaded(d) == d \in Loaded

LoadKnown(t, d, byPath) ==
    /\ AtGuest(t) /\ Turn(t) /\ IsLoaded(d)
    /\ AddSearchPath(d, byPath) /\ PatchIats /\ CallReturns(t, d, d)
    /\ UNCHANGED <<base, dllMain, attaches, pending, handleStore, stack>>

CanLoad(d, byPath) == d \notin HasNoFile /\ (byPath \/ Findable(d)) /\ HasBase(d)

LoadMissing(t, d, byPath) ==
    /\ AtGuest(t) /\ Turn(t) /\ ~IsLoaded(d) /\ ~CanLoad(d, byPath)
    /\ IF byPath THEN AddSearchPath(d, d \notin HasNoFile)
                 ELSE /\ notFound' = IF OnDisk(d, searched) THEN notFound ELSE notFound \cup {d}
                      /\ UNCHANGED searched
    /\ CallReturns(t, d, StubHandle(d))
    /\ UNCHANGED <<base, slot, unpatched, dllMain, attaches, pending, handleStore, stack>>

LoadNew(t, d, byPath) ==
    /\ AtGuest(t) /\ Turn(t) /\ ~IsLoaded(d) /\ CanLoad(d, byPath)
    /\ Len(stack[t]) < MaxDepth
    /\ AddSearchPath(d, byPath) /\ Map(d)
    /\ Stacked(t, Append(stack[t], Frame("library", d, 1, "now")))
    /\ UNCHANGED <<unpatched, dllMain, attaches, pending, handleStore, returned>>

LoadLibrary(t, d, byPath) == LoadKnown(t, d, byPath) \/ LoadMissing(t, d, byPath) \/ LoadNew(t, d, byPath)

---------------------------------------------------------------------------
(* load_dll over the import descriptors. *)
Loading(t) == stack[t] # <<>> /\ Turn(t) /\ Top(t).at \in LoadingFrames
HasImport(f) == f.k <= Len(Imports[f.dll])
Import(f) == Imports[f.dll][f.k]
Advanced(s) == [s EXCEPT ![Len(s)].k = @ + 1]

(* The import is loaded or cannot be: its slots are filled in. *)
LinkImport(t) ==
    /\ Loading(t) /\ HasImport(Top(t))
    /\ LET f == Top(t)   m == Import(f)
       IN /\ ~(m \notin Loaded /\ CanLoad(m, FALSE))
          /\ slot' = Linked(f.dll, m) /\ unpatched' = unpatched \cup {<<f.dll, m>>}
          /\ notFound' = IF m \in Loaded \/ OnDisk(m, searched) THEN notFound ELSE notFound \cup {m}
          /\ Stacked(t, Advanced(stack[t]))
    /\ UNCHANGED <<base, searched, dllMain, attaches, pending, handleStore, returned>>

(* It is on disk: it is loaded first. *)
LoadImport(t) ==
    /\ Loading(t) /\ HasImport(Top(t))
    /\ LET f == Top(t)   m == Import(f)
       IN /\ m \notin Loaded /\ CanLoad(m, FALSE)
          /\ Map(m)
          /\ Stacked(t, Append(stack[t], Frame("dependency", m, 1, f.notify)))
    /\ UNCHANGED <<unpatched, notFound, searched, dllMain, attaches, pending, handleStore, returned>>

Attach(d) ==
    /\ dllMain' = [dllMain EXCEPT ![d] = "running"]
    /\ attaches' = [attaches EXCEPT ![d] = @ + 1]

(* should_invoke_dependency_dllmain *)
InvokesDllMain(f) == f.notify # "no" /\ f.dll \in HasEntry

(* Mutant: the slots are patched when the whole load is over. *)
InvokeDependency_Unpatched(t) ==
    /\ Attach(Top(t).dll) /\ UNCHANGED <<slot, unpatched>>
    /\ Stacked(t, Append(Front(stack[t]), Frame("dependency_main", Top(t).dll, 0, "no")))

(* _invoke_dependency_dllmain *)
InvokeDependency(t) ==
    /\ Attach(Top(t).dll) /\ PatchIats
    /\ Stacked(t, Append(Front(stack[t]), Frame("dependency_main", Top(t).dll, 0, "no")))

FinishDependency(t) ==
    /\ Loading(t) /\ Top(t).at = "dependency" /\ ~HasImport(Top(t))
    /\ IF InvokesDllMain(Top(t)) /\ Top(t).notify = "now"
       THEN InvokeDependency(t) /\ UNCHANGED pending
       ELSE /\ Stacked(t, Front(stack[t])) /\ UNCHANGED <<slot, unpatched, dllMain, attaches>>
            /\ pending' = IF InvokesDllMain(Top(t)) THEN Append(pending, Top(t).dll) ELSE pending
    /\ UNCHANGED <<base, notFound, searched, handleStore, returned>>

(* What the dependency's DllMain returned is not looked at. *)
DependencyReturns(t, ok) ==
    /\ stack[t] # <<>> /\ Turn(t) /\ Top(t).at = "dependency_main"
    /\ dllMain' = [dllMain EXCEPT ![Top(t).dll] = ok]
    /\ Stacked(t, Front(stack[t]))
    /\ UNCHANGED <<base, slot, unpatched, notFound, searched, attaches, pending, handleStore, returned>>

(* The program's imports are all loaded: write_iat_handlers. *)
FinishStartup(t) ==
    /\ Loading(t) /\ Top(t).at = "startup" /\ ~HasImport(Top(t))
    /\ PatchIats /\ Stacked(t, <<Frame("pending", Program, 0, "no")>>)
    /\ UNCHANGED <<base, notFound, searched, dllMain, attaches, pending, handleStore, returned>>

(* The DllMains that waited run in the order of the list. *)
RunPending(t) ==
    /\ stack[t] # <<>> /\ Top(t).at = "pending"
    /\ IF pending = <<>>
       THEN Stacked(t, <<>>) /\ UNCHANGED <<slot, unpatched, dllMain, attaches, pending>>
       ELSE /\ Attach(Head(pending)) /\ PatchIats /\ pending' = Tail(pending)
            /\ Stacked(t, Append(stack[t], Frame("dependency_main", Head(pending), 0, "no")))
    /\ UNCHANGED <<base, notFound, searched, handleStore, returned>>

(* _load_dll_with_dllmain: the handler returns into DllMain, whose return    *)
(* address is the trampoline; the handle waits in a global.                  *)
FinishLibrary(t) ==
    /\ Loading(t) /\ Top(t).at = "library" /\ ~HasImport(Top(t))
    /\ PatchIats
    /\ LET d == Top(t).dll
       IN IF d \in HasEntry
          THEN /\ Attach(d) /\ handleStore' = d
               /\ Stacked(t, Append(Front(stack[t]), Frame("main", d, 0, "no")))
               /\ UNCHANGED returned
          ELSE /\ Stacked(t, Front(stack[t])) /\ CallReturns(t, d, d)
               /\ UNCHANGED <<dllMain, attaches, handleStore>>
    /\ UNCHANGED <<base, notFound, searched, pending>>

(* _dll_main_finish *)
MainReturns(t, ok) ==
    /\ stack[t] # <<>> /\ Turn(t) /\ Top(t).at = "main"
    /\ dllMain' = [dllMain EXCEPT ![Top(t).dll] = ok]
    /\ CallReturns(t, Top(t).dll, handleStore)
    /\ Stacked(t, Front(stack[t]))
    /\ UNCHANGED <<base, slot, unpatched, notFound, searched, attaches, pending, handleStore>>

LoaderNext ==
    \E t \in Thread :
        \/ \E d \in Dll, byPath \in BOOLEAN : LoadLibrary(t, d, byPath)
        \/ LinkImport(t) \/ LoadImport(t) \/ FinishDependency(t) \/ FinishLibrary(t)
        \/ FinishStartup(t) \/ RunPending(t)
        \/ \E ok \in {"true", "false"} : DependencyReturns(t, ok) \/ MainReturns(t, ok)

---------------------------------------------------------------------------

(* Whenever guest code of a DLL or of the program runs, the slots of its     *)
(* imports hold a handler, an export or the stub that halts, never what was  *)
(* in the file. The exception is a DLL that is still being loaded: the       *)
(* DllMain of a DLL it needs may have it called, as a COM server.            *)
Running(t) == IF stack[t] = <<>> THEN Program ELSE Top(t).dll
HalfLoaded(d) ==
    \E t \in Thread : \E i \in DOMAIN stack[t] : stack[t][i].at \in LoadingFrames /\ stack[t][i].dll = d

ImportsAreBound ==
    \A t \in Thread : AtGuest(t) /\ Turn(t) /\ ~HalfLoaded(Running(t)) =>
        \A p \in DOMAIN slot : p[1] = Running(t) => slot[p] # "raw"

(* d and everything it imports, directly or not: the least set closed under  *)
(* imports.                                                                  *)
Closed(set) == \A d \in set : Range(Imports[d]) \subseteq set
Reaches == [d \in Dll |-> {m \in Dll : \A set \in SUBSET Dll : d \in set /\ Closed(set) => m \in set}]

(* The DllMain of d starts after that of its import m; or m is still being   *)
(* loaded, further down the stack; or, when the program starts, m imports d  *)
(* in turn.                                                                  *)
Attaches(d) == attaches'[d] > attaches[d]
FollowsItsImport(d, m) ==
    \/ slot'[<<d, m>>] # "real" \/ dllMain'[m] # "no" \/ HalfLoaded(m)
    \/ m \in Range(pending') /\ (d \in Range(pending) => d \in Reaches[m])
=============================================================================
