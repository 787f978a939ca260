------------------------------- MODULE StubTable -------------------------------
(* Win32Handlers: the table of functions with Python handlers, the stubs in  *)
(* guest memory that trap into them, and the lookups of GetModuleHandle and  *)
(* GetProcAddress. The handlers are registered first; then the exports of    *)
(* the DLLs the program imports and some addresses of its own code are       *)
(* patched with traps, two of them trampolines in the region of the stubs;   *)
(* while the program runs, imports nobody has are given stubs that halt.     *)
(* Memory is cut into cells, two to a stub: one for a trap or a jump, one of *)
(* padding.                                                                  *)
EXTENDS Integers, Sequences, FiniteSets, FiniteSetsExt, SequencesExt

CONSTANTS
    MAX_HANDLERS,
    StubDll, StubFunc,
    GuestCodes,       \* exports that are guest code: [dll, size, exports, hooks], offsets in cells
    RealExports,      \* exports of DLLs with a file: [dll, func, addr], addr beyond the stubs
    Trampolines       \* addresses patch_crt_internals patches

HANDLER_SIZE == 2
RegionEnd == MAX_HANDLERS * HANDLER_SIZE
(* Mutant: the last slot is left out if the code does not fill it. *)
SlotsOf_Floor(g) == g.size \div HANDLER_SIZE

(* The slots guest code takes, the last of them in part. *)
SlotsOf(g) == (g.size + HANDLER_SIZE - 1) \div HANDLER_SIZE

RealDll == {e.dll : e \in RealExports}

ASSUME StubAssumption ==
    /\ MAX_HANDLERS \in Nat /\ "patch" \notin StubDll
    /\ Trampolines \subseteq Nat /\ IsFiniteSet(Trampolines)

(* Exports and hooks lie in their code and take an id each: no code that is  *)
(* registered has fewer of them than slots.                                  *)
ASSUME GuestCodeAssumption ==
    \A g \in GuestCodes :
        /\ g.size \in Nat /\ g.exports \in [DOMAIN g.exports -> 0 .. g.size - 1]
        /\ g.hooks \subseteq 0 .. g.size - 1
        /\ IsFiniteSet(DOMAIN g.exports) /\ IsFiniteSet(g.hooks)
        /\ SlotsOf(g) <= Cardinality(DOMAIN g.exports) + Cardinality(g.hooks)

(* Images of DLLs are apart from each other and from the stubs.              *)
ASSUME RealAssumption ==
    /\ IsFiniteSet(RealExports)
    /\ \A e \in RealExports : e.addr \in Nat /\ e.addr >= RegionEnd
    /\ \A e1, e2 \in RealExports : e1.addr = e2.addr => e1.dll = e2.dll

VARIABLES
    table,          \* _handlers_by_id: [dll, func, addr, kind, halts]
    nextAddr,       \* _next_handler_addr
    traps,          \* where memory holds an INT 0xFE
    loadedReal,     \* DLLs with a file that are loaded
    phase           \* "registering", "patching", "running" or "over"

stubVars == <<table, nextAddr, traps, loadedReal, phase>>

Entry(d, f, a, kind, halts) == [dll |-> d, func |-> f, addr |-> a, kind |-> kind, halts |-> halts]

StubInit ==
    /\ table = <<>> /\ nextAddr = 0 /\ traps = {} /\ phase = "registering"
    /\ loadedReal \in SUBSET RealDll

Ends == phase' = "over" /\ UNCHANGED <<table, nextAddr, traps, loadedReal>>

(* _handlers and _handlers_by_addr: ids, or 0 *)
ByKey(d, f) == SelectInSeq(table, LAMBDA e : e.kind \in {"stub", "code"} /\ e.dll = d /\ e.func = f)
ByAddr(a) == SelectLastInSeq(table, LAMBDA e : e.kind # "code" /\ e.addr = a)

---------------------------------------------------------------------------
Registered(d, f) == ByKey(d, f) # 0

Full(n) == n > MAX_HANDLERS

(* register_handler *)
RegisterHandler(d, f, halts) ==
    IF Registered(d, f) THEN UNCHANGED stubVars
    ELSE IF Full(Len(table) + 1) THEN Ends
    ELSE /\ table' = Append(table, Entry(d, f, nextAddr, "stub", halts))
         /\ traps' = (traps \ {nextAddr + 1}) \cup {nextAddr}
         /\ nextAddr' = nextAddr + HANDLER_SIZE
         /\ UNCHANGED <<loadedReal, phase>>

(* register_guest_code: the code lies in consecutive slots. *)
RegisterGuestCode(g) ==
    LET size == SlotsOf(g) * HANDLER_SIZE
        exports == {Entry(g.dll, f, nextAddr + g.exports[f], "code", FALSE) : f \in DOMAIN g.exports}
        hooks == {Entry(g.dll, "hook", nextAddr + o, "hook", FALSE) : o \in g.hooks}
        longer == table \o SetToSeq(exports) \o SetToSeq(hooks)
    IN IF (\E f \in DOMAIN g.exports : Registered(g.dll, f)) \/ Full(Len(longer)) THEN Ends
       ELSE /\ table' = longer
            /\ traps' = (traps \ (nextAddr .. nextAddr + size - 1)) \cup {nextAddr + o : o \in g.hooks}
            /\ nextAddr' = nextAddr + size
            /\ UNCHANGED <<loadedReal, phase>>

EndRegistration == phase' = "patching" /\ UNCHANGED <<table, nextAddr, traps, loadedReal>>

---------------------------------------------------------------------------
(* patch_address *)
Patch(name, a, halts) == Entry("patch", name, a, "patch", halts)

(* find_handler_by_func_name: the first function of that name, of any DLL *)
ByName(f) == SelectInSeq(table, LAMBDA x : x.func = f)

(* patch_dll_exports: a function that is guest code is jumped to, others trap. *)
Patchable == {e \in RealExports : e.dll \in loadedReal /\ ByName(e.func) # 0}
Jumping == {e \in Patchable : table[ByName(e.func)].kind = "code"}
ExportPatches ==
    {Patch(<<e.dll, e.func>>, e.addr, table[ByName(e.func)].halts) : e \in Patchable \ Jumping}

(* patch_crt_internals *)
InternalPatches == {Patch("internal", a, FALSE) : a \in Trampolines}

(* The end of write_iat_handlers, and patch_crt_internals. Of two names of   *)
(* one address the one patched last counts.                                  *)
Start ==
    LET jumps == {e.addr : e \in Jumping}
        patches == {x.addr : x \in ExportPatches}
    IN /\ phase = "patching" /\ phase' = "running"
       /\ table' = table \o SetToSeq(ExportPatches) \o SetToSeq(InternalPatches)
       /\ \E last \in SUBSET (jumps \cap patches) :
             traps' = (traps \ jumps) \cup (patches \ last) \cup Trampolines
       /\ UNCHANGED <<nextAddr, loadedReal>>

---------------------------------------------------------------------------
Exported(d, f) == d \in loadedReal /\ \E e \in RealExports : e.dll = d /\ e.func = f

Unresolved(d, f) == ~Registered(d, f) /\ ~Exported(d, f)

(* patch_iat_entry for an import that has neither handler nor export: of the *)
(* program, or of a DLL that is loaded later.                                *)
AutoStub(d, f) == phase \in {"patching", "running"} /\ Unresolved(d, f) /\ RegisterHandler(d, f, TRUE)

(* LoadLibrary of a DLL with a file *)
LoadReal(d) ==
    /\ phase = "running" /\ loadedReal' = loadedReal \cup {d}
    /\ UNCHANGED <<table, nextAddr, traps, phase>>

(* _handle_api_int: an unknown trap raises, a stub that halts is final.      *)
Trap(a) ==
    /\ phase = "running" /\ a \in traps
    /\ IF ByAddr(a) = 0 THEN Ends ELSE table[ByAddr(a)].halts /\ Ends

StubNext ==
    \/ phase = "registering" /\ \E d \in StubDll, f \in StubFunc : RegisterHandler(d, f, FALSE)
    \/ phase = "registering" /\ \E g \in GuestCodes : RegisterGuestCode(g)
    \/ phase = "registering" /\ EndRegistration
    \/ Start
    \/ \E d \in StubDll, f \in StubFunc : AutoStub(d, f)
    \/ \E d \in RealDll \ loadedReal : LoadReal(d)
    \/ \E a \in traps : Trap(a)

StubSpec == StubInit /\ [][StubNext]_stubVars

---------------------------------------------------------------------------
(* The lookups. A module handle is the address of the first stub of the DLL, *)
(* or the base of one that is mapped from its file; -1 stands for NULL.      *)
NoEntry == [addr |-> -1, dll |-> "none"]
EntryOf(i) == IF i = 0 THEN NoEntry ELSE table[i]
BaseOf(d) == Min({e.addr : e \in {x \in RealExports : x.dll = d}})

(* get_stub_dll_handle, _resolve_module_handle *)
ModuleHandle(d) ==
    IF d \in loadedReal THEN BaseOf(d) ELSE EntryOf(SelectInSeq(table, LAMBDA e : e.dll = d)).addr

(* get_dll_name_for_stub_handle *)
StubModule(h) == EntryOf(SelectInSeq(table, LAMBDA e : e.addr = h)).dll

(* find_dll_for_address, else a stub's DLL *)
ModuleName(h) ==
    IF \E d \in loadedReal : BaseOf(d) = h THEN CHOOSE d \in loadedReal : BaseOf(d) = h ELSE StubModule(h)

(* GetProcAddress *)
ProcAddress(d, f) ==
    IF Registered(d, f) THEN table[ByKey(d, f)].addr
    ELSE IF Exported(d, f) THEN (CHOOSE e \in RealExports : e.dll = d /\ e.func = f).addr ELSE -1

---------------------------------------------------------------------------

(* A function that was given to an import keeps its stub: a call of it traps *)
(* to its own handler, as long as the stubs stay below the trampolines.      *)
CallsReachTheirHandler ==
    \A i \in DOMAIN table :
        table[i].kind \in {"stub", "hook"} /\ (\A a \in Trampolines : nextAddr <= a) =>
            table[i].addr \in traps /\ ByAddr(table[i].addr) = i

(* get_dll_name_for_stub_handle: "Reverse of get_stub_dll_handle". What      *)
(* GetModuleHandle returns for a DLL names that DLL in GetProcAddress.       *)
HandlesNameTheirModule ==
    \A d \in StubDll \cup loadedReal :
        LET h == ModuleHandle(d) IN h # -1 /\ (\A a \in Trampolines : nextAddr <= a) => ModuleName(h) = d

(* What GetProcAddress and import tables were given for a function stays     *)
(* what they would be given for it: no later import, load or patch changes   *)
(* it from a real export to a stub, or from one stub to another.             *)
AddressesStay ==
    [][\A d \in StubDll \cup RealDll, f \in StubFunc :
          phase # "registering" /\ ProcAddress(d, f) # -1 => ProcAddress(d, f)' = ProcAddress(d, f)]_stubVars

(* What the guest is given to call, and to ask for, belongs to the DLL it    *)
(* named, and stays so.                                                      *)
StubsBelongToTheirDll ==
    [](CallsReachTheirHandler /\ HandlesNameTheirModule) /\ AddressesStay
=============================================================================
