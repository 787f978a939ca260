-------------------------------- MODULE OleCom --------------------------------
(* COM activation: a class is looked up in the registry, its server DLL is   *)
(* loaded and attached, and its class factory makes the instance. Every step *)
(* of the server is guest code run inside the handler, and may load or       *)
(* activate in turn; it succeeds or fails as it likes.                       *)
EXTENDS Loader

CONSTANTS
    Servers,         \* DLLs that are registered and known as servers
    MaxActivations,  \* bound: activations begun
    MaxQueries       \* interfaces asked of CoCreateInstanceEx

ASSUME ComAssumption == Servers \subseteq Dll /\ MaxActivations \in Nat

VARIABLES
    activation,  \* what the handlers of the activations begun hold, in their order
    references,  \* object -> references counted by the server
    held         \* object -> pointers returned to guests that name it

comVars == <<activation, references, held>>

Object == {"factory", "instance"}
Call == {"CoGetClassObject", "CoCreateInstance", "CoCreateInstanceEx"}

ComInit ==
    /\ activation = <<>>
    /\ references = [o \in Object |-> 0] /\ held = [o \in Object |-> 0]

(* out: what *ppv names; outs: the MULTI_QI entries filled in. The frame of  *)
(* an activation has its number; what it calls runs in the frame above it.   *)
NewActivation(call) ==
    [call |-> call, stage |-> "factory", ok |-> TRUE, out |-> Null, outs |-> 0, k |-> 0]

Over == [NewActivation(Null) EXCEPT !.stage = "done"]

Caller(t) == stack[t][Len(stack[t]) - 1].k
Activation(t) == activation[Caller(t)]
Activating(t) == stack[t] # <<>> /\ Turn(t) /\ Top(t).at = "activation"
SetActivation(t, a) == activation' = [activation EXCEPT ![Caller(t)] = a]
Same == UNCHANGED <<base, slot, unpatched, notFound, searched, dllMain, attaches, pending, handleStore, returned>>

(* Mutant: *ppv is left as the failed call wrote it. *)
Outs_Kept(a) ==
    [o \in Object |-> (IF a.out = o THEN 1 ELSE 0) + (IF o = "instance" THEN a.outs ELSE 0)]

(* What the caller holds: nothing if the call failed. *)
Outs(a) ==
    [o \in Object |-> IF ~a.ok THEN 0
                      ELSE (IF a.out = o THEN 1 ELSE 0) + (IF o = "instance" THEN a.outs ELSE 0)]

(* The activation that made the call is over, and was left as a. *)
Finish(t, a) ==
    /\ held' = [o \in Object |-> held[o] + Outs(a)[o]]
    /\ SetActivation(t, Over)
    /\ Stacked(t, Front(Front(stack[t])))

---------------------------------------------------------------------------
(* _ensure_dll_ready: DllMain runs only in the activation that loads the DLL.*)
Activate(t, d, call) ==
    /\ AtGuest(t) /\ Turn(t) /\ Len(stack[t]) + 1 < MaxDepth
    /\ d \in Servers /\ Len(activation) < MaxActivations /\ (d \in Loaded \/ CanLoad(d, FALSE))
    /\ activation' = Append(activation, NewActivation(call))
    /\ LET s == Append(stack[t], Frame("activation", d, Len(activation) + 1, "no"))
       IN IF d \in Loaded
          THEN Stacked(t, s) /\ UNCHANGED <<base, slot>>
          ELSE Map(d) /\ Stacked(t, Append(s, Frame("server_dll", d, 1, "no")))
    /\ UNCHANGED <<unpatched, notFound, searched, dllMain, attaches, pending, handleStore, returned>>
    /\ UNCHANGED <<references, held>>

FinishServerDll(t) ==
    /\ Loading(t) /\ Top(t).at = "server_dll" /\ ~HasImport(Top(t))
    /\ PatchIats
    /\ IF Top(t).dll \in HasEntry
       THEN /\ Attach(Top(t).dll)
            /\ Stacked(t, Append(Front(stack[t]), Frame("server_main", Top(t).dll, 0, "no")))
       ELSE Stacked(t, Front(stack[t])) /\ UNCHANGED <<dllMain, attaches>>
    /\ UNCHANGED <<base, notFound, searched, pending, handleStore, returned>> /\ UNCHANGED comVars

(* A DllMain that returns FALSE ends the activation; the DLL stays loaded. *)
ServerMainReturns(t, ok) ==
    /\ stack[t] # <<>> /\ Turn(t) /\ Top(t).at = "server_main"
    /\ dllMain' = [dllMain EXCEPT ![Top(t).dll] = ok]
    /\ IF ok = "true"
       THEN Stacked(t, Front(stack[t])) /\ UNCHANGED <<activation, held>>
       ELSE Finish(t, [Activation(t) EXCEPT !.ok = FALSE])
    /\ UNCHANGED references
    /\ UNCHANGED <<base, slot, unpatched, notFound, searched, attaches, pending, handleStore, returned>>

(* A method of the server begins: DllGetClassObject, CreateInstance,         *)
(* QueryInterface or Release, as the stage says.                             *)
CallServer(t) ==
    /\ Activating(t)
    /\ Stacked(t, Append(stack[t], Frame("server", Top(t).dll, 0, "no")))
    /\ Same /\ UNCHANGED comVars

Referenced(o, n) == references' = [references EXCEPT ![o] = @ + n]

AfterQueries(a) == [a EXCEPT !.stage = "release_instance"]
AfterQuery(a, ok) ==
    LET b == [a EXCEPT !.k = @ + 1, !.outs = IF ok THEN @ + 1 ELSE @]
    IN IF b.k < MaxQueries THEN b ELSE AfterQueries(b)

(* It returns: what the stage makes of it.                                   *)
AfterCall(a, ok) ==
    CASE a.stage = "factory" /\ ~ok -> [a EXCEPT !.ok = FALSE, !.stage = "done"]
      [] a.stage = "factory" /\ ok ->
            [a EXCEPT !.out = IF a.call = "CoCreateInstanceEx" THEN Null ELSE "factory",
                      !.stage = IF a.call = "CoGetClassObject" THEN "done" ELSE "create"]
      [] a.stage = "create" ->
            [a EXCEPT !.ok = ok, !.stage = "release_factory",
                      !.out = IF ok /\ a.call = "CoCreateInstance" THEN "instance" ELSE @]
      [] a.stage = "release_factory" ->
            [a EXCEPT !.stage = IF a.ok /\ a.call = "CoCreateInstanceEx" THEN "query" ELSE "done"]
      [] a.stage = "query" -> AfterQuery(a, ok)
      [] a.stage = "release_instance" -> [a EXCEPT !.stage = "done"]

Counts(stage, ok) ==
    CASE stage = "factory" /\ ok -> Referenced("factory", 1)
      [] stage \in {"create", "query"} /\ ok -> Referenced("instance", 1)
      [] stage = "release_factory" -> Referenced("factory", -1)
      [] stage = "release_instance" -> Referenced("instance", -1)
      [] OTHER -> UNCHANGED references

ServerReturns(t, ok) ==
    /\ stack[t] # <<>> /\ Turn(t) /\ Top(t).at = "server"
    /\ LET a == Activation(t)   b == AfterCall(a, ok)
       IN /\ Counts(a.stage, ok)
          /\ IF b.stage = "done"
             THEN Finish(t, b)
             ELSE SetActivation(t, b) /\ Stacked(t, Front(stack[t])) /\ UNCHANGED held
    /\ Same

ComNext ==
    \/ LoaderNext /\ UNCHANGED comVars
    \/ \E t \in Thread :
          \/ \E d \in Servers, call \in Call : Activate(t, d, call)
          \/ FinishServerDll(t) \/ CallServer(t)
          \/ \E ok \in BOOLEAN : ServerReturns(t, ok)
          \/ \E ok \in {"true", "false"} : ServerMainReturns(t, ok)

ComSpec == LoaderInit /\ ComInit /\ [][ComNext]_<<loaderVars, comVars>>

---------------------------------------------------------------------------
(* When no activation is in progress, the references the servers count are   *)
(* those of the pointers returned to guests: none is lost on a path of       *)
(* failure, and no pointer is left in *ppv that owns no reference.           *)
ReferencesBalance ==
    (\A n \in DOMAIN activation : activation[n].stage = "done") => references = held

(* Code of a DLL runs when its imports are bound, at first and after every   *)
(* step. Its DllMain gets DLL_PROCESS_ATTACH once, however often and from    *)
(* however many threads the DLL is asked for; and after the DllMains of its  *)
(* imports, while no COM server was loaded (its dependencies get no DllMain).*)
LibrariesAreReady ==
    /\ ImportsAreBound
    /\ [][ /\ ImportsAreBound'
           /\ \A d \in Dll : Attaches(d) =>
                /\ attaches[d] = 0
                /\ activation = <<>> =>
                      \A m \in Range(Imports[d]) \cap HasEntry : FollowsItsImport(d, m)
         ]_<<loaderVars, comVars>>
=============================================================================
