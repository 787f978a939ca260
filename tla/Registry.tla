------------------------------- MODULE Registry -------------------------------
(* The registry: a dictionary in memory that every change writes out to      *)
(* registry.json and the next run loads. The file is loaded from the         *)
(* directory the program was started in and written to the working           *)
(* directory, which --install-dir changes. A termination signal ends the     *)
(* process wherever it is, in the middle of a write too.                     *)
EXTENDS Integers, FiniteSets, Functions, TLC

CONSTANTS
    RegThread,
    RegKey,        \* full key paths
    RegName,       \* value names
    RegData,       \* value data; TemplatePath and RootPath among them
    MaxKeyHandles, MaxRuns   \* bounds

VARIABLES
    values,     \* registry_values: key -> value name -> data
    regFile,    \* place -> content of its registry.json
    keyNames,   \* _reg_key_names of the handles handed out
    nextKey,    \* _next_reg_key
    watching,   \* threads in a synchronous RegNotifyChangeKeyValue -> its key
    saved,      \* the last write of the run, if any, succeeded
    regRuns,    \* runs of the program so far
    setup       \* [atHome: no --install-dir, so the working directory stays,
                \*  moves: the configuration maps c:/, so paths are rewritten]

regVars == <<values, regFile, keyNames, nextKey, watching, saved, regRuns, setup>>

TemplatePath == "C:\\MCity\\"
RootPath == "C:\\"

Empty == <<>>
(* A missing, truncated or half-written file reads as no keys, no metadata.  *)
NoContent == [keys |-> Empty, meta |-> FALSE]
Saves == IF setup.atHome THEN "project" ELSE "cwd"

(* Paths below the template's installation directory move to the root.       *)
Substituted(file, d) == IF setup.moves /\ file.meta /\ d = TemplatePath THEN RootPath ELSE d

LoadRegistry(file) ==
    [k \in DOMAIN file.keys |-> [n \in DOMAIN file.keys[k] |-> Substituted(file, file.keys[k][n])]]

(* What the template holds: nothing or one path. *)
FirstKeys == {Empty} \cup {k :> (n :> TemplatePath) : k \in RegKey, n \in RegName}

RegInit ==
    /\ setup \in [atHome : BOOLEAN, moves : BOOLEAN] /\ (~setup.atHome => setup.moves)
    /\ \E keys \in FirstKeys :
          regFile = [p \in {"project", "cwd"} |->
                       IF p = "project" THEN [keys |-> keys, meta |-> TRUE] ELSE NoContent]
    /\ values = LoadRegistry(regFile["project"])
    /\ keyNames = Empty /\ nextKey = 1 /\ watching = Empty
    /\ saved = TRUE /\ regRuns = 1

Awake(t) == t \notin DOMAIN watching

---------------------------------------------------------------------------
(* save_registry_json writes v: the `_` keys that were in the file stay.     *)
SaveRegistry(v) ==
    \/ regFile' = [regFile EXCEPT ![Saves] = [keys |-> v, meta |-> @.meta]] /\ saved' = TRUE
    \/ regFile' = [regFile EXCEPT ![Saves] = NoContent] /\ saved' = FALSE

(* RegOpenKey, RegCreateKey: any name is granted, and nothing is created.    *)
OpenKey(t, k) ==
    /\ Awake(t) /\ nextKey <= MaxKeyHandles
    /\ keyNames' = (nextKey :> k) @@ keyNames /\ nextKey' = nextKey + 1
    /\ UNCHANGED <<values, regFile, watching, saved, regRuns, setup>>

(* RegQueryValueA of a subkey looks it up under a handle it does not take.   *)
QuerySubkey(t, k) ==
    /\ Awake(t) /\ nextKey <= MaxKeyHandles
    /\ keyNames' = (nextKey :> k) @@ keyNames
    /\ UNCHANGED <<values, regFile, nextKey, watching, saved, regRuns, setup>>

ValuesOf(k) == IF k \in DOMAIN values THEN values[k] ELSE Empty

SetValue(t, h, n, d) ==
    /\ Awake(t) /\ h \in 1..(nextKey - 1)
    /\ LET k == keyNames[h]   v == (k :> ((n :> d) @@ ValuesOf(k))) @@ values
       IN values' = v /\ SaveRegistry(v)
    /\ UNCHANGED <<keyNames, nextKey, watching, regRuns, setup>>

(* Mutant: the deletion is not written. *)
DeleteValue_Unsaved(t, h, n) ==
    /\ Awake(t) /\ h \in 1..(nextKey - 1)
    /\ n \in DOMAIN ValuesOf(keyNames[h])
    /\ LET k == keyNames[h]
       IN values' = [values EXCEPT ![k] = Restrict(@, DOMAIN @ \ {n})]
    /\ UNCHANGED <<regFile, saved, keyNames, nextKey, watching, regRuns, setup>>

DeleteValue(t, h, n) ==
    /\ Awake(t) /\ h \in 1..(nextKey - 1)
    /\ n \in DOMAIN ValuesOf(keyNames[h])
    /\ LET k == keyNames[h]   v == [values EXCEPT ![k] = Restrict(@, DOMAIN @ \ {n})]
       IN values' = v /\ SaveRegistry(v)
    /\ UNCHANGED <<keyNames, nextKey, watching, regRuns, setup>>

(* The thread waits on an event that nothing sets. *)
NotifyChange(t, h) ==
    /\ Awake(t) /\ h \in 1..(nextKey - 1)
    /\ watching' = (t :> keyNames[h]) @@ watching
    /\ UNCHANGED <<values, regFile, keyNames, nextKey, saved, regRuns, setup>>

(* The process ends, and the next run loads the file. *)
Restart ==
    /\ regRuns < MaxRuns /\ regRuns' = regRuns + 1
    /\ values' = LoadRegistry(regFile["project"])
    /\ keyNames' = Empty /\ nextKey' = 1 /\ watching' = Empty /\ saved' = TRUE
    /\ UNCHANGED <<regFile, setup>>

RegNext ==
    \/ \E t \in RegThread :
          \/ \E k \in RegKey : OpenKey(t, k) \/ QuerySubkey(t, k)
          \/ \E h \in DOMAIN keyNames :
                \/ \E n \in RegName : DeleteValue(t, h, n)
                \/ \E n \in RegName, d \in RegData : SetValue(t, h, n, d)
                \/ NotifyChange(t, h)
    \/ Restart

RegSpec == RegInit /\ [][RegNext]_regVars

---------------------------------------------------------------------------
(* The values of memory with the paths moved, as a load would move them. *)
MovedValues ==
    [k \in DOMAIN values |-> [n \in DOMAIN values[k] |-> Substituted(regFile["project"], values[k][n])]]

(* While no write has failed, a restart would find the values of memory:     *)
(* every change reaches the file that is loaded. For a program started       *)
(* without --install-dir.                                                    *)
MemoryIsOnDisk == setup.atHome /\ saved => LoadRegistry(regFile["project"]) = MovedValues

=============================================================================
