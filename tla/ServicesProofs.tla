---------------------------- MODULE ServicesProofs ----------------------------
(***************************************************************************)
(* What holds of the services a guest uses one at a time, each for all     *)
(* values of its constants: DirectSound, the registry and INI files, the   *)
(* requests of WinInet, what the main loop does between its batches, and   *)
(* what the user does.                                                     *)
(***************************************************************************)
EXTENDS Sound, UserInput, Registry, Profiles, WinInet, MainLoop, Exceptions, Automation,
        DataLemmas

-----------------------------------------------------------------------------
(***************************************************************************)
(* The play cursor stays in its buffer, for buffers of any sizes and number *)
(* and any period of the audio callback.  The callback works without the   *)
(* lock between TakeChunk and Advance; what holds meanwhile is that the     *)
(* chunk it took still fits behind the cursor of the buffer in turn, for    *)
(* Play and Stop do not move the cursor and only the callback changes whose *)
(* turn it is.                                                              *)
(***************************************************************************)

SoundRecord == [size : Nat, bits : {8, 16}, primary : BOOLEAN, playing : BOOLEAN,
                looping : BOOLEAN, cursor : Nat]

CursorsInside == \A i \in DOMAIN sounds : sounds[i].cursor <= sounds[i].size

\* The bytes taken lie between the cursor and the end of the buffer in turn.
ChunkFits ==
    chunk # 0 => /\ InTurn # {}
                 /\ \A i \in InTurn : chunk > 0 => sounds[i].cursor + chunk <= sounds[i].size

Mixing == mixing \subseteq DOMAIN sounds

SoundsAreSound ==
    /\ sounds \in Seq(SoundRecord) /\ chunk \in Int
    /\ Mixing /\ CursorsInside /\ ChunkFits

\* For guests that do not set the position.
SoundInv == "SetCurrentPosition" \notin soundProgram => SoundsAreSound

-----------------------------------------------------------------------------
\* The buffers keep their sizes and cursors: so does everything about them.
LEMMA CursorsUntouched ==
    ASSUME SoundsAreSound, sounds' \in Seq(SoundRecord), DOMAIN sounds \subseteq DOMAIN sounds',
           \A i \in DOMAIN sounds : /\ sounds'[i].size = sounds[i].size
                                    /\ sounds'[i].cursor = sounds[i].cursor,
           \A i \in DOMAIN sounds' \ DOMAIN sounds : sounds'[i].cursor <= sounds'[i].size,
           UNCHANGED <<mixing, chunk>>
    PROVE  SoundsAreSound'
BY DEF SoundsAreSound, Mixing, CursorsInside, ChunkFits, InTurn

\* A new buffer joins the others.
LEMMA AnotherSound ==
    ASSUME SoundsAreSound, NEW s \in SoundRecord, s.cursor <= s.size,
           sounds' = Append(sounds, s), UNCHANGED <<mixing, chunk>>
    PROVE  SoundsAreSound'
<1>1. /\ sounds' \in Seq(SoundRecord) /\ DOMAIN sounds = 1..Len(sounds)
      /\ DOMAIN sounds' = 1..(Len(sounds) + 1) /\ Len(sounds) \in Nat
      /\ \A i \in 1..Len(sounds) : sounds'[i] = sounds[i]
      /\ sounds'[Len(sounds) + 1] = s
  BY DEF SoundsAreSound
<1>2. DOMAIN sounds \subseteq DOMAIN sounds' /\ DOMAIN sounds' \ DOMAIN sounds = {Len(sounds) + 1}
  BY <1>1
<1>3. QED
  BY <1>1, <1>2, CursorsUntouched

\* One buffer becomes s.
LEMMA OneSound ==
    ASSUME sounds \in Seq(SoundRecord), NEW i \in DOMAIN sounds, NEW s \in SoundRecord,
           sounds' = [sounds EXCEPT ![i] = s]
    PROVE  /\ sounds' \in Seq(SoundRecord) /\ DOMAIN sounds' = DOMAIN sounds
           /\ sounds'[i] = s
           /\ \A j \in DOMAIN sounds : j # i => sounds'[j] = sounds[j]
OBVIOUS

\* It is one buffer's turn at most.
LEMMA OneTurn ==
    ASSUME SoundsAreSound, NEW i \in InTurn, NEW j \in InTurn
    PROVE  i = j /\ i \in DOMAIN sounds /\ i \in mixing
<1>1. DOMAIN sounds = 1..Len(sounds) /\ Len(sounds) \in Nat
  BY DEF SoundsAreSound
<1>2. QED
  BY <1>1 DEF SoundsAreSound, Mixing, InTurn

-----------------------------------------------------------------------------
(* The steps of the guest.                                                 *)

\* A buffer just created is a sound one, its cursor at 0.
LEMMA NewSoundTyped ==
    ASSUME NEW size \in Nat, NEW bits \in {8, 16}, NEW primary \in BOOLEAN
    PROVE  NewSound(size, bits, primary) \in SoundRecord /\ NewSound(size, bits, primary).cursor = 0
           /\ NewSound(size, bits, primary).size = size
BY DEF NewSound, SoundRecord

\* CreateSoundBuffer keeps every buffer sound.
LEMMA CreateStep == SoundsAreSound /\ CreateSoundBuffer => SoundsAreSound'
<1> SUFFICES ASSUME SoundsAreSound, CreateSoundBuffer PROVE SoundsAreSound'
  OBVIOUS
<1>1. PICK size \in SoundSizes, bits \in {8, 16}, primary \in BOOLEAN :
         sounds' = Append(sounds, NewSound(IF primary THEN 0 ELSE size, bits, primary))
  BY DEF CreateSoundBuffer
<1> DEFINE n == IF primary THEN 0 ELSE size
<1>2. n \in Nat
  BY SoundAssumption
<1> HIDE DEF n
<1>3. sounds' = Append(sounds, NewSound(n, bits, primary))
  BY <1>1 DEF n
<1>4. UNCHANGED <<mixing, chunk>>
  BY DEF CreateSoundBuffer, Guest
<1>5. QED
  BY <1>2, <1>3, <1>4, NewSoundTyped, AnotherSound

\* DuplicateSoundBuffer does.
LEMMA DuplicateStep ==
    ASSUME SoundsAreSound, NEW i \in DOMAIN sounds, DuplicateSoundBuffer(i)
    PROVE  SoundsAreSound'
<1>1. sounds[i] \in SoundRecord
  BY DEF SoundsAreSound
<1>2. sounds[i].size \in Nat /\ sounds[i].bits \in {8, 16}
  BY <1>1 DEF SoundRecord
<1>3. sounds' = Append(sounds, NewSound(sounds[i].size, sounds[i].bits, FALSE))
      /\ UNCHANGED <<mixing, chunk>>
  BY DEF DuplicateSoundBuffer, Guest
<1> DEFINE s == NewSound(sounds[i].size, sounds[i].bits, FALSE)
<1>4. s \in SoundRecord /\ s.cursor = 0 /\ s.size = sounds[i].size
  BY <1>2, NewSoundTyped
<1>5. sounds' = Append(sounds, s)
  BY <1>3
<1> HIDE DEF s
<1>6. s.cursor <= s.size
  BY <1>2, <1>4
<1>7. QED
  BY <1>3, <1>4, <1>5, <1>6, AnotherSound

\* Play, Stop and SetFormat leave sizes and cursors alone.
LEMMA SettingStep ==
    ASSUME SoundsAreSound, NEW i \in DOMAIN sounds, NEW s \in SoundRecord,
           s.size = sounds[i].size, s.cursor = sounds[i].cursor,
           sounds' = [sounds EXCEPT ![i] = s], UNCHANGED <<mixing, chunk>>
    PROVE  SoundsAreSound'
<1>1. /\ sounds' \in Seq(SoundRecord) /\ DOMAIN sounds' = DOMAIN sounds
      /\ sounds'[i] = s /\ \A j \in DOMAIN sounds : j # i => sounds'[j] = sounds[j]
  BY OneSound DEF SoundsAreSound
<1>2. QED
  BY <1>1, CursorsUntouched

\* So do Play, Stop and SetFormat.
LEMMA GuestStep ==
    ASSUME SoundsAreSound, NEW i \in DOMAIN sounds,
           \/ Stop(i)
           \/ \E loop \in BOOLEAN : Play(i, loop)
           \/ \E bits \in {8, 16} : SetFormat(i, bits)
    PROVE  SoundsAreSound'
<1>1. sounds[i] \in SoundRecord
  BY DEF SoundsAreSound
<1>2. CASE Stop(i)
  <2> DEFINE s == [sounds[i] EXCEPT !.playing = FALSE]
  <2>1. s \in SoundRecord /\ s.size = sounds[i].size /\ s.cursor = sounds[i].cursor
    BY <1>1 DEF SoundRecord
  <2>2. sounds' = [sounds EXCEPT ![i] = s] /\ UNCHANGED <<mixing, chunk>>
    BY <1>2 DEF Stop, Guest
  <2> HIDE DEF s
  <2>3. QED
    BY <2>1, <2>2, SettingStep
<1>3. ASSUME NEW loop \in BOOLEAN, Play(i, loop)
      PROVE  SoundsAreSound'
  <2> DEFINE s == [sounds[i] EXCEPT !.looping = loop, !.playing = TRUE]
  <2>1. s \in SoundRecord /\ s.size = sounds[i].size /\ s.cursor = sounds[i].cursor
    BY <1>1 DEF SoundRecord
  <2>2. sounds' = [sounds EXCEPT ![i].looping = loop, ![i].playing = TRUE]
        /\ UNCHANGED <<mixing, chunk>>
    BY <1>3 DEF Play, Guest
  <2>3. sounds' = [sounds EXCEPT ![i] = s]
    BY <2>2
  <2> HIDE DEF s
  <2>4. QED
    BY <2>1, <2>2, <2>3, SettingStep
<1>4. ASSUME NEW bits \in {8, 16}, SetFormat(i, bits)
      PROVE  SoundsAreSound'
  <2> DEFINE s == [sounds[i] EXCEPT !.bits = bits]
  <2>1. s \in SoundRecord /\ s.size = sounds[i].size /\ s.cursor = sounds[i].cursor
    BY <1>1 DEF SoundRecord
  <2>2. sounds' = [sounds EXCEPT ![i] = s] /\ UNCHANGED <<mixing, chunk>>
    BY <1>4 DEF SetFormat, Guest
  <2> HIDE DEF s
  <2>3. QED
    BY <2>1, <2>2, SettingStep
<1>5. QED
  BY <1>2, <1>3, <1>4

-----------------------------------------------------------------------------
(* The steps of the callback.                                              *)

\* The mixer collects the buffers that play.
LEMMA CollectStep == SoundsAreSound /\ Collect => SoundsAreSound'
<1> SUFFICES ASSUME SoundsAreSound, Collect PROVE SoundsAreSound'
  OBVIOUS
<1>1. chunk = 0
  <2>1. InTurn = {}
    BY DEF Collect, InTurn
  <2>2. QED
    BY <2>1 DEF SoundsAreSound, ChunkFits
<1>2. QED
  BY <1>1 DEF Collect, SoundsAreSound, Mixing, CursorsInside, ChunkFits, Callback

\* The callback moves the cursor of a buffer, or leaves it, and is done with it.
LEMMA DoneWith ==
    ASSUME SoundsAreSound, NEW i \in InTurn, NEW s \in SoundRecord, s.cursor <= s.size,
           sounds' = [sounds EXCEPT ![i] = s], mixing' = mixing \ {i}, chunk' = 0
    PROVE  SoundsAreSound'
<1>1. i \in DOMAIN sounds
  BY OneTurn
<1>2. /\ sounds' \in Seq(SoundRecord) /\ DOMAIN sounds' = DOMAIN sounds
      /\ sounds'[i] = s /\ \A j \in DOMAIN sounds : j # i => sounds'[j] = sounds[j]
  BY <1>1, OneSound DEF SoundsAreSound
<1>3. QED
  BY <1>2 DEF SoundsAreSound, Mixing, CursorsInside, ChunkFits

\* It takes a chunk of the one whose turn it is.
LEMMA TakeStep ==
    ASSUME SoundsAreSound, NEW i \in InTurn, TakeChunk(i)
    PROVE  SoundsAreSound'
<1> DEFINE start == IF AtEnd(i) THEN 0 ELSE sounds[i].cursor
           n == Chunk(i, start)
           s == [sounds[i] EXCEPT !.cursor = start]
<1>1. i \in DOMAIN sounds /\ sounds[i] \in SoundRecord
  BY OneTurn DEF SoundsAreSound
<1>2. sounds[i].size \in Nat /\ sounds[i].cursor \in Nat /\ sounds[i].cursor <= sounds[i].size
  BY <1>1 DEF SoundRecord, SoundsAreSound, CursorsInside
<1>3. start \in Nat /\ start <= sounds[i].size
  BY <1>2 DEF AtEnd
<1>4. n \in Int /\ start + n <= sounds[i].size
  <2> HIDE DEF start
  <2>1. QED
    BY <1>2, <1>3, SoundAssumption DEF Chunk
<1>5. s \in SoundRecord /\ s.cursor = start /\ s.size = sounds[i].size
  <2> HIDE DEF start
  <2>1. QED
    BY <1>1, <1>3 DEF SoundRecord
<1>6. CASE chunk' = AtItsEnd /\ UNCHANGED <<sounds, mixing>>
  BY <1>6 DEF AtItsEnd, SoundsAreSound, Mixing, CursorsInside, ChunkFits, InTurn
<1>7. CASE sounds' = [sounds EXCEPT ![i] = s] /\ n > 0 /\ chunk' = n /\ UNCHANGED mixing
  <2> HIDE DEF s, n, start
  <2>1. /\ sounds' \in Seq(SoundRecord) /\ DOMAIN sounds' = DOMAIN sounds
        /\ sounds'[i] = s /\ \A j \in DOMAIN sounds : j # i => sounds'[j] = sounds[j]
    BY <1>1, <1>5, <1>7, OneSound DEF SoundsAreSound
  <2>2. CursorsInside'
    BY <1>3, <1>5, <2>1 DEF SoundsAreSound, CursorsInside
  <2>3. InTurn' = InTurn
    BY <1>7 DEF InTurn
  <2>4. \A j \in InTurn' : j = i
    BY <2>3, OneTurn
  <2>5. ChunkFits'
    BY <1>3, <1>4, <1>5, <1>7, <2>1, <2>3, <2>4 DEF ChunkFits
  <2>6. QED
    BY <1>4, <1>7, <2>1, <2>2, <2>5 DEF SoundsAreSound, Mixing
<1>8. CASE sounds' = [sounds EXCEPT ![i] = s] /\ mixing' = mixing \ {i} /\ UNCHANGED chunk
  <2>1. chunk' = 0
    BY <1>8 DEF TakeChunk
  <2> HIDE DEF s, n, start
  <2>2. QED
    BY <1>3, <1>5, <1>8, <2>1, DoneWith
<1>9. QED
  BY <1>6, <1>7, <1>8 DEF TakeChunk

\* It stops one that has come to its end.
LEMMA StopStep ==
    ASSUME SoundsAreSound, NEW i \in InTurn, StopAtEnd(i)
    PROVE  SoundsAreSound'
<1> DEFINE s == [sounds[i] EXCEPT !.playing = FALSE]
<1>1. i \in DOMAIN sounds /\ sounds[i] \in SoundRecord
  BY OneTurn DEF SoundsAreSound
<1>2. s \in SoundRecord /\ s.cursor = sounds[i].cursor /\ s.size = sounds[i].size
  BY <1>1 DEF SoundRecord
<1>3. sounds' = [sounds EXCEPT ![i] = s] /\ mixing' = mixing \ {i} /\ chunk' = 0
  BY DEF StopAtEnd
<1>4. sounds[i].cursor <= sounds[i].size
  BY <1>1 DEF SoundsAreSound, CursorsInside
<1> HIDE DEF s
<1>5. QED
  BY <1>2, <1>3, <1>4, DoneWith

\* It has mixed a chunk and moves the cursor.
LEMMA AdvanceStep ==
    ASSUME SoundsAreSound, NEW i \in InTurn, Advance(i)
    PROVE  SoundsAreSound'
<1> DEFINE c == Advanced(sounds[i])
           s == [sounds[i] EXCEPT !.cursor = c]
<1>1. i \in DOMAIN sounds /\ sounds[i] \in SoundRecord
  BY OneTurn DEF SoundsAreSound
<1>2. sounds[i].size \in Nat /\ sounds[i].cursor \in Nat /\ chunk \in Nat \ {0}
      /\ sounds[i].cursor + chunk <= sounds[i].size
  BY <1>1 DEF Advance, SoundRecord, SoundsAreSound, ChunkFits
<1>3. c \in Nat /\ c <= sounds[i].size
  <2>1. CASE sounds[i].looping /\ sounds[i].cursor + chunk >= sounds[i].size
    <3>1. c = sounds[i].size % sounds[i].size
      BY <1>2, <2>1 DEF Advanced
    <3>2. \A k \in Nat \ {0} : k % k \in 0..(k - 1)
      OBVIOUS
    <3>3. sounds[i].size \in Nat \ {0}
      BY <1>2
    <3>4. QED
      BY <3>1, <3>2, <3>3
  <2>2. CASE ~ (sounds[i].looping /\ sounds[i].cursor + chunk >= sounds[i].size)
    BY <1>2, <2>2 DEF Advanced
  <2>3. QED
    BY <2>1, <2>2
<1> HIDE DEF c
<1>4. s \in SoundRecord /\ s.cursor = c /\ s.size = sounds[i].size
  BY <1>1, <1>3 DEF SoundRecord
<1>5. sounds' = [sounds EXCEPT ![i] = s] /\ mixing' = mixing \ {i} /\ chunk' = 0
  BY DEF Advance, c
<1> HIDE DEF s
<1>6. QED
  BY <1>3, <1>4, <1>5, DoneWith

-----------------------------------------------------------------------------
\* There are no buffers at first.
LEMMA SoundsInit == SoundInit => SoundInv
BY DEF SoundInit, SoundInv, SoundsAreSound, Mixing, CursorsInside, ChunkFits

\* Every step keeps the mixer's invariant.
LEMMA SoundsNext == SoundInv /\ [SoundNext]_soundVars => SoundInv'
<1> SUFFICES ASSUME SoundInv, [SoundNext]_soundVars, "SetCurrentPosition" \notin soundProgram'
             PROVE  SoundsAreSound'
  BY DEF SoundInv
<1>1. soundProgram' = soundProgram
  <2>1. CASE CreateSoundBuffer
    BY <2>1 DEF CreateSoundBuffer, Guest
  <2>2. CASE Collect
    BY <2>2 DEF Collect, Callback
  <2>7. ASSUME NEW i \in InTurn, TakeChunk(i) \/ StopAtEnd(i) \/ Advance(i)
        PROVE  soundProgram' = soundProgram
    BY <2>7 DEF TakeChunk, StopAtEnd, Advance, Callback
  <2>3. ASSUME NEW i \in DOMAIN sounds, DuplicateSoundBuffer(i) \/ Stop(i)
        PROVE  soundProgram' = soundProgram
    BY <2>3 DEF DuplicateSoundBuffer, Stop, Guest
  <2>4. ASSUME NEW i \in DOMAIN sounds,
               \/ \E loop \in BOOLEAN : Play(i, loop)
               \/ \E pos \in {1, sounds[i].size} : SetCurrentPosition(i, pos)
               \/ \E bits \in {8, 16} : SetFormat(i, bits)
        PROVE  soundProgram' = soundProgram
    BY <2>4 DEF Play, SetCurrentPosition, SetFormat, Guest
  <2>5. CASE UNCHANGED soundVars
    BY <2>5 DEF soundVars
  <2>6. QED
    BY <2>1, <2>2, <2>3, <2>4, <2>5, <2>7 DEF SoundNext, SoundCallback
<1>2. SoundsAreSound
  BY <1>1 DEF SoundInv
<1>3. CASE CreateSoundBuffer
  BY <1>2, <1>3, CreateStep
<1>4. CASE SoundCallback
  <2>1. CASE Collect
    BY <1>2, <2>1, CollectStep
  <2>2. ASSUME NEW i \in InTurn, TakeChunk(i) \/ StopAtEnd(i) \/ Advance(i)
        PROVE  SoundsAreSound'
    BY <1>2, <2>2, TakeStep, StopStep, AdvanceStep
  <2>3. QED
    BY <1>4, <2>1, <2>2 DEF SoundCallback
<1>5. ASSUME NEW i \in DOMAIN sounds,
             \/ DuplicateSoundBuffer(i) \/ Stop(i)
             \/ \E loop \in BOOLEAN : Play(i, loop)
             \/ \E bits \in {8, 16} : SetFormat(i, bits)
      PROVE  SoundsAreSound'
  BY <1>2, <1>5, DuplicateStep, GuestStep
<1>6. ASSUME NEW i \in DOMAIN sounds, NEW pos \in {1, sounds[i].size}, SetCurrentPosition(i, pos)
      PROVE  FALSE
  BY <1>1, <1>6 DEF SetCurrentPosition, Sounding
<1>7. CASE UNCHANGED soundVars
  BY <1>2, <1>7 DEF soundVars, SoundsAreSound, Mixing, CursorsInside, ChunkFits, InTurn
<1>8. QED
  BY <1>3, <1>4, <1>5, <1>6, <1>7 DEF SoundNext

\* Between the steps of the audio callback guests may play, stop, play again
\* and duplicate buffers: no cursor leaves its buffer (dsound_handlers.py).
THEOREM CursorsSafe == SoundSpec => []PlayCursorInBuffer
<1>1. SoundInv => PlayCursorInBuffer
  BY DEF SoundInv, SoundsAreSound, CursorsInside, PlayCursorInBuffer
<1>2. QED
  BY <1>1, SoundsInit, SoundsNext, PTL DEF SoundSpec

-----------------------------------------------------------------------------
(***************************************************************************)
(* The registry and the private profiles keep what they were given.        *)
(***************************************************************************)

-----------------------------------------------------------------------------
(* The registry: MemoryIsOnDisk is almost inductive; what it lacks is that *)
(* the file of the project is there to be changed.                         *)

FilesExist == regFile = [p \in {"project", "cwd"} |-> regFile[p]]

RegInv == FilesExist /\ MemoryIsOnDisk

\* What a load has moved, another load leaves where it is.
LEMMA LoadedIsMoved ==
    ASSUME values' = LoadRegistry(regFile'["project"]), UNCHANGED setup
    PROVE  (LoadRegistry(regFile["project"]) = MovedValues)'
<1>1. TemplatePath # RootPath
  BY DEF TemplatePath, RootPath
<1> DEFINE file == regFile'["project"]
<1>2. \A d : Substituted(file, Substituted(file, d)) = Substituted(file, d)
  BY <1>1 DEF Substituted
<1> QED
  BY <1>2 DEF LoadRegistry, MovedValues, Substituted

\* The registry's invariant holds at first.
LEMMA RegistryStarts == RegInit => RegInv
<1> SUFFICES ASSUME RegInit PROVE RegInv
  OBVIOUS
<1>1. PICK keys : regFile = [p \in {"project", "cwd"} |->
                     IF p = "project" THEN [keys |-> keys, meta |-> TRUE] ELSE NoContent]
  BY DEF RegInit
<1>2. TemplatePath # RootPath
  BY DEF TemplatePath, RootPath
<1> DEFINE file == regFile["project"]
<1>3. \A d : Substituted(file, Substituted(file, d)) = Substituted(file, d)
  BY <1>2 DEF Substituted
<1>4. LoadRegistry(file) = MovedValues
  BY <1>3 DEF RegInit, LoadRegistry, MovedValues, Substituted
<1>5. QED
  BY <1>1, <1>4 DEF RegInv, FilesExist, MemoryIsOnDisk

\* A write that succeeds leaves in the file what is in memory.
LEMMA SavedStep ==
    ASSUME RegInv, NEW v, values' = v, SaveRegistry(v), UNCHANGED setup
    PROVE  RegInv'
<1>1. FilesExist'
  BY DEF RegInv, FilesExist, SaveRegistry
<1>2. ASSUME setup'.atHome, saved' PROVE (LoadRegistry(regFile["project"]) = MovedValues)'
  <2>1. saved' # FALSE
    BY <1>2
  <2>2. /\ Saves = "project"
        /\ regFile' = [regFile EXCEPT !["project"] = [keys |-> v, meta |-> @.meta]]
    BY <1>2, <2>1 DEF SaveRegistry, Saves
  <2>3. "project" \in DOMAIN regFile
    BY DEF RegInv, FilesExist
  <2>4. regFile'["project"].keys = v
    BY <2>2, <2>3
  <2>5. QED
    BY <2>4 DEF LoadRegistry, MovedValues, Substituted
<1>3. QED
  BY <1>1, <1>2 DEF RegInv, MemoryIsOnDisk

\* And after every step.
LEMMA RegistryGoesOn == RegInv /\ [RegNext]_regVars => RegInv'
<1> SUFFICES ASSUME RegInv, [RegNext]_regVars PROVE RegInv'
  OBVIOUS
<1>1. CASE Restart
  <2>1. (LoadRegistry(regFile["project"]) = MovedValues)'
    BY <1>1, LoadedIsMoved DEF Restart
  <2>3. FilesExist'
    BY <1>1 DEF Restart, RegInv, FilesExist
  <2>2. QED
    BY <2>1, <2>3 DEF RegInv, MemoryIsOnDisk
<1>2. ASSUME UNCHANGED <<values, regFile, saved, setup>> PROVE RegInv'
  BY <1>2 DEF RegInv, FilesExist, MemoryIsOnDisk, MovedValues, LoadRegistry, Substituted
<1>3. ASSUME NEW t \in RegThread, NEW k \in RegKey, OpenKey(t, k) \/ QuerySubkey(t, k)
      PROVE  RegInv'
  BY <1>2, <1>3 DEF OpenKey, QuerySubkey
<1>4. ASSUME NEW t \in RegThread, NEW h \in DOMAIN keyNames, NotifyChange(t, h) PROVE RegInv'
  BY <1>2, <1>4 DEF NotifyChange
<1>5. ASSUME NEW t \in RegThread, NEW h \in DOMAIN keyNames, NEW n \in RegName,
             DeleteValue(t, h, n)
      PROVE  RegInv'
  BY <1>5, SavedStep DEF DeleteValue
<1>6. ASSUME NEW t \in RegThread, NEW h \in DOMAIN keyNames, NEW n \in RegName,
             NEW d \in RegData, SetValue(t, h, n, d)
      PROVE  RegInv'
  BY <1>6, SavedStep DEF SetValue
<1>7. CASE UNCHANGED regVars
  BY <1>2, <1>7 DEF regVars
<1>8. QED
  BY <1>1, <1>3, <1>4, <1>5, <1>6, <1>7 DEF RegNext

\* While no write has failed, a restart finds the values of memory, whatever
\* the keys, the values and their number: every handler that changes the
\* registry saves it, and loading what was loaded moves nothing twice
\* (advapi32_handlers.py, registry.py).
THEOREM RegistrySaved == RegSpec => []MemoryIsOnDisk
<1>1. RegInv => MemoryIsOnDisk
  BY DEF RegInv
<1>2. QED
  BY <1>1, RegistryStarts, RegistryGoesOn, PTL DEF RegSpec

-----------------------------------------------------------------------------
(* The profiles: a write replaces what it names in what it has read.       *)

\* Reading an entry of a file that was read before gives what the first
\* reading gives.
LEMMA ParsedOnce ==
    ASSUME NEW content, NEW s, NEW k, NEW d
    PROVE  ReadProfile(ParseIni(content), s, k, d) = ReadProfile(content, s, k, d)
BY DEF ReadProfile, SectionOf, ParseIni, Restrict

\* What a write makes of the file it read.
Rewritten(content, s, k) ==
    \/ k \in IniKey /\ (content = WithoutEntry(ParseIni(ini), s, k)
                        \/ \E v \in IniValue : content = WithEntry(ParseIni(ini), s, k, v))
    \/ /\ k = WholeSection
       /\ \/ content = Restrict(ParseIni(ini), DOMAIN ParseIni(ini) \ {s})
          \/ \E pairs : content = Put(ParseIni(ini), s, pairs)

\* Rewriting one key of the file is not seen by a read of another.
LEMMA RewrittenElsewhere ==
    ASSUME NEW content, NEW s, NEW k, Rewritten(content, s, k),
           NEW s2, NEW k2 \in IniKey \ CommentKey, NEW d,
           s2 # s \/ (k2 # k /\ k # WholeSection)
    PROVE  ReadProfile(content, s2, k2, d) = ReadProfile(ini, s2, k2, d)
<1>1. CASE content = WithoutEntry(ParseIni(ini), s, k)
  BY <1>1 DEF WithoutEntry, ReadProfile, SectionOf, ParseIni, Restrict
<1>2. ASSUME NEW v, content = WithEntry(ParseIni(ini), s, k, v)
      PROVE  ReadProfile(content, s2, k2, d) = ReadProfile(ini, s2, k2, d)
  BY <1>2 DEF WithEntry, Put, ReadProfile, SectionOf, ParseIni, Restrict
<1>3. CASE s2 # s /\ content = Restrict(ParseIni(ini), DOMAIN ParseIni(ini) \ {s})
  BY <1>3 DEF ReadProfile, SectionOf, ParseIni, Restrict
<1>4. ASSUME s2 # s, NEW pairs, content = Put(ParseIni(ini), s, pairs)
      PROVE  ReadProfile(content, s2, k2, d) = ReadProfile(ini, s2, k2, d)
  BY <1>4 DEF Put, ReadProfile, SectionOf, ParseIni, Restrict
<1>5. QED
  BY <1>1, <1>2, <1>3, <1>4 DEF Rewritten

\* A write of a file that was read is not seen by a read of another key.
LEMMA WriteKeepsOthers ==
    ASSUME NEW content, NEW s, NEW k, NEW reread, WriteIni(content, s, k, reread),
           reread => Rewritten(content, s, k)
    PROVE  lastWrite'.read /\ lastWrite'.ok =>
             \A s2 \in Section, k2 \in IniKey \ CommentKey :
                 lastWrite'.section # s2 \/ lastWrite'.key \notin {k2, WholeSection} =>
                   ReadProfile(ini', s2, k2, WholeSection) = ReadProfile(ini, s2, k2, WholeSection)
<1> SUFFICES ASSUME lastWrite'.read, lastWrite'.ok,
                    NEW s2 \in Section, NEW k2 \in IniKey \ CommentKey,
                    lastWrite'.section # s2 \/ lastWrite'.key \notin {k2, WholeSection}
             PROVE  ReadProfile(ini', s2, k2, WholeSection) = ReadProfile(ini, s2, k2, WholeSection)
  OBVIOUS
<1>1. /\ ini' = content
      /\ lastWrite' = [section |-> s, key |-> k, read |-> reread, ok |-> TRUE]
  <2>1. lastWrite' # [section |-> s, key |-> k, read |-> reread, ok |-> FALSE]
    OBVIOUS
  <2>2. QED
    BY <2>1, Zenon DEF WriteIni
<1>2. lastWrite'.section = s /\ lastWrite'.key = k /\ lastWrite'.read = reread
  BY <1>1
<1>4. reread
  BY <1>2
<1>5. s2 # s \/ (k2 # k /\ k # WholeSection)
  BY <1>2
<1>6. QED
  BY <1>1, <1>4, <1>5, RewrittenElsewhere

\* WritePrivateProfileString and WritePrivateProfileSection change what they
\* name and nothing else, for files of any content, as long as the file can be
\* read and written (_ini_helpers.py, kernel32_system.py).
THEOREM OthersKept == IniSpec => OtherEntriesKept
<1> DEFINE OthersStay == lastWrite'.read /\ lastWrite'.ok =>
             \A s \in Section, k \in IniKey \ CommentKey :
                 lastWrite'.section # s \/ lastWrite'.key \notin {k, WholeSection} =>
                   ReadProfile(ini', s, k, WholeSection) = ReadProfile(ini, s, k, WholeSection)
<1>1. ASSUME NEW s \in Section, NEW k \in IniKey, DeleteEntry(s, k) PROVE OthersStay
  BY <1>1, WriteKeepsOthers DEF DeleteEntry, ReadIni, Rewritten
<1>2. ASSUME NEW s \in Section, NEW k \in IniKey, NEW v \in IniValue, WriteString(s, k, v)
      PROVE  OthersStay
  BY <1>2, WriteKeepsOthers DEF WriteString, ReadIni, Rewritten
<1>3. ASSUME NEW s \in Section, DeleteSection(s) PROVE OthersStay
  BY <1>3, WriteKeepsOthers DEF DeleteSection, ReadIni, Rewritten
<1>4. ASSUME NEW s \in Section, NEW pairs, WriteSection(s, pairs) PROVE OthersStay
  BY <1>4, WriteKeepsOthers DEF WriteSection, ReadIni, Rewritten
<1>5. IniNext => OthersStay
  BY <1>1, <1>2, <1>3, <1>4 DEF IniNext
<1>6. [IniNext]_iniVars => [OthersStay]_iniVars
  BY <1>5
<1>7. QED
  BY <1>6, PTL DEF IniSpec, OtherEntriesKept

-----------------------------------------------------------------------------
(***************************************************************************)
(* A request of WinInet hands out one answer, for any number of handles,   *)
(* requests and failures, and bodies of any length.  The invariant says    *)
(* for each handle what it names; a request that is read is between two    *)
(* sends, so its position is in the body the last successful send left.    *)
(***************************************************************************)

HttpRequest == [kind : {"request"}, status : Nat, body : Nat, len : Nat, read_pos : Nat,
                ok : BOOLEAN]

\* What is read of a request is of the answer its status belongs to.
OneAnswer(req) ==
    /\ req.read_pos <= req.len
    /\ req.ok => req.status = req.body

\* Every handle names a session, a connection, or such a request.
HandlesNameObjects ==
    /\ answers \in Nat
    /\ DOMAIN handle_map \subseteq InetHandle
    /\ handle_map = [h \in DOMAIN handle_map |-> handle_map[h]]
    /\ \A h \in DOMAIN handle_map :
          \/ handle_map[h] \in {Session, Connection}
          \/ handle_map[h] \in HttpRequest /\ OneAnswer(handle_map[h])

-----------------------------------------------------------------------------
\* A send that starts from a rewound request ends with one of one answer,
\* whether it succeeds, breaks off or is never answered.
LEMMA SendsOneAnswer ==
    ASSUME answers \in Nat, NEW old \in HttpRequest, NEW req \in Outcomes(Rewound(old))
    PROVE  req \in HttpRequest /\ OneAnswer(req)
<1> USE InetAssumption
<1>1. Answer \in Nat
  BY DEF Answer
<1>2. PICK start \in HttpRequest : start.read_pos = 0 /\ req \in Outcomes(start)
  <2>1. [old EXCEPT !.read_pos = 0] \in HttpRequest
    BY DEF HttpRequest
  <2>2. [old EXCEPT !.read_pos = 0].read_pos = 0
    BY DEF HttpRequest
  <2>3. QED
    BY <2>1, <2>2 DEF Rewound
<1>3. start.len \in Nat
  BY DEF HttpRequest
<1>4. CASE req = [start EXCEPT !.ok = FALSE]
  <2>1. req \in HttpRequest
    BY <1>4 DEF HttpRequest
  <2>2. req.read_pos = start.read_pos /\ req.len = start.len /\ req.ok = FALSE
    BY <1>4 DEF HttpRequest
  <2>3. QED
    BY <1>2, <1>3, <2>1, <2>2 DEF OneAnswer
<1>5. CASE req = [start EXCEPT !.status = Answer, !.ok = FALSE]
  <2>1. req \in HttpRequest
    BY <1>1, <1>5 DEF HttpRequest
  <2>2. req.read_pos = start.read_pos /\ req.len = start.len /\ req.ok = FALSE
    BY <1>5 DEF HttpRequest
  <2>3. QED
    BY <1>2, <1>3, <2>1, <2>2 DEF OneAnswer
<1>6. ASSUME NEW n \in 0..MaxBody,
             req = [start EXCEPT !.status = Answer, !.body = Answer, !.len = n, !.ok = TRUE]
      PROVE  req \in HttpRequest /\ OneAnswer(req)
  <2>1. n \in Nat
    OBVIOUS
  <2>2. req \in HttpRequest
    BY <1>1, <1>6, <2>1 DEF HttpRequest
  <2>3. /\ req.read_pos = start.read_pos /\ req.len = n
        /\ req.status = Answer /\ req.body = Answer
    BY <1>6 DEF HttpRequest
  <2>4. QED
    BY <1>2, <2>1, <2>2, <2>3 DEF OneAnswer
<1>7. QED
  BY <1>2, <1>4, <1>5, <1>6 DEF Outcomes

\* A request nobody has sent yet.
LEMMA FreshIsARequest == Fresh \in HttpRequest /\ OneAnswer(Fresh) /\ Rewound(Fresh) = Fresh
BY DEF Fresh, HttpRequest, OneAnswer, Rewound

\* A handle allocated for an object of the invariant keeps it.
LEMMA AllocKeeps ==
    ASSUME HandlesNameObjects, NEW obj,
           obj \in {Session, Connection} \/ (obj \in HttpRequest /\ OneAnswer(obj)),
           Alloc(obj), answers' \in Nat
    PROVE  HandlesNameObjects'
BY DEF HandlesNameObjects, Alloc

-----------------------------------------------------------------------------
\* There are no handles at first.
LEMMA HandlesInit == InetInit => HandlesNameObjects
BY DEF InetInit, HandlesNameObjects

\* Every step keeps the handles of WinInet naming objects.
LEMMA HandlesNext == HandlesNameObjects /\ [InetNext]_inetVars => HandlesNameObjects'
<1> SUFFICES ASSUME HandlesNameObjects, [InetNext]_inetVars
             PROVE  HandlesNameObjects'
  OBVIOUS
<1> USE InetAssumption
<1>1. CASE InternetOpen \/ InternetConnect
  BY <1>1, AllocKeeps DEF InternetOpen, InternetConnect, HandlesNameObjects
<1>2. ASSUME NEW h \in InetHandle, HttpOpenRequest(h)
      PROVE  HandlesNameObjects'
  BY <1>2, AllocKeeps, FreshIsARequest DEF HttpOpenRequest, HandlesNameObjects
<1>3. ASSUME NEW h \in InetHandle, HttpSendRequest(h)
      PROVE  HandlesNameObjects'
  <2>1. h \in DOMAIN handle_map /\ handle_map[h] \in HttpRequest
    BY <1>3 DEF HttpSendRequest, IsA, HandlesNameObjects, Session, Connection
  <2>2. PICK req \in Outcomes(Rewound(handle_map[h])) :
             handle_map' = [handle_map EXCEPT ![h] = req]
    BY <1>3 DEF HttpSendRequest
  <2>3. req \in HttpRequest /\ OneAnswer(req)
    BY <2>1, SendsOneAnswer DEF HandlesNameObjects
  <2>4. answers' \in Nat
    BY <1>3 DEF HttpSendRequest, Answer, HandlesNameObjects
  <2>5. QED
    BY <2>1, <2>2, <2>3, <2>4 DEF HandlesNameObjects
<1>4. CASE Malformed
  BY <1>4 DEF Malformed, Answer, HandlesNameObjects
<1>5. CASE InternetOpenUrl
  <2>1. answers' \in Nat
    BY <1>5 DEF InternetOpenUrl, Answer, HandlesNameObjects
  <2>2. ASSUME NEW req \in Outcomes(Fresh), Alloc(req)
        PROVE  HandlesNameObjects'
    <3>1. req \in HttpRequest /\ OneAnswer(req)
      BY FreshIsARequest, SendsOneAnswer DEF HandlesNameObjects
    <3>2. QED
      BY <2>1, <2>2, <3>1, AllocKeeps
  <2>3. CASE UNCHANGED <<handle_map, inet_next>>
    BY <2>1, <2>3 DEF HandlesNameObjects
  <2>4. QED
    BY <1>5, <2>2, <2>3 DEF InternetOpenUrl
<1>6. ASSUME NEW h \in InetHandle, NEW n \in 1..MaxBody, InternetReadFile(h, n)
      PROVE  HandlesNameObjects'
  <2> DEFINE req == handle_map[h]
             got == Min({n, req.len - req.read_pos})
  <2>1. h \in DOMAIN handle_map /\ req \in HttpRequest /\ OneAnswer(req)
    BY <1>6 DEF InternetReadFile, IsA, HandlesNameObjects, Session, Connection
  <2>2. req.len \in Nat /\ req.read_pos \in Nat /\ req.read_pos <= req.len
    BY <2>1 DEF HttpRequest, OneAnswer
  <2>3. got \in 0..(req.len - req.read_pos)
    <3> DEFINE room == req.len - req.read_pos
    <3>1. room \in Nat /\ n \in Nat
      BY <2>2
    <3> HIDE DEF room, req
    <3>2. Min({n, room}) \in {n, room} /\ Min({n, room}) <= room
      BY <3>1, MinOfTwo
    <3>3. Min({n, room}) \in 0..room
      BY <3>1, <3>2
    <3>4. QED
      BY <3>3 DEF room
  <2>4. handle_map' = [handle_map EXCEPT ![h] = [req EXCEPT !.read_pos = @ + got]]
    BY <1>6, <2>1 DEF InternetReadFile
  <2> DEFINE new == [req EXCEPT !.read_pos = @ + got]
  <2>5. new \in HttpRequest /\ OneAnswer(new)
    <3> HIDE DEF got
    <3>1. req.read_pos + got \in Nat /\ req.read_pos + got <= req.len
      BY <2>2, <2>3
    <3> HIDE DEF req
    <3>2. new \in HttpRequest
      BY <2>1, <3>1 DEF HttpRequest
    <3>3. /\ new.read_pos = req.read_pos + got /\ new.len = req.len
          /\ new.ok = req.ok /\ new.status = req.status /\ new.body = req.body
      BY <2>1 DEF HttpRequest
    <3> HIDE DEF new
    <3>4. QED
      BY <2>1, <3>1, <3>2, <3>3 DEF OneAnswer
  <2>6. answers' = answers
    BY <1>6 DEF InternetReadFile
  <2>7. QED
    <3> HIDE DEF req, got
    <3>1. handle_map' = [handle_map EXCEPT ![h] = new]
      BY <2>4
    <3> HIDE DEF new
    <3>2. QED
      BY <2>1, <2>5, <2>6, <3>1 DEF HandlesNameObjects
<1>7. ASSUME NEW h \in InetHandle, InternetCloseHandle(h)
      PROVE  HandlesNameObjects'
  BY <1>7 DEF InternetCloseHandle, Restrict, HandlesNameObjects
<1>8. CASE UNCHANGED inetVars
  BY <1>8 DEF inetVars, HandlesNameObjects
<1>9. QED
  BY <1>1, <1>2, <1>3, <1>4, <1>5, <1>6, <1>7, <1>8 DEF InetNext

\* However often a request is sent, and however a send fails, its status and
\* what is read of it are of one answer (wininet_handlers.py, _send_http).
THEOREM AnswersAreOne == InetSpec => []ReadsOneAnswer
<1>1. HandlesNameObjects => ReadsOneAnswer
  BY DEF HandlesNameObjects, ReadsOneAnswer, OneAnswer, HttpRequest, Session, Connection
<1>2. QED
  BY <1>1, HandlesInit, HandlesNext, PTL DEF InetSpec

-----------------------------------------------------------------------------
(***************************************************************************)
(* The CPU stops at the breakpoints that have a handler and are not done   *)
(* with, for any set of breakpoints and whatever their handlers register   *)
(* and unregister.                                                         *)
(***************************************************************************)
LEMMA BreakpointsStep ==
    BreakpointsAgree /\ [MainLoopNext]_loopVars => BreakpointsAgree'
<1> SUFFICES ASSUME BreakpointsAgree, [MainLoopNext]_loopVars PROVE BreakpointsAgree'
  OBVIOUS
<1>1. CASE UNCHANGED points
  BY <1>1 DEF points, BreakpointsAgree
<1>2. CASE DispatchBreakpoint
  <2>1. ASSUME NEW b \in armed, NEW keep \in BOOLEAN, NEW unregistered \in SUBSET handlers,
               handlers' = handlers \ unregistered,
               armed' = ArmedAfter(b, keep, unregistered),
               declined' = (declined \cup (IF keep THEN {} ELSE {b})) \ unregistered
        PROVE  BreakpointsAgree'
    BY <2>1 DEF ArmedAfter, BreakpointsAgree
  <2> QED BY <1>1, <1>2, <2>1 DEF DispatchBreakpoint
<1>3. ASSUME NEW b \in Breakpoint, RegisterBreakpoint(b) PROVE BreakpointsAgree'
  BY <1>3 DEF RegisterBreakpoint, BreakpointsAgree
<1>4. ASSUME NEW c \in {"pause", "resume", "else"}, WritePause(c) PROVE UNCHANGED points
  BY <1>4 DEF WritePause
<1>5. ASSUME NEW n \in StepCounts, WriteStep(n) PROVE UNCHANGED points
  BY <1>5 DEF WriteStep
<1>6. CASE \/ NextTurn \/ ReadPause \/ RemovePause \/ ReadStep \/ Step \/ RunBatch
           \/ CheckFault \/ Preempt \/ TimerHeartbeat \/ CheckRegion \/ FatallyHalted
  BY <1>1, <1>6 DEF NextTurn, ReadPause, RemovePause, ReadStep, Step, RunBatch, CheckFault,
     Preempt, TimerHeartbeat, CheckRegion, FatallyHalted
<1> QED BY <1>1, <1>2, <1>3, <1>4, <1>5, <1>6 DEF MainLoopNext, LoopSteps, loopVars

\* A breakpoint that its handler keeps fires again, and one that it declines
\* or unregisters never does, also when a handler does several of these at
\* once (run_exe.py, _dispatch_breakpoint).
THEOREM BreakpointsSafe == MainLoopSpec => []BreakpointsAgree
<1>1. MainLoopInit => BreakpointsAgree
  BY DEF MainLoopInit, BreakpointsAgree
<1> QED BY <1>1, BreakpointsStep, PTL DEF MainLoopSpec

-----------------------------------------------------------------------------
(***************************************************************************)
(* An unwind calls the handlers it should, for chains of any length and    *)
(* exceptions raised in handlers to any depth.  The calls in progress form *)
(* a stack in which dispatches and unwinds alternate with the handlers     *)
(* they called; an unwind with a handler above it has called every frame   *)
(* from that handler's up, and one on top has left the last of them, so    *)
(* that the chain begins where it goes on.  What happens above it may move *)
(* the head of the chain, but the unwind sets it when it goes on.          *)
(***************************************************************************)
SehState   == [dispatching : BOOLEAN, frame : Nat]
SehCall    == [call : {"dispatch"}, next : Nat, first : Nat, from : {"loop", "raise"},
               outer : SehState]
              \cup [call : {"unwind"}, next : Nat, first : Nat, target : Nat, called : SUBSET Int]
              \cup [call : {"handler"}, frame : Nat, why : {"search", "unwind"}, landed : BOOLEAN]

\* A dispatch or an unwind c, with a handler above it or without.
CallInOrder(c, waiting) ==
    /\ waiting => c.next # 0
    /\ c.call = "unwind" =>
          /\ c.called = (IF waiting THEN c.next ELSE c.next + 1) .. (c.first - 1)
          /\ waiting => c.next # c.target
          /\ c.next < c.first \/ (~ waiting /\ c.next \in {0, c.target})
          /\ c.target < c.first => c.target <= c.next

StackInOrder(s) ==
    /\ s \in Seq(SehCall)
    /\ \A i \in 1 .. Len(s) :
          IF s[i].call = "handler"
          THEN i > 1 /\ s[i-1].call = (IF s[i].why = "search" THEN "dispatch" ELSE "unwind")
          ELSE /\ i > 1 => s[i-1].call = "handler"
               /\ CallInOrder(s[i], i < Len(s))

\* hd is the head of the chain when the calls of s are in progress.
ChainInOrder(s, hd) ==
    /\ StackInOrder(s)
    /\ s # <<>> => (s[Len(s)].call = "unwind" => hd = s[Len(s)].next)

SehInv == head \in Nat /\ seh \in SehState /\ ChainInOrder(acts, head)

\* The stack is cut off above a handler.
LEMMA StackCut ==
    ASSUME NEW s, StackInOrder(s), NEW n \in 0 .. Len(s), NEW hd,
           n # 0 => s[n].call = "handler"
    PROVE  ChainInOrder(SubSeq(s, 1, n), hd)
<1> DEFINE t == SubSeq(s, 1, n)
<1>1. s \in Seq(SehCall) /\ Len(s) \in Nat
  BY DEF StackInOrder
<1>2. t \in Seq(SehCall) /\ Len(t) = n /\ \A i \in 1 .. n : t[i] = s[i]
  BY <1>1
<1> HIDE DEF t
<1>3. ASSUME NEW i \in 1 .. n, t[i].call # "handler" PROVE CallInOrder(t[i], i < n)
  <2>1. i < n
    BY <1>2, <1>3
  <2> QED BY <1>1, <1>2, <1>3, <2>1 DEF StackInOrder
<1>4. StackInOrder(t)
  BY <1>1, <1>2, <1>3 DEF StackInOrder
<1>5. t # <<>> => t[Len(t)].call = "handler"
  BY <1>2
<1> QED BY <1>4, <1>5 DEF ChainInOrder, t

\* A dispatch or an unwind starts, or goes on, above a handler.
LEMMA StackCall ==
    ASSUME NEW s, StackInOrder(s), s # <<>> => s[Len(s)].call = "handler",
           NEW c \in SehCall, c.call # "handler", CallInOrder(c, FALSE),
           NEW hd, c.call = "unwind" => hd = c.next
    PROVE  ChainInOrder(Append(s, c), hd)
<1> DEFINE t == Append(s, c)
<1>1. s \in Seq(SehCall) /\ Len(s) \in Nat
  BY DEF StackInOrder
<1>2. /\ t \in Seq(SehCall) /\ Len(t) = Len(s) + 1 /\ t[Len(s) + 1] = c
      /\ \A i \in 1 .. Len(s) : t[i] = s[i]
  BY <1>1
<1> HIDE DEF t
<1>3. ASSUME NEW i \in 1 .. Len(t)
      PROVE  IF t[i].call = "handler"
             THEN i > 1 /\ t[i-1].call = (IF t[i].why = "search" THEN "dispatch" ELSE "unwind")
             ELSE /\ i > 1 => t[i-1].call = "handler"
                  /\ CallInOrder(t[i], i < Len(t))
  <2>1. CASE i = Len(s) + 1
    <3>1. (i < Len(t)) = FALSE /\ t[i] = c
      BY <1>1, <1>2, <2>1
    <3>2. i > 1 => t[i-1].call = "handler"
      <4>1. i > 1 => s # <<>> /\ t[i-1] = s[Len(s)]
        BY <1>1, <1>2, <2>1
      <4> QED BY <4>1
    <3> QED BY <3>1, <3>2
  <2>2. CASE i = Len(s)
    BY <1>1, <1>2, <2>2 DEF StackInOrder
  <2>3. CASE i < Len(s)
    <3>1. (i < Len(t)) = (i < Len(s))
      BY <1>1, <1>2, <2>3
    <3> QED BY <1>1, <1>2, <2>3, <3>1 DEF StackInOrder
  <2> QED BY <1>1, <1>2, <2>1, <2>2, <2>3
<1>4. StackInOrder(t)
  BY <1>2, <1>3 DEF StackInOrder
<1> QED BY <1>1, <1>2, <1>4 DEF ChainInOrder, t

\* The dispatch or unwind on top becomes c and calls a handler.
LEMMA StackHandler ==
    ASSUME NEW s, StackInOrder(s), s # <<>>, s[Len(s)].call # "handler",
           NEW c \in SehCall, c.call = s[Len(s)].call, CallInOrder(c, TRUE),
           NEW h \in SehCall, h.call = "handler",
           c.call = (IF h.why = "search" THEN "dispatch" ELSE "unwind"),
           NEW hd, NEW t, t = Append([s EXCEPT ![Len(s)] = c], h)
    PROVE  ChainInOrder(t, hd)
<1>1. s \in Seq(SehCall) /\ Len(s) \in Nat /\ Len(s) > 0
  BY DEF StackInOrder
<1> DEFINE u == [s EXCEPT ![Len(s)] = c]
<1>2. /\ u \in Seq(SehCall) /\ Len(u) = Len(s) /\ u[Len(s)] = c
      /\ \A i \in 1 .. Len(s) - 1 : u[i] = s[i]
  BY <1>1
<1>3. /\ t \in Seq(SehCall) /\ Len(t) = Len(s) + 1 /\ t[Len(s) + 1] = h /\ t[Len(s)] = c
      /\ \A i \in 1 .. Len(s) - 1 : t[i] = s[i]
  <2>1. t = Append(u, h)
    OBVIOUS
  <2> HIDE DEF u
  <2> QED BY <1>1, <1>2, <2>1
<1>4. ASSUME NEW i \in 1 .. Len(t)
      PROVE  IF t[i].call = "handler"
             THEN i > 1 /\ t[i-1].call = (IF t[i].why = "search" THEN "dispatch" ELSE "unwind")
             ELSE /\ i > 1 => t[i-1].call = "handler"
                  /\ CallInOrder(t[i], i < Len(t))
  <2>1. CASE i = Len(s) + 1
    BY <1>1, <1>3, <2>1
  <2>2. CASE i = Len(s)
    <3>1. (i < Len(t)) = TRUE
      BY <1>1, <1>3, <2>2
    <3>2. i > 1 => t[i-1].call = "handler"
      <4>1. Len(s) \in 1 .. Len(s)
        BY <1>1
      <4>2. Len(s) > 1 => s[Len(s)-1].call = "handler"
        BY <4>1 DEF StackInOrder
      <4>3. i > 1 => t[i-1] = s[i-1]
        BY <1>1, <1>3, <2>2
      <4> QED BY <2>2, <4>2, <4>3
    <3> QED BY <1>3, <2>2, <3>1, <3>2
  <2>3. CASE i < Len(s)
    <3>1. (i < Len(t)) = (i < Len(s))
      BY <1>1, <1>3, <2>3
    <3> QED BY <1>1, <1>3, <2>3, <3>1 DEF StackInOrder
  <2> QED BY <1>1, <1>3, <2>1, <2>2, <2>3
<1>5. StackInOrder(t)
  BY <1>3, <1>4 DEF StackInOrder
<1> QED BY <1>1, <1>3, <1>5 DEF ChainInOrder

\* The handler on top lands in its __except block.
LEMMA StackLanded ==
    ASSUME NEW s, StackInOrder(s), s # <<>>, s[Len(s)].call = "handler", NEW hd
    PROVE  ChainInOrder([s EXCEPT ![Len(s)].landed = TRUE], hd)
<1> DEFINE h == [s[Len(s)] EXCEPT !.landed = TRUE]
           t == [s EXCEPT ![Len(s)] = h]
<1>1. s \in Seq(SehCall) /\ Len(s) \in Nat /\ Len(s) > 0 /\ s[Len(s)] \in SehCall
  BY DEF StackInOrder
<1>2. s[Len(s)] \in [call : {"handler"}, frame : Nat, why : {"search", "unwind"}, landed : BOOLEAN]
  BY <1>1 DEF SehCall
<1>3. h \in SehCall /\ h.call = "handler" /\ h.why = s[Len(s)].why
  BY <1>2 DEF SehCall
<1> HIDE DEF h
<1>4. t \in Seq(SehCall) /\ Len(t) = Len(s) /\ t[Len(s)] = h
      /\ \A i \in 1 .. Len(s) - 1 : t[i] = s[i]
  BY <1>1, <1>3
<1> HIDE DEF t
<1>5. ASSUME NEW i \in 1 .. Len(t)
      PROVE  IF t[i].call = "handler"
             THEN i > 1 /\ t[i-1].call = (IF t[i].why = "search" THEN "dispatch" ELSE "unwind")
             ELSE /\ i > 1 => t[i-1].call = "handler"
                  /\ CallInOrder(t[i], i < Len(t))
  <2>1. CASE i = Len(s)
    BY <1>1, <1>3, <1>4, <2>1 DEF StackInOrder
  <2>2. CASE i < Len(s)
    BY <1>1, <1>4, <2>2 DEF StackInOrder
  <2> QED BY <1>1, <1>4, <2>1, <2>2
<1>6. StackInOrder(t)
  BY <1>4, <1>5 DEF StackInOrder
<1> QED BY <1>1, <1>3, <1>4, <1>6 DEF ChainInOrder, t, h

\* What is below a handler on top: the call that called it, and below that a
\* handler or nothing.
LEMMA BelowHandler ==
    ASSUME StackInOrder(acts), Calling("handler")
    PROVE  /\ Len(acts) \in Nat /\ Len(acts) >= 2 /\ Top = acts[Len(acts)] /\ Top \in SehCall
           /\ Below = SubSeq(acts, 1, Len(acts) - 1) /\ Front(Below) = SubSeq(acts, 1, Len(acts) - 2)
           /\ Last(Below) = acts[Len(acts) - 1] /\ Last(Below) \in SehCall
           /\ Last(Below).call = (IF Top.why = "search" THEN "dispatch" ELSE "unwind")
           /\ CallInOrder(Last(Below), TRUE)
           /\ Len(acts) > 2 => acts[Len(acts) - 2].call = "handler"
<1>1. acts \in Seq(SehCall) /\ Len(acts) \in Nat /\ Len(acts) > 0 /\ Top = acts[Len(acts)]
  BY DEF StackInOrder, Calling, Top, Last
<1>2. Len(acts) \in 1 .. Len(acts) /\ acts[Len(acts)].call = "handler"
  BY <1>1 DEF Calling
<1>3. Len(acts) > 1
      /\ acts[Len(acts) - 1].call = (IF Top.why = "search" THEN "dispatch" ELSE "unwind")
  BY <1>1, <1>2 DEF StackInOrder
<1>4. /\ Below = SubSeq(acts, 1, Len(acts) - 1) /\ Below \in Seq(SehCall)
      /\ Len(Below) = Len(acts) - 1 /\ \A i \in 1 .. Len(acts) - 1 : Below[i] = acts[i]
  BY <1>1, <1>3 DEF Below, Front
<1>5. Last(Below) = acts[Len(acts) - 1]
  BY <1>1, <1>3, <1>4 DEF Last
<1>6. Front(Below) = SubSeq(acts, 1, Len(acts) - 2)
  <2>1. Front(Below) = SubSeq(Below, 1, Len(acts) - 2)
    BY <1>1, <1>4 DEF Front
  <2> QED BY <1>1, <1>3, <1>4, <2>1
<1>7. Len(acts) - 1 \in 1 .. Len(acts) /\ acts[Len(acts) - 1].call # "handler"
      /\ acts[Len(acts) - 1] \in SehCall
  BY <1>1, <1>3
<1>8. /\ Len(acts) - 1 > 1 => acts[Len(acts) - 1 - 1].call = "handler"
      /\ CallInOrder(acts[Len(acts) - 1], Len(acts) - 1 < Len(acts))
  BY <1>7 DEF StackInOrder
<1>9. (Len(acts) - 1 < Len(acts)) = TRUE /\ Len(acts) - 1 - 1 = Len(acts) - 2
  BY <1>1
<1>10. CallInOrder(acts[Len(acts) - 1], TRUE)
  BY <1>8, <1>9 DEF CallInOrder
<1>11. acts[Len(acts)] \in SehCall
  BY <1>1, <1>2
<1>12. Len(acts) > 2 => acts[Len(acts) - 2].call = "handler"
  BY <1>1, <1>8, <1>9
<1>13. Top \in SehCall /\ Len(acts) >= 2
  BY <1>1, <1>3, <1>11
<1>14. Last(Below) \in SehCall
       /\ Last(Below).call = (IF Top.why = "search" THEN "dispatch" ELSE "unwind")
  BY <1>3, <1>5, <1>7
<1>15. CallInOrder(Last(Below), TRUE)
  BY <1>5, <1>10
<1> QED BY <1>1, <1>4, <1>5, <1>6, <1>12, <1>13, <1>14, <1>15

\* ... and what is below a dispatch or an unwind on top.
LEMMA BelowCall ==
    ASSUME StackInOrder(acts), NEW c \in {"dispatch", "unwind"}, Calling(c)
    PROVE  /\ Len(acts) \in Nat /\ Len(acts) >= 1 /\ Top = acts[Len(acts)] /\ Top \in SehCall
           /\ Below = SubSeq(acts, 1, Len(acts) - 1) /\ CallInOrder(Top, FALSE)
           /\ Len(acts) > 1 => acts[Len(acts) - 1].call = "handler"
<1>1. acts \in Seq(SehCall) /\ Len(acts) \in Nat /\ Len(acts) > 0 /\ Top = acts[Len(acts)]
  BY DEF StackInOrder, Calling, Top, Last
<1>2. Len(acts) \in 1 .. Len(acts) /\ acts[Len(acts)].call # "handler"
  BY <1>1 DEF Calling
<1>3. /\ Len(acts) > 1 => acts[Len(acts) - 1].call = "handler"
      /\ CallInOrder(acts[Len(acts)], Len(acts) < Len(acts))
  BY <1>2 DEF StackInOrder
<1>4. (Len(acts) < Len(acts)) = FALSE
  BY <1>1
<1>5. CallInOrder(acts[Len(acts)], FALSE)
  BY <1>3, <1>4 DEF CallInOrder
<1>6. acts[Len(acts)] \in SehCall
  BY <1>1, <1>2
<1>7. Top \in SehCall
  BY <1>1, <1>6
<1>8. CallInOrder(Top, FALSE)
  BY <1>1, <1>5
<1>9. Len(acts) >= 1
  BY <1>1
<1>10. Below = SubSeq(acts, 1, Len(acts) - 1)
  BY DEF Below, Front
<1> QED BY <1>1, <1>3, <1>7, <1>8, <1>9, <1>10

\* The call that called the handler on top goes on to the next frame.
LEMMA CallGoesOn ==
    ASSUME NEW c \in SehCall, c.call # "handler", CallInOrder(c, TRUE)
    PROVE  /\ [c EXCEPT !.next = @ - 1] \in SehCall
           /\ [c EXCEPT !.next = @ - 1].call = c.call
           /\ [c EXCEPT !.next = @ - 1].next = c.next - 1
           /\ c.next - 1 \in Nat
           /\ CallInOrder([c EXCEPT !.next = @ - 1], FALSE)
<1>1. c.next \in Nat /\ c.next # 0
  BY DEF SehCall, CallInOrder
<1>2. c.next - 1 \in Nat
  BY <1>1
<1> DEFINE d == [c EXCEPT !.next = @ - 1]
<1>3. CASE c.call = "dispatch"
  <2>1. c \in [call : {"dispatch"}, next : Nat, first : Nat, from : {"loop", "raise"},
               outer : SehState]
    BY <1>3 DEF SehCall
  <2>2. d \in SehCall /\ d.call = "dispatch" /\ d.next = c.next - 1
    BY <1>2, <2>1 DEF SehCall
  <2> QED BY <1>2, <1>3, <2>2 DEF CallInOrder
<1>4. CASE c.call = "unwind"
  <2>1. c \in [call : {"unwind"}, next : Nat, first : Nat, target : Nat, called : SUBSET Int]
    BY <1>4 DEF SehCall
  <2>2. d \in SehCall /\ d.call = "unwind" /\ d.next = c.next - 1 /\ d.first = c.first
        /\ d.target = c.target /\ d.called = c.called
    BY <1>2, <2>1 DEF SehCall
  <2>3. c.called = c.next .. (c.first - 1) /\ c.next # c.target /\ c.next < c.first
        /\ (c.target < c.first => c.target <= c.next) /\ c.target \in Nat /\ c.first \in Nat
    BY <1>4, <2>1 DEF CallInOrder
  <2> HIDE DEF d
  <2>4. d.next + 1 = c.next /\ d.next < d.first /\ (d.target < d.first => d.target <= d.next)
    BY <1>1, <2>2, <2>3
  <2>5. CallInOrder(d, FALSE)
    BY <2>2, <2>3, <2>4 DEF CallInOrder
  <2> QED BY <1>2, <1>4, <2>2, <2>5 DEF d
<1> QED BY <1>3, <1>4 DEF SehCall

-----------------------------------------------------------------------------
(* The steps of the dispatcher.                                            *)

\* Without calls in progress there is nothing to be in order.
LEMMA HaltInOrder == ChainInOrder(<<>>, head)
BY DEF ChainInOrder, StackInOrder

\* A handler on top ends, and the search or the unwind goes on after it.
LEMMA GoesOnInOrder ==
    ASSUME SehInv, Calling("handler"),
           acts' = Append(Front(Below), [Last(Below) EXCEPT !.next = @ - 1]),
           head' = head \/ head' = Last(Below).next - 1,
           Top.why # "search" => head' = Last(Below).next - 1,
           UNCHANGED seh
    PROVE  SehInv'
<1> DEFINE c == [Last(Below) EXCEPT !.next = @ - 1]
           s == Front(Below)
<1>1. StackInOrder(acts)
  BY DEF SehInv, ChainInOrder
<1>2. /\ Len(acts) \in Nat /\ Len(acts) >= 2 /\ s = SubSeq(acts, 1, Len(acts) - 2)
      /\ Last(Below) \in SehCall /\ CallInOrder(Last(Below), TRUE)
      /\ Last(Below).call = (IF Top.why = "search" THEN "dispatch" ELSE "unwind")
      /\ Len(acts) > 2 => acts[Len(acts) - 2].call = "handler"
  BY <1>1, BelowHandler
<1>3. /\ c \in SehCall /\ c.call = Last(Below).call /\ c.next = Last(Below).next - 1
      /\ c.next \in Nat /\ CallInOrder(c, FALSE) /\ c.call # "handler"
  BY <1>2, CallGoesOn
<1>4. Len(acts) - 2 \in 0 .. Len(acts) /\ (Len(acts) - 2 # 0 => acts[Len(acts) - 2].call = "handler")
  <2>1. \A n \in Nat : n >= 2 => n - 2 \in 0 .. n /\ (n - 2 # 0 => n > 2)
    OBVIOUS
  <2> QED BY <1>2, <2>1
<1>5. ChainInOrder(s, head)
  BY <1>1, <1>2, <1>4, StackCut
<1>6. acts \in Seq(SehCall)
  BY <1>1 DEF StackInOrder
<1>7. s # <<>> => s[Len(s)].call = "handler"
  BY <1>2, <1>4, <1>6
<1>8. head' \in Nat /\ (c.call = "unwind" => head' = c.next)
  BY <1>2, <1>3 DEF SehInv
<1> HIDE DEF c, s
<1>9. ChainInOrder(Append(s, c), head')
  BY <1>3, <1>5, <1>7, <1>8, StackCall DEF ChainInOrder
<1>10. acts' = Append(s, c)
  BY DEF c, s
<1> QED BY <1>8, <1>9, <1>10 DEF SehInv, ChainInOrder, StackInOrder

\* What is left of the stack, its top a handler: as it is, or landed.
LEMMA LeftInOrder ==
    ASSUME StackInOrder(acts), NEW n \in 0 .. Len(acts),
           n # 0 => acts[n].call = "handler",
           NEW s, s = SubSeq(acts, 1, n), NEW hd
    PROVE  ChainInOrder(s, hd) /\ ChainInOrder(Abandoned(s), hd)
<1>1. ChainInOrder(s, hd)
  BY StackCut
<1>2. CASE s = <<>>
  BY <1>1, <1>2 DEF Abandoned
<1>3. CASE s # <<>>
  <2>1. acts \in Seq(SehCall)
    BY DEF StackInOrder
  <2>2. Len(s) = n /\ s[n] = acts[n] /\ n # 0
    BY <1>3, <2>1
  <2>3. StackInOrder(s) /\ s[Len(s)].call = "handler"
    BY <1>1, <2>2 DEF ChainInOrder
  <2>4. ChainInOrder([s EXCEPT ![Len(s)].landed = TRUE], hd)
    BY <1>3, <2>3, StackLanded
  <2> QED BY <1>1, <1>3, <2>4 DEF Abandoned
<1> QED BY <1>1, <1>2, <1>3

\* A search ends with the exception handled.
LEMMA HandledInOrder ==
    ASSUME SehInv, Calling("handler"), Top.why = "search", NEW landed \in BOOLEAN,
           Handled(Last(Below), Front(Below), landed)
    PROVE  SehInv'
<1>1. StackInOrder(acts)
  BY DEF SehInv, ChainInOrder
<1>2. /\ Len(acts) \in Nat /\ Len(acts) >= 2 /\ Front(Below) = SubSeq(acts, 1, Len(acts) - 2)
      /\ Last(Below) \in SehCall /\ Last(Below).call = "dispatch"
      /\ Len(acts) > 2 => acts[Len(acts) - 2].call = "handler"
  BY <1>1, BelowHandler
<1>3. Len(acts) - 2 \in 0 .. Len(acts) /\ (Len(acts) - 2 # 0 => acts[Len(acts) - 2].call = "handler")
  <2>1. \A n \in Nat : n >= 2 => n - 2 \in 0 .. n /\ (n - 2 # 0 => n > 2)
    OBVIOUS
  <2> QED BY <1>2, <2>1
<1>4. /\ acts' = IF landed THEN Abandoned(Front(Below)) ELSE Front(Below)
      /\ seh' = Last(Below).outer /\ head' = head
  BY DEF Handled, AfterDispatch
<1>5. ChainInOrder(Front(Below), head) /\ ChainInOrder(Abandoned(Front(Below)), head)
  BY <1>1, <1>2, <1>3, LeftInOrder
<1>6. Last(Below).outer \in SehState
  BY <1>2 DEF SehCall
<1> QED BY <1>4, <1>5, <1>6 DEF SehInv, ChainInOrder, StackInOrder

\* The end of an unwind keeps the order of the calls in progress.
LEMMA UnwoundInOrder == ASSUME SehInv, Unwound PROVE SehInv'
<1>1. StackInOrder(acts) /\ Calling("unwind")
  BY DEF SehInv, ChainInOrder, Unwound
<1>2. /\ Len(acts) \in Nat /\ Len(acts) >= 1 /\ Below = SubSeq(acts, 1, Len(acts) - 1)
      /\ Len(acts) > 1 => acts[Len(acts) - 1].call = "handler"
  BY <1>1, BelowCall
<1>3. Len(acts) - 1 \in 0 .. Len(acts) /\ (Len(acts) - 1 # 0 => acts[Len(acts) - 1].call = "handler")
  <2>1. \A n \in Nat : n >= 1 => n - 1 \in 0 .. n /\ (n - 1 # 0 => n > 1)
    OBVIOUS
  <2> QED BY <1>2, <2>1
<1>4. acts' = Abandoned(Below) /\ UNCHANGED <<head, seh>>
  BY DEF Unwound, Abandoned
<1>5. ChainInOrder(Abandoned(Below), head)
  BY <1>1, <1>2, <1>3, LeftInOrder
<1> QED BY <1>4, <1>5 DEF SehInv, ChainInOrder, StackInOrder

\* A call of the host starts on an empty stack or above a handler.
LEMMA StartInOrder ==
    ASSUME SehInv, acts # <<>> => Calling("handler"),
           NEW c \in SehCall, c.call # "handler", CallInOrder(c, FALSE), acts' = Append(acts, c),
           head' \in Nat, c.call = "unwind" => head' = c.next, seh' \in SehState
    PROVE  SehInv'
<1>1. acts # <<>> => acts[Len(acts)].call = "handler"
  BY DEF Calling, Top, Last
<1>2. ChainInOrder(Append(acts, c), head')
  BY <1>1, StackCall DEF SehInv, ChainInOrder
<1> QED BY <1>2 DEF SehInv, ChainInOrder, StackInOrder

\* Calling the next handler of the chain does.
LEMMA DispatchInOrder ==
    ASSUME SehInv, acts # <<>> => Calling("handler"), NEW from \in {"loop", "raise"},
           Dispatch(from), head' = head
    PROVE  SehInv'
<1> DEFINE c == [call |-> "dispatch", next |-> head, first |-> head, from |-> from, outer |-> seh]
<1>1. c \in SehCall /\ c.call = "dispatch" /\ acts' = Append(acts, c)
      /\ seh' \in SehState /\ head' \in Nat
  BY DEF SehInv, SehCall, SehState, Dispatch
<1> HIDE DEF c
<1>2. CallInOrder(c, FALSE)
  BY <1>1 DEF CallInOrder
<1> QED BY <1>1, <1>2, StartInOrder

\* Beginning an unwind does.
LEMMA RtlUnwindInOrder ==
    ASSUME SehInv, acts # <<>> => Calling("handler"), NEW target \in Nat, RtlUnwind(target)
    PROVE  SehInv'
<1> DEFINE start == IF head \in {0, target} THEN head ELSE head - 1
           c == [call |-> "unwind", next |-> start, first |-> head, target |-> target, called |-> {}]
<1>1. head \in Nat /\ start \in Nat
  BY DEF SehInv
<1>2. /\ (start + 1) .. (head - 1) = {}
      /\ start < head \/ start \in {0, target}
      /\ target < head => target <= start
  BY <1>1
<1>3. acts' = Append(acts, c) /\ head' = start /\ seh' \in SehState
  BY DEF RtlUnwind, SehInv
<1> HIDE DEF start
<1>4. /\ c \in SehCall /\ c.call = "unwind" /\ c.next = start /\ c.first = head
      /\ c.target = target /\ c.called = {}
  BY <1>1 DEF SehCall
<1> HIDE DEF c
<1>5. CallInOrder(c, FALSE)
  BY <1>2, <1>4 DEF CallInOrder
<1> QED BY <1>1, <1>3, <1>4, <1>5, StartInOrder

\* A dispatch or an unwind calls a handler.
LEMMA AskInOrder == ASSUME SehInv, Ask PROVE SehInv'
<1> DEFINE h == Handler(Top.next, "search")
<1>1. StackInOrder(acts) /\ Calling("dispatch") /\ Top.next # 0
  BY DEF SehInv, ChainInOrder, Ask
<1>2. /\ Len(acts) \in Nat /\ Len(acts) >= 1 /\ Top = acts[Len(acts)] /\ Top \in SehCall
      /\ acts \in Seq(SehCall) /\ Top.call = "dispatch" /\ acts # <<>>
  BY <1>1, BelowCall DEF Calling, StackInOrder
<1>3. Top.next \in Nat
  BY <1>2 DEF SehCall
<1>4. h \in SehCall /\ h.call = "handler" /\ h.why = "search"
  BY <1>3 DEF Handler, SehCall
<1>5. CallInOrder(Top, TRUE)
  BY <1>1, <1>2 DEF CallInOrder
<1>6. [acts EXCEPT ![Len(acts)] = Top] = acts
  BY <1>2
<1>7. acts' = Append(acts, h) /\ UNCHANGED <<head, seh>>
  BY DEF Ask, Invoke
<1> HIDE DEF h
<1>8. ChainInOrder(acts', head)
  BY <1>1, <1>2, <1>4, <1>5, <1>6, <1>7, StackHandler
<1> QED BY <1>7, <1>8 DEF SehInv, ChainInOrder, StackInOrder

\* Unwinding one frame does.
LEMMA UnwindFrameInOrder == ASSUME SehInv, UnwindFrame PROVE SehInv'
<1> DEFINE h == Handler(Top.next, "unwind")
           c == [Top EXCEPT !.called = @ \cup {Top.next}]
<1>1. StackInOrder(acts) /\ Calling("unwind") /\ Top.next \notin {0, Top.target}
  BY DEF SehInv, ChainInOrder, UnwindFrame
<1>2. /\ Len(acts) \in Nat /\ Len(acts) >= 1 /\ Top = acts[Len(acts)] /\ CallInOrder(Top, FALSE)
      /\ acts \in Seq(SehCall) /\ Top.call = "unwind" /\ acts # <<>> /\ Top \in SehCall
  BY <1>1, BelowCall DEF Calling, StackInOrder
<1>3. Top \in [call : {"unwind"}, next : Nat, first : Nat, target : Nat, called : SUBSET Int]
  BY <1>2 DEF SehCall
<1>4. h \in SehCall /\ h.call = "handler" /\ h.why = "unwind"
  BY <1>3 DEF Handler, SehCall
<1>5. /\ c \in SehCall /\ c.call = "unwind" /\ c.next = Top.next /\ c.first = Top.first
      /\ c.target = Top.target /\ c.called = Top.called \cup {Top.next}
  BY <1>3 DEF SehCall
<1>6. acts' = Append([acts EXCEPT ![Len(acts)] = c], h) /\ UNCHANGED <<head, seh>>
  BY <1>2 DEF UnwindFrame
<1> HIDE DEF h, c
<1>7. CallInOrder(c, TRUE)
  <2>1. /\ Top.called = (Top.next + 1) .. (Top.first - 1)
        /\ Top.next < Top.first \/ Top.next \in {0, Top.target}
        /\ Top.target < Top.first => Top.target <= Top.next
    BY <1>2 DEF CallInOrder
  <2>2. Top.next \in Nat /\ Top.first \in Nat
    BY <1>3
  <2>3. Top.next < Top.first
    BY <1>1, <2>1
  <2>4. \A a, b \in Nat : a < b => ((a + 1) .. (b - 1)) \cup {a} = a .. (b - 1)
    OBVIOUS
  <2> QED BY <1>1, <1>5, <2>1, <2>2, <2>3, <2>4 DEF CallInOrder
<1>8. ChainInOrder(acts', head)
  BY <1>1, <1>2, <1>4, <1>5, <1>6, <1>7, StackHandler
<1> QED BY <1>6, <1>8 DEF SehInv, ChainInOrder, StackInOrder

\* The program ends, or goes on without any call in progress.
LEMMA EmptyInOrder ==
    ASSUME acts' = <<>>, head' \in Nat, seh' \in SehState PROVE SehInv'
BY DEF SehInv, ChainInOrder, StackInOrder

\* The fatal halt does: no call is left.
LEMMA FatalInOrder ==
    ASSUME SehInv, NEW calls, FatalHalt(calls), head' = head PROVE SehInv'
BY EmptyInOrder DEF FatalHalt, NoDispatch, SehState, SehInv

\* The return of a handler does, whatever it answers.
LEMMA HandlerEndsInOrder == ASSUME SehInv, HandlerEnds PROVE SehInv'
<1>1. CASE Continue
  BY <1>1, HandledInOrder DEF Continue, InSearch, InHandler
<1>2. CASE Search
  <2>1. Calling("handler") /\ Top.why = "search"
    BY <1>2 DEF Search, InSearch, InHandler
  <2>2. acts' = Append(Front(Below), [Last(Below) EXCEPT !.next = @ - 1]) /\ UNCHANGED <<head, seh>>
    BY <1>2 DEF Search, Declined
  <2> QED BY <2>1, <2>2, GoesOnInOrder
<1>3. CASE Crash
  <2>1. Calling("handler")
    BY <1>3 DEF Crash, InHandler
  <2>2. /\ acts' = Append(Front(Below), [Last(Below) EXCEPT !.next = @ - 1]) /\ UNCHANGED seh
        /\ IF Top.why = "search" THEN head' = head ELSE head' = Last(Below).next - 1
    BY <1>3 DEF Crash, Declined, Left
  <2> QED BY <2>1, <2>2, GoesOnInOrder
<1>4. CASE Timeout
  <2>1. CASE Top.why = "search" /\ Last(Below).from = "loop"
    <3>1. StackInOrder(acts) /\ Calling("handler")
      BY <1>4 DEF Timeout, InHandler, SehInv, ChainInOrder
    <3>2. Last(Below) \in SehCall /\ Last(Below).call = "dispatch"
      BY <2>1, <3>1, BelowHandler
    <3>3. Last(Below).outer \in SehState
      BY <3>2 DEF SehCall
    <3>4. acts' = <<>> /\ seh' = Last(Below).outer /\ head' = head
      BY <1>4, <2>1 DEF Timeout, AfterDispatch
    <3> QED BY <3>3, <3>4, EmptyInOrder DEF SehInv
  <2>2. CASE ~ (Top.why = "search" /\ Last(Below).from = "loop")
    BY <1>4, <2>2, FatalInOrder DEF Timeout
  <2> QED BY <2>1, <2>2
<1>5. CASE Take
  <2>1. Calling("handler") /\ RtlUnwind(Top.frame)
    BY <1>5 DEF Take, InSearch, InHandler
  <2>2. Top.frame \in Nat
    <3>1. StackInOrder(acts)
      BY DEF SehInv, ChainInOrder
    <3>2. Top \in SehCall /\ Top.call = "handler"
      BY <2>1, <3>1, BelowHandler DEF Calling
    <3> QED BY <3>2 DEF SehCall
  <2> QED BY <2>1, <2>2, RtlUnwindInOrder
<1>6. CASE Finally
  <2>1. Calling("handler")
    BY <1>6 DEF Finally, InHandler
  <2>2. /\ acts' = Append(Front(Below), [Last(Below) EXCEPT !.next = @ - 1]) /\ UNCHANGED seh
        /\ head' = Last(Below).next - 1
    BY <1>6 DEF Finally, Left, Popped
  <2> QED BY <2>1, <2>2, GoesOnInOrder
<1>7. CASE Noticed
  <2>1. Calling("handler")
    BY <1>7 DEF Noticed
  <2>2. CASE Top.why = "search"
    BY <1>7, <2>1, <2>2, HandledInOrder DEF Noticed
  <2>3. CASE Top.why # "search"
    <3>1. /\ acts' = Append(Front(Below), [Last(Below) EXCEPT !.next = @ - 1]) /\ UNCHANGED seh
          /\ head' = Last(Below).next - 1
      BY <1>7, <2>3 DEF Noticed, Left, Popped
    <3> QED BY <2>1, <3>1, GoesOnInOrder
  <2> QED BY <2>2, <2>3
<1> QED BY <1>1, <1>2, <1>3, <1>4, <1>5, <1>6, <1>7 DEF HandlerEnds

\* Every step keeps it.
LEMMA SehStep == SehInv /\ [SehNext]_sehVars => SehInv'
<1> SUFFICES ASSUME SehInv, [SehNext]_sehVars PROVE SehInv'
  OBVIOUS
<1>1. CASE UNCHANGED sehVars
  BY <1>1 DEF sehVars, SehInv, ChainInOrder, StackInOrder
<1>2. CASE EnterTry \/ LeaveTry
  <2>1. acts' = <<>> /\ UNCHANGED seh
    BY <1>2 DEF EnterTry, LeaveTry
  <2>2. head' \in Nat
    BY <1>2 DEF EnterTry, LeaveTry, SehInv
  <2> QED BY <2>1, <2>2, EmptyInOrder DEF SehInv
<1>3. CASE Exit
  BY <1>3, FatalInOrder DEF Exit
<1>4. CASE Fault
  BY <1>4, DispatchInOrder DEF Fault
<1>5. CASE Raise
  BY <1>5, DispatchInOrder DEF Raise, InProgram, InHandler
<1>6. CASE Jump
  <2>1. PICK f \in 1 .. head : RtlUnwind(f)
    BY <1>6 DEF Jump
  <2>2. f \in Nat /\ acts = <<>>
    BY <1>6 DEF Jump, SehInv
  <2> QED BY <2>1, <2>2, RtlUnwindInOrder
<1>7. CASE Exhausted
  <2>1. CASE Top.from = "loop"
    <3>1. StackInOrder(acts) /\ Calling("dispatch")
      BY <1>7 DEF Exhausted, SehInv, ChainInOrder
    <3>2. Top \in SehCall /\ Top.call = "dispatch"
      BY <3>1, BelowCall DEF Calling
    <3>3. Top.outer \in SehState
      BY <3>2 DEF SehCall
    <3>4. acts' = <<>> /\ seh' = Top.outer /\ head' = head
      BY <1>7, <2>1 DEF Exhausted, Unhandled, AfterDispatch
    <3> QED BY <3>3, <3>4, EmptyInOrder DEF SehInv
  <2>2. CASE Top.from # "loop"
    BY <1>7, <2>2, FatalInOrder DEF Exhausted, Unhandled
  <2> QED BY <2>1, <2>2
<1> QED BY <1>1, <1>2, <1>3, <1>4, <1>5, <1>6, <1>7, AskInOrder, UnwindFrameInOrder,
           UnwoundInOrder, HandlerEndsInOrder
        DEF SehNext, RaiseException, Int3

\* An unwind that is done has called the handler of every frame it left, but
\* the one at the head, exactly these, and the chain begins with its target,
\* however deep the handlers it called nest exceptions and unwinds of their
\* own, crash, or leave for an __except block (seh.py, _rtl_unwind).
THEOREM UnwindsSafe == SehSpec => []FinallyRuns
<1>1. SehInit => SehInv
  BY DEF SehInit, SehInv, SehState, NoDispatch, ChainInOrder, StackInOrder
<1>2. SehInv => FinallyRuns
  <2> SUFFICES ASSUME SehInv, Calling("unwind"), Top.next \in {0, Top.target}, Top.target < Top.first
               PROVE  Top.called = (Top.target + 1) .. (Top.first - 1) /\ head = Top.target
    BY DEF FinallyRuns
  <2>1. StackInOrder(acts)
    BY DEF SehInv, ChainInOrder
  <2>2. /\ Top = acts[Len(acts)] /\ Top \in SehCall /\ CallInOrder(Top, FALSE)
        /\ Top.call = "unwind" /\ acts # <<>>
    BY <2>1, BelowCall DEF Calling
  <2>3. Top.next \in Nat /\ Top.target \in Nat
    BY <2>2 DEF SehCall
  <2>4. Top.called = (Top.next + 1) .. (Top.first - 1) /\ Top.target <= Top.next
    BY <2>2 DEF CallInOrder
  <2>5. Top.next = Top.target
    BY <2>3, <2>4
  <2>6. head = Top.next
    BY <2>2 DEF SehInv, ChainInOrder
  <2> QED BY <2>4, <2>5, <2>6
<1> QED BY <1>1, <1>2, SehStep, PTL DEF SehSpec

-----------------------------------------------------------------------------
(***************************************************************************)
(* A text in a log file is noticed, for any alphabet, any text and any     *)
(* splitting of the file among the polls: the letters a trigger keeps are  *)
(* enough, for a text that begins before them would have ended before the  *)
(* last read.                                                              *)
(***************************************************************************)

\* s and t have the same letters from here on, s at i + 1 and t at 1.
MatchesAt(s, t, i) == \A j \in 1 .. Len(t) : s[i + j] = t[j]

\* A text is in a file where its letters are.
LEMMA TextIsMatch ==
    ASSUME NEW S, NEW s \in Seq(S), NEW t \in Seq(S)
    PROVE  HasText(s, t) <=> \E i \in 0 .. Len(s) - Len(t) : MatchesAt(s, t, i)
<1>1. ASSUME NEW i \in 0 .. Len(s) - Len(t)
      PROVE  (SubSeq(s, i + 1, i + Len(t)) = t) <=> MatchesAt(s, t, i)
  <2> DEFINE u == SubSeq(s, i + 1, i + Len(t))
  <2>1. u \in Seq(S) /\ Len(u) = Len(t) /\ \A j \in 1 .. Len(t) : u[j] = s[i + j]
    <3>1. Len(t) \in Nat /\ Len(s) \in Nat /\ i \in Nat /\ i + Len(t) <= Len(s)
      OBVIOUS
    <3>2. /\ \A x \in i + 1 .. i + Len(t) : s[x] \in S
          /\ i + 1 \in Int /\ i + Len(t) \in Int
      BY <3>1
    <3>3. /\ u \in Seq(S) /\ Len(u) = IF i + 1 <= i + Len(t) THEN i + Len(t) - (i + 1) + 1 ELSE 0
          /\ \A j \in 1 .. i + Len(t) - (i + 1) + 1 : u[j] = s[i + 1 + j - 1]
      BY <3>1, <3>2, SubSeqProperties
    <3> HIDE DEF u
    <3>4. i + Len(t) - (i + 1) + 1 = Len(t) /\ Len(u) = Len(t)
      BY <3>1, <3>3
    <3>5. \A j \in Nat : i + 1 + j - 1 = i + j
      BY <3>1
    <3>6. ASSUME NEW j \in 1 .. Len(t) PROVE u[j] = s[i + j]
      BY <3>3, <3>4, <3>5
    <3> QED BY <3>3, <3>4, <3>6
  <2> HIDE DEF u
  <2>2. u = t <=> \A j \in 1 .. Len(t) : u[j] = t[j]
    BY <2>1, SeqEqual
  <2> QED BY <2>1, <2>2 DEF MatchesAt, u
<1> QED BY <1>1 DEF HasText

\* The last m letters of a sequence.
LEMMA LastLetters ==
    ASSUME NEW S, NEW s \in Seq(S), NEW m \in Nat
    PROVE  /\ LastN(s, m) \in Seq(S)
           /\ Len(LastN(s, m)) = IF Len(s) <= m THEN Len(s) ELSE m
           /\ \A i \in 1 .. Len(LastN(s, m)) :
                 LastN(s, m)[i] = s[i + (Len(s) - Len(LastN(s, m)))]
<1>1. CASE Len(s) <= m
  BY <1>1 DEF LastN
<1>2. CASE ~ Len(s) <= m
  <2> DEFINE u == SubSeq(s, Len(s) - m + 1, Len(s))
  <2>1. u \in Seq(S) /\ Len(u) = m /\ \A i \in 1 .. m : u[i] = s[i + (Len(s) - m)]
    BY <1>2
  <2> HIDE DEF u
  <2>2. LastN(s, m) = u
    BY <1>2 DEF LastN, u
  <2> QED BY <1>2, <2>1, <2>2
<1> QED BY <1>1, <1>2

\* c ends p, and is all of it or has m letters.
EndOf(c, p, m) ==
    /\ Len(c) = IF Len(p) <= m THEN Len(p) ELSE m
    /\ \A i \in 1 .. Len(c) : c[i] = p[i + (Len(p) - Len(c))]

\* What follows a text and what follows the end of it.
LEMMA EndFollowed ==
    ASSUME NEW S, NEW p \in Seq(S), NEW c \in Seq(S), NEW q \in Seq(S), NEW m \in Nat, EndOf(c, p, m)
    PROVE  /\ p \o q \in Seq(S) /\ c \o q \in Seq(S)
           /\ Len(p \o q) = Len(p) + Len(q) /\ Len(c \o q) = Len(c) + Len(q)
           /\ Len(c) <= Len(p)
           /\ \A i \in 1 .. Len(c) + Len(q) : (c \o q)[i] = (p \o q)[i + (Len(p) - Len(c))]
<1>1. Len(c) <= Len(p) /\ Len(c) \in Nat /\ Len(p) \in Nat /\ Len(q) \in Nat
  BY DEF EndOf
<1>2. ASSUME NEW i \in 1 .. Len(c) + Len(q) PROVE (c \o q)[i] = (p \o q)[i + (Len(p) - Len(c))]
  <2>1. CASE i <= Len(c)
    <3>1. i \in 1 .. Len(c) /\ i + (Len(p) - Len(c)) \in 1 .. Len(p)
      BY <1>1, <2>1
    <3>2. (c \o q)[i] = c[i] /\ (p \o q)[i + (Len(p) - Len(c))] = p[i + (Len(p) - Len(c))]
      BY <1>1, <3>1
    <3> QED BY <3>1, <3>2 DEF EndOf
  <2>2. CASE i > Len(c)
    BY <1>1, <2>2
  <2> QED BY <1>1, <2>1, <2>2
<1> QED BY <1>1, <1>2

\* A text that is not in p is in p \o q where it is in c \o q, if c is the end
\* of p that is one letter shorter than the text.
LEMMA TextAcrossReads ==
    ASSUME NEW S, NEW p \in Seq(S), NEW c \in Seq(S), NEW q \in Seq(S), NEW t \in Seq(S), t # <<>>,
           EndOf(c, p, Len(t) - 1), ~ HasText(p, t)
    PROVE  HasText(c \o q, t) <=> HasText(p \o q, t)
<1> DEFINE n == Len(t)
           k == Len(p) - Len(c)
<1>1. n \in Nat /\ n > 0 /\ n - 1 \in Nat /\ Len(p) \in Nat /\ Len(c) \in Nat /\ Len(q) \in Nat
  OBVIOUS
<1>2. /\ p \o q \in Seq(S) /\ c \o q \in Seq(S)
      /\ Len(p \o q) = Len(p) + Len(q) /\ Len(c \o q) = Len(c) + Len(q)
      /\ Len(c) <= Len(p)
      /\ \A i \in 1 .. Len(c) + Len(q) : (c \o q)[i] = (p \o q)[i + k]
  BY <1>1, EndFollowed
<1>3. ASSUME NEW i \in 0 .. Len(c \o q) - n, MatchesAt(c \o q, t, i)
      PROVE  i + k \in 0 .. Len(p \o q) - n /\ MatchesAt(p \o q, t, i + k)
  <2>1. i + k \in 0 .. Len(p \o q) - n
    BY <1>1, <1>2
  <2>2. ASSUME NEW j \in 1 .. n PROVE (p \o q)[i + k + j] = t[j]
    <3>1. i + j \in 1 .. Len(c) + Len(q) /\ i + j + k = i + k + j
      BY <1>1, <1>2
    <3> QED BY <1>2, <1>3, <3>1 DEF MatchesAt
  <2> QED BY <2>1, <2>2 DEF MatchesAt
<1>4. ASSUME NEW i \in 0 .. Len(p \o q) - n, MatchesAt(p \o q, t, i)
      PROVE  i - k \in 0 .. Len(c \o q) - n /\ MatchesAt(c \o q, t, i - k)
  <2>1. ASSUME i + n <= Len(p) PROVE FALSE
    <3>1. i \in 0 .. Len(p) - n
      BY <1>1, <2>1
    <3>2. \A j \in 1 .. n : (p \o q)[i + j] = p[i + j]
      BY <1>1, <2>1
    <3>3. MatchesAt(p, t, i)
      BY <1>4, <3>2 DEF MatchesAt
    <3> QED BY <3>1, <3>3, TextIsMatch
  <2>2. i >= k
    BY <1>1, <2>1 DEF EndOf
  <2>3. i - k \in 0 .. Len(c \o q) - n
    BY <1>1, <1>2, <2>2
  <2>4. ASSUME NEW j \in 1 .. n PROVE (c \o q)[i - k + j] = t[j]
    <3>1. i - k + j \in 1 .. Len(c) + Len(q) /\ i - k + j + k = i + j
      BY <1>1, <1>2, <2>3
    <3> QED BY <1>2, <1>4, <3>1 DEF MatchesAt
  <2> QED BY <2>3, <2>4 DEF MatchesAt
<1> HIDE DEF n, k
<1>5. HasText(c \o q, t) <=> \E i \in 0 .. Len(c \o q) - n : MatchesAt(c \o q, t, i)
  BY <1>2, TextIsMatch DEF n
<1>6. HasText(p \o q, t) <=> \E i \in 0 .. Len(p \o q) - n : MatchesAt(p \o q, t, i)
  BY <1>2, TextIsMatch DEF n
<1> QED BY <1>3, <1>4, <1>5, <1>6

\* ... and what is kept of c \o q is what would be kept of p \o q.
LEMMA EndAcrossReads ==
    ASSUME NEW S, NEW p \in Seq(S), NEW c \in Seq(S), NEW q \in Seq(S), NEW m \in Nat,
           EndOf(c, p, m)
    PROVE  LastN(c \o q, m) \in Seq(S) /\ EndOf(LastN(c \o q, m), p \o q, m)
<1> DEFINE w == c \o q
           z == p \o q
           u == LastN(w, m)
<1>1. Len(p) \in Nat /\ Len(c) \in Nat /\ Len(q) \in Nat
  OBVIOUS
<1>2. /\ w \in Seq(S) /\ Len(z) = Len(p) + Len(q) /\ Len(w) = Len(c) + Len(q)
      /\ \A i \in 1 .. Len(c) + Len(q) : w[i] = z[i + (Len(p) - Len(c))]
  BY <1>1, EndFollowed
<1> HIDE DEF w, z
<1>3. /\ u \in Seq(S) /\ Len(u) = IF Len(w) <= m THEN Len(w) ELSE m
      /\ \A i \in 1 .. Len(u) : u[i] = w[i + (Len(w) - Len(u))]
  BY <1>2, LastLetters
<1> HIDE DEF u
<1>4. Len(u) = IF Len(z) <= m THEN Len(z) ELSE m
  BY <1>1, <1>2, <1>3 DEF EndOf
<1>5. Len(u) \in Nat /\ Len(u) <= Len(w) /\ Len(w) \in Nat /\ Len(z) \in Nat
  BY <1>1, <1>2, <1>3
<1>6. ASSUME NEW i \in 1 .. Len(u) PROVE u[i] = z[i + (Len(z) - Len(u))]
  <2>1. i + (Len(w) - Len(u)) \in 1 .. Len(c) + Len(q)
    BY <1>2, <1>5
  <2>2. i + (Len(w) - Len(u)) + (Len(p) - Len(c)) = i + (Len(z) - Len(u))
    BY <1>1, <1>2, <1>5
  <2> QED BY <1>2, <1>3, <2>1, <2>2
<1>7. EndOf(u, z, m)
  BY <1>4, <1>6 DEF EndOf
<1> QED BY <1>3, <1>7 DEF u, w, z

\* What trigger i has read of the file; while the file only grows, it has
\* fired if the text is in that, and keeps the end of it.
ReadBy(i) == SubSeq(logFile, before + 1, trigger[i].offset)

TriggerRecord == [fired : BOOLEAN, offset : Nat, carry : Seq(Letter)]

Reads(i) ==
    /\ trigger[i] \in TriggerRecord
    /\ before <= trigger[i].offset /\ trigger[i].offset <= Len(logFile)
    /\ trigger[i].fired = HasText(ReadBy(i), Needle)
    /\ ~ trigger[i].fired => EndOf(trigger[i].carry, ReadBy(i), Len(Needle) - 1)

TriggersRead ==
    ~ replaced => /\ logFile \in Seq(Letter) /\ before \in Nat
                  /\ trigger = [i \in DOMAIN trigger |-> trigger[i]]
                  /\ \A i \in DOMAIN trigger : Reads(i)

\* The part of the log between two offsets.
LEMMA PartOfFile ==
    ASSUME NEW log \in Seq(Letter), NEW a \in Nat, NEW b \in Nat, a <= b, b <= Len(log)
    PROVE  /\ SubSeq(log, a + 1, b) \in Seq(Letter)
           /\ Len(SubSeq(log, a + 1, b)) = b - a
           /\ \A i \in 1 .. b - a : SubSeq(log, a + 1, b)[i] = log[a + i]
<1> DEFINE u == SubSeq(log, a + 1, b)
<1>1. \A x \in a + 1 .. b : log[x] \in Letter
  OBVIOUS
<1>2. /\ u \in Seq(Letter) /\ Len(u) = IF a + 1 <= b THEN b - (a + 1) + 1 ELSE 0
      /\ \A i \in 1 .. b - (a + 1) + 1 : u[i] = log[a + 1 + i - 1]
  <2>1. a + 1 \in Int /\ b \in Int
    OBVIOUS
  <2> QED BY <1>1, <2>1, SubSeqProperties
<1> HIDE DEF u
<1>3. b - (a + 1) + 1 = b - a /\ \A i \in Nat : a + 1 + i - 1 = a + i
  OBVIOUS
<1>4. Len(u) = b - a
  BY <1>2, <1>3
<1>5. ASSUME NEW i \in 1 .. b - a PROVE u[i] = log[a + i]
  BY <1>2, <1>3
<1> QED BY <1>2, <1>4, <1>5 DEF u

\* Two reads are one.
Joined(u, v, w) == u \o v = w
Part(log, a, b) == SubSeq(log, a + 1, b)

\* Two reads one after the other join to one.
LEMMA ReadsJoin ==
    ASSUME NEW log \in Seq(Letter), NEW a \in Nat, NEW b \in Nat, NEW c \in Nat,
           a <= b, b <= c, c <= Len(log)
    PROVE  Joined(Part(log, a, b), Part(log, b, c), Part(log, a, c))
<1> DEFINE u == SubSeq(log, a + 1, b)
           v == SubSeq(log, b + 1, c)
           w == SubSeq(log, a + 1, c)
<1>1. /\ u \in Seq(Letter) /\ Len(u) = b - a /\ \A i \in 1 .. b - a : u[i] = log[a + i]
      /\ v \in Seq(Letter) /\ Len(v) = c - b /\ \A i \in 1 .. c - b : v[i] = log[b + i]
      /\ w \in Seq(Letter) /\ Len(w) = c - a /\ \A i \in 1 .. c - a : w[i] = log[a + i]
  BY PartOfFile
<1> HIDE DEF u, v, w
<1>2. u \o v \in Seq(Letter) /\ Len(u \o v) = c - a
  BY <1>1
<1>3. ASSUME NEW i \in 1 .. c - a PROVE (u \o v)[i] = w[i]
  <2>1. (u \o v)[i] = IF i <= Len(u) THEN u[i] ELSE v[i - Len(u)]
    <3>1. i \in 1 .. Len(u) + Len(v)
      BY <1>1
    <3> QED BY <1>1, <3>1, ConcatProperties
  <2>2. CASE i <= Len(u)
    <3>1. i \in 1 .. b - a
      BY <1>1, <2>2
    <3> QED BY <1>1, <2>1, <2>2, <3>1
  <2>3. CASE ~ i <= Len(u)
    <3>1. i - Len(u) \in 1 .. c - b /\ b + (i - Len(u)) = a + i
      BY <1>1, <2>3
    <3> QED BY <1>1, <2>1, <2>3, <3>1
  <2> QED BY <2>2, <2>3
<1> QED BY <1>1, <1>2, <1>3, SeqEqual DEF u, v, w, Joined, Part

\* With the kept end, a read up to the end of the file finds the text if and
\* only if all that was read so far and now has it, and keeps the end of that.
LEMMA LastRead ==
    ASSUME NEW log \in Seq(Letter), NEW a \in Nat, NEW b \in Nat, NEW c \in Seq(Letter),
           NEW z \in Nat, NEW m \in Nat, z = Len(log), m = Len(Needle) - 1, a <= b, b <= z,
           ~ HasText(SubSeq(log, a + 1, b), Needle), EndOf(c, SubSeq(log, a + 1, b), m)
    PROVE  LET data == c \o SubSeq(log, b + 1, z)
               all == SubSeq(log, a + 1, z)
           IN  /\ HasText(data, Needle) <=> HasText(all, Needle)
               /\ LastN(data, m) \in Seq(Letter) /\ EndOf(LastN(data, m), all, m)
<1> DEFINE earlier == SubSeq(log, a + 1, b)
           new == SubSeq(log, b + 1, z)
           all == SubSeq(log, a + 1, z)
<1>0. z <= Len(log)
  OBVIOUS
<1>1. earlier \in Seq(Letter) /\ new \in Seq(Letter)
  BY <1>0, PartOfFile
<1>2. earlier \o new = all
  <2>1. Joined(Part(log, a, b), Part(log, b, z), Part(log, a, z))
    BY <1>0, ReadsJoin
  <2> QED BY <2>1 DEF Joined, Part
<1>3. ~ HasText(earlier, Needle) /\ EndOf(c, earlier, m) /\ EndOf(c, earlier, Len(Needle) - 1)
  OBVIOUS
<1> HIDE DEF earlier, new, all
<1>4. HasText(c \o new, Needle) <=> HasText(earlier \o new, Needle)
  BY <1>1, <1>3, AutomationAssumption, TextAcrossReads
<1>5. LastN(c \o new, m) \in Seq(Letter) /\ EndOf(LastN(c \o new, m), earlier \o new, m)
  BY <1>1, <1>3, EndAcrossReads
<1>6. /\ HasText(c \o new, Needle) <=> HasText(all, Needle)
      /\ LastN(c \o new, m) \in Seq(Letter) /\ EndOf(LastN(c \o new, m), all, m)
  BY <1>2, <1>4, <1>5
<1> QED BY <1>6 DEF new, all

\* What Reads says of a trigger, of the record r.
ReadUpTo(r, log, a) == SubSeq(log, a + 1, r.offset)

ReadsAs(r, log, a) ==
    /\ r \in TriggerRecord
    /\ a <= r.offset /\ r.offset <= Len(log)
    /\ r.fired = HasText(ReadUpTo(r, log, a), Needle)
    /\ ~ r.fired => EndOf(r.carry, ReadUpTo(r, log, a), Len(Needle) - 1)

\* A poll reads what was added.
LEMMA PollReads ==
    ASSUME logFile \in Seq(Letter), before \in Nat, NEW tr, ReadsAs(tr, logFile, before), ~ tr.fired
    PROVE  ReadsAs(Polled(tr), logFile, before)
<1> DEFINE z == Len(logFile)
           o == tr.offset
           c == tr.carry
           m == Len(Needle) - 1
           data == c \o SubSeq(logFile, o + 1, z)
           all == SubSeq(logFile, before + 1, z)
<1>1. /\ tr \in TriggerRecord /\ o \in Nat /\ c \in Seq(Letter) /\ z \in Nat /\ z = Len(logFile)
      /\ before <= o /\ o <= z /\ tr.fired = FALSE /\ m \in Nat /\ m = Len(Needle) - 1
  BY AutomationAssumption DEF ReadsAs, TriggerRecord
<1>2. ~ HasText(SubSeq(logFile, before + 1, o), Needle) /\ EndOf(c, SubSeq(logFile, before + 1, o), m)
  BY DEF ReadsAs, ReadUpTo
<1>3. Polled(tr) = IF o = z THEN tr
                   ELSE IF HasText(data, Needle) THEN [tr EXCEPT !.fired = TRUE, !.offset = z]
                   ELSE [tr EXCEPT !.offset = z, !.carry = LastN(data, m)]
  <2>1. ~ z < o
    BY <1>1
  <2>2. [tr EXCEPT !.offset = o, !.carry = @] = tr
    BY <1>1 DEF TriggerRecord
  <2> QED BY <2>1, <2>2 DEF Polled
<1> HIDE DEF z, o, c, m
<1>4. /\ HasText(data, Needle) <=> HasText(all, Needle)
      /\ LastN(data, m) \in Seq(Letter) /\ EndOf(LastN(data, m), all, m)
  BY <1>1, <1>2, LastRead
<1>5. HasText(data, Needle) \in BOOLEAN /\ HasText(all, Needle) \in BOOLEAN
  BY DEF HasText
<1>6. before <= z /\ z <= Len(logFile)
  BY <1>1
<1> HIDE DEF data
<1>7. CASE o # z /\ HasText(data, Needle)
  <2> DEFINE r == [tr EXCEPT !.fired = TRUE, !.offset = z]
  <2>1. r \in TriggerRecord /\ r.fired = TRUE /\ r.offset = z
    BY <1>1 DEF TriggerRecord
  <2>2. Polled(tr) = r
    BY <1>3, <1>7
  <2> HIDE DEF r
  <2>3. HasText(all, Needle) = TRUE
    BY <1>4, <1>5, <1>7
  <2>4. ReadUpTo(r, logFile, before) = all
    BY <2>1 DEF ReadUpTo
  <2> HIDE DEF all
  <2>5. ReadsAs(r, logFile, before)
    BY <1>6, <2>1, <2>3, <2>4 DEF ReadsAs
  <2> QED BY <2>2, <2>5
<1>8. CASE o # z /\ ~ HasText(data, Needle)
  <2> DEFINE r == [tr EXCEPT !.offset = z, !.carry = LastN(data, m)]
  <2>1. r \in TriggerRecord /\ r.fired = FALSE /\ r.offset = z /\ r.carry = LastN(data, m)
    BY <1>1, <1>4 DEF TriggerRecord
  <2>2. Polled(tr) = r
    BY <1>3, <1>8
  <2> HIDE DEF r
  <2>3. HasText(all, Needle) = FALSE
    BY <1>4, <1>5, <1>8
  <2>4. ReadUpTo(r, logFile, before) = all
    BY <2>1 DEF ReadUpTo
  <2>5. EndOf(r.carry, all, Len(Needle) - 1)
    BY <1>4, <2>1 DEF m
  <2> HIDE DEF all
  <2>6. ReadsAs(r, logFile, before)
    BY <1>6, <2>1, <2>3, <2>4, <2>5 DEF ReadsAs
  <2> QED BY <2>2, <2>6
<1>9. CASE o = z
  BY <1>3, <1>9
<1> QED BY <1>7, <1>8, <1>9

\* Only a poll moves a trigger, and only an append moves the file under it.
LEMMA TriggersStep ==
    ASSUME NEW inputs, TriggersRead, [AutoNext(inputs)]_autoVars PROVE TriggersRead'
<1>1. CASE UNCHANGED <<logFile, before, replaced, trigger>>
  BY <1>1 DEF TriggersRead, Reads, ReadBy
<1>2. CASE Rewrite
  BY <1>2 DEF Rewrite, TriggersRead
<1>3. ASSUME NEW letter \in Letter, Log(letter) PROVE TriggersRead'
  <2> SUFFICES ASSUME ~ replaced' PROVE TriggersRead'
    BY DEF TriggersRead
  <2>1. /\ ~ replaced /\ logFile \in Seq(Letter) /\ before \in Nat
        /\ logFile' = Append(logFile, letter) /\ UNCHANGED <<before, trigger>>
    BY <1>3 DEF Log, TriggersRead
  <2>2. /\ logFile' \in Seq(Letter) /\ Len(logFile') = Len(logFile) + 1
        /\ \A j \in 1 .. Len(logFile) : logFile'[j] = logFile[j]
    BY <2>1
  <2>3. ASSUME NEW i \in DOMAIN trigger PROVE Reads(i)'
    <3> DEFINE o == trigger[i].offset
    <3>1. Reads(i) /\ o \in Nat /\ before <= o /\ o <= Len(logFile)
      BY <2>1 DEF TriggersRead, Reads, TriggerRecord
    <3> HIDE DEF o
    <3>2. SubSeq(logFile', before + 1, o) = SubSeq(logFile, before + 1, o)
      <4> DEFINE u == SubSeq(logFile, before + 1, o)
                 v == SubSeq(logFile', before + 1, o)
      <4>1. /\ u \in Seq(Letter) /\ Len(u) = o - before
            /\ \A j \in 1 .. o - before : u[j] = logFile[before + j]
        BY <2>1, <3>1, PartOfFile
      <4>2. /\ v \in Seq(Letter) /\ Len(v) = o - before
            /\ \A j \in 1 .. o - before : v[j] = logFile'[before + j]
        <5>1. o <= Len(logFile')
          BY <2>1, <2>2, <3>1
        <5> DEFINE log == logFile'
        <5>2. log \in Seq(Letter) /\ o <= Len(log)
          BY <2>2, <5>1
        <5> HIDE DEF log
        <5>3. /\ SubSeq(log, before + 1, o) \in Seq(Letter)
              /\ Len(SubSeq(log, before + 1, o)) = o - before
              /\ \A j \in 1 .. o - before : SubSeq(log, before + 1, o)[j] = log[before + j]
          BY <2>1, <3>1, <5>2, PartOfFile
        <5> QED BY <5>3 DEF log
      <4> HIDE DEF u, v
      <4>3. \A j \in 1 .. o - before : before + j \in 1 .. Len(logFile)
        BY <2>1, <3>1
      <4>4. \A j \in 1 .. o - before : v[j] = u[j]
        BY <2>2, <4>1, <4>2, <4>3
      <4> QED BY <4>1, <4>2, <4>4, SeqEqual DEF u, v
    <3>3. ReadBy(i)' = ReadBy(i)
      BY <2>1, <3>2 DEF ReadBy, o
    <3>4. trigger'[i].offset <= Len(logFile')
      BY <2>1, <2>2, <3>1 DEF o
    <3> QED BY <2>1, <3>1, <3>3, <3>4 DEF Reads
  <2> QED BY <2>1, <2>2, <2>3 DEF TriggersRead
<1>4. ASSUME NEW dt \in Turns, Turn(dt) PROVE TriggersRead'
  <2> SUFFICES ASSUME ~ replaced' PROVE TriggersRead'
    BY DEF TriggersRead
  <2>1. /\ ~ replaced /\ PollTrigger /\ UNCHANGED <<logFile, before>>
        /\ trigger = [i \in DOMAIN trigger |-> trigger[i]]
        /\ logFile \in Seq(Letter) /\ before \in Nat
    BY <1>4 DEF Turn, TriggersRead
  <2>2. CASE ~ AtFileStep
    BY <1>1, <1>4, <2>1, <2>2 DEF PollTrigger, Turn
  <2>3. CASE AtFileStep
    <3>1. /\ trigger' = [trigger EXCEPT ![chain.step] = Polled(@)]
          /\ ~ trigger[chain.step].fired
      BY <2>1, <2>3 DEF PollTrigger, AtFileStep
    <3>2. DOMAIN trigger' = DOMAIN trigger /\ trigger' = [i \in DOMAIN trigger' |-> trigger'[i]]
      BY <2>1, <3>1
    <3>3. ASSUME NEW i \in DOMAIN trigger PROVE Reads(i)'
      <4>1. CASE i = chain.step
        <5>1. trigger'[i] = Polled(trigger[i]) /\ ~ trigger[i].fired
          BY <3>1, <4>1
        <5>2. ReadsAs(trigger[i], logFile, before)
          BY <2>1 DEF TriggersRead, Reads, ReadBy, ReadsAs, ReadUpTo
        <5>3. ReadsAs(trigger'[i], logFile, before)
          BY <2>1, <5>1, <5>2, PollReads
        <5> QED BY <2>1, <5>3 DEF Reads, ReadBy, ReadsAs, ReadUpTo
      <4>2. CASE i # chain.step
        <5>1. trigger'[i] = trigger[i] /\ Reads(i)
          BY <2>1, <3>1, <4>2 DEF TriggersRead
        <5> QED BY <2>1, <5>1 DEF Reads, ReadBy
      <4> QED BY <4>1, <4>2
    <3> QED BY <2>1, <3>2, <3>3 DEF TriggersRead
  <2> QED BY <2>2, <2>3
<1>5. ASSUME NEW what \in Request, AskFor(what) PROVE TriggersRead'
  BY <1>1, <1>5 DEF AskFor
<1> QED BY <1>1, <1>2, <1>3, <1>4, <1>5 DEF AutoNext, SomeTurn, autoVars

\* Nothing is read at the start.
LEMMA TriggersStart == ASSUME NEW inputs, AutoInit(inputs) PROVE TriggersRead
<1>1. Needle \in Seq(Letter) /\ Len(Needle) \in Nat /\ Len(Needle) > 0 /\ Head(Needle) \in Letter
  BY AutomationAssumption
<1>2. logFile \in Seq(Letter) /\ before = Len(logFile) /\ before \in Nat
  <2>1. logFile \in {<<>>, <<Head(Needle)>>, Needle} /\ before = Len(logFile)
    BY DEF AutoInit
  <2>2. logFile = <<>> \/ logFile = <<Head(Needle)>> \/ logFile = Needle
    BY <2>1
  <2>3. <<>> \in Seq(Letter) /\ <<Head(Needle)>> \in Seq(Letter)
    BY <1>1
  <2>4. logFile \in Seq(Letter)
    BY <1>1, <2>2, <2>3
  <2> QED BY <2>1, <2>4
<1>3. trigger = [i \in DOMAIN AutoSteps |-> [fired |-> FALSE, offset |-> before, carry |-> <<>>]]
  BY DEF AutoInit
<1>4. ASSUME NEW i \in DOMAIN trigger PROVE Reads(i)
  <2>1. trigger[i] = [fired |-> FALSE, offset |-> before, carry |-> <<>>]
    BY <1>3
  <2>2. trigger[i] \in TriggerRecord
    BY <1>2, <2>1 DEF TriggerRecord
  <2>3. ReadBy(i) \in Seq(Letter) /\ Len(ReadBy(i)) = 0
    BY <1>2, <2>1, PartOfFile DEF ReadBy
  <2>4. HasText(ReadBy(i), Needle) = FALSE
    <3>1. 0 .. Len(ReadBy(i)) - Len(Needle) = {}
      BY <1>1, <2>3
    <3> QED BY <3>1 DEF HasText
  <2>5. EndOf(<<>>, ReadBy(i), Len(Needle) - 1)
    BY <1>1, <2>3 DEF EndOf
  <2>6. trigger[i].fired = FALSE /\ trigger[i].offset = before /\ trigger[i].carry = <<>>
    BY <2>1
  <2>7. before <= before /\ before <= Len(logFile)
    BY <1>2
  <2>8. trigger[i].fired = HasText(ReadBy(i), Needle)
    BY <2>4, <2>6
  <2> QED BY <2>2, <2>5, <2>6, <2>7, <2>8 DEF Reads
<1> QED BY <1>2, <1>3, <1>4 DEF TriggersRead

\* A trigger that has read all of a file that only grew has fired if and only
\* if the text was added since the start, wherever its reads split the file,
\* for every text, every file and every length of the turns (file_trigger.py).
THEOREM TextNoticed ==
    ASSUME NEW inputs PROVE AutoSpec(inputs) => []TextIsNoticed
<1>1. AutoInit(inputs) => TriggersRead
  BY TriggersStart
<1>2. TriggersRead /\ [AutoNext(inputs)]_autoVars => TriggersRead'
  BY TriggersStep
<1>3. TriggersRead => TextIsNoticed
  BY DEF TriggersRead, TextIsNoticed, Reads, ReadBy
<1> QED BY <1>1, <1>2, <1>3, PTL DEF AutoSpec

-----------------------------------------------------------------------------
(***************************************************************************)
(* What the user does.  The entries that are queued, replayed on what was  *)
(* drained, lead to the mouse: an entry that is added adds what the mouse  *)
(* moves, and entries that are taken are replayed first and not again.     *)
(***************************************************************************)

MouseAt == [pos : [Axis -> Int], buttons : [Button -> BOOLEAN]]
MouseEntry == (Axis \X Int) \cup (Button \X BOOLEAN)

\* The entry of a motion, and that of a button.
LEMMA ReplayedEntry ==
    ASSUME NEW base \in MouseAt
    PROVE  /\ \A a \in Axis, d \in Int :
                 /\ <<a, d>> \in MouseEntry
                 /\ Replayed(base, <<a, d>>) = [base EXCEPT !.pos[a] = @ + d]
                 /\ Replayed(base, <<a, d>>) \in MouseAt
           /\ \A b \in Button, d \in BOOLEAN :
                 /\ <<b, d>> \in MouseEntry
                 /\ Replayed(base, <<b, d>>) = [base EXCEPT !.buttons[b] = d]
                 /\ Replayed(base, <<b, d>>) \in MouseAt
<1>1. ASSUME NEW a \in Axis, NEW d \in Int
      PROVE  /\ <<a, d>> \in MouseEntry
             /\ Replayed(base, <<a, d>>) = [base EXCEPT !.pos[a] = @ + d]
             /\ Replayed(base, <<a, d>>) \in MouseAt
  <2>1. Replayed(base, <<a, d>>) = [base EXCEPT !.pos[a] = @ + d]
    BY DEF Replayed
  <2>2. base.pos \in [Axis -> Int] /\ base.pos[a] + d \in Int
    BY DEF MouseAt
  <2>3. [base.pos EXCEPT ![a] = @ + d] \in [Axis -> Int]
    BY <2>2
  <2>4. [base EXCEPT !.pos[a] = @ + d] = [base EXCEPT !.pos = [base.pos EXCEPT ![a] = @ + d]]
    OBVIOUS
  <2> QED BY <2>1, <2>3, <2>4 DEF MouseAt, MouseEntry
<1>2. ASSUME NEW b \in Button, NEW d \in BOOLEAN
      PROVE  /\ <<b, d>> \in MouseEntry
             /\ Replayed(base, <<b, d>>) = [base EXCEPT !.buttons[b] = d]
             /\ Replayed(base, <<b, d>>) \in MouseAt
  <2>1. b \notin Axis
    BY InputAssumption
  <2>2. Replayed(base, <<b, d>>) = [base EXCEPT !.buttons[b] = d]
    BY <2>1 DEF Replayed
  <2>3. base.buttons \in [Button -> BOOLEAN]
    BY DEF MouseAt
  <2>4. [base.buttons EXCEPT ![b] = d] \in [Button -> BOOLEAN]
    BY <2>3
  <2>5. [base EXCEPT !.buttons[b] = d] = [base EXCEPT !.buttons = [base.buttons EXCEPT ![b] = d]]
    OBVIOUS
  <2> QED BY <2>2, <2>4, <2>5 DEF MouseAt, MouseEntry
<1> QED BY <1>1, <1>2

\* Any entry leads from one mouse to another.
LEMMA ReplayedIsMouse ==
    ASSUME NEW base \in MouseAt, NEW e \in MouseEntry
    PROVE  Replayed(base, e) \in MouseAt
<1>1. CASE e \in Axis \X Int
  <2>1. PICK a \in Axis, d \in Int : e = <<a, d>>
    BY <1>1
  <2> QED BY <2>1, ReplayedEntry
<1>2. CASE e \in Button \X BOOLEAN
  <2>1. PICK b \in Button, d \in BOOLEAN : e = <<b, d>>
    BY <1>2
  <2> QED BY <2>1, ReplayedEntry
<1> QED BY <1>1, <1>2 DEF MouseEntry

\* h has the mouse after each entry.
IsReplay(h, base, s) ==
    /\ h \in [0 .. Len(s) -> MouseAt]
    /\ h[0] = base
    /\ \A i \in 1 .. Len(s) : h[i] = Replayed(h[i - 1], s[i])

\* There is one such, and the fold has its last value.
LEMMA ReplayExists ==
    ASSUME NEW base \in MouseAt, NEW s \in Seq(MouseEntry)
    PROVE  \E h : IsReplay(h, base, s) /\ FoldLeft(Replayed, base, s) = h[Len(s)]
<1> DEFINE N == Len(s)
           G == [x \in MouseAt \X Nat |-> IF x[2] \in 1 .. N THEN Replayed(x[1], s[x[2]]) ELSE x[1]]
           Folds(it) == it = [T \in SUBSET (1 .. N) |->
                                IF T = {} THEN base ELSE Replayed(it[T \ {Max(T)}], s[Max(T)])]
           fold == CHOOSE it : Folds(it)
<1>1. N \in Nat /\ DOMAIN s = 1 .. N /\ \A i \in 1 .. N : s[i] \in MouseEntry
  OBVIOUS
<1>2. G \in [MouseAt \X Nat -> MouseAt]
  <2>1. ASSUME NEW x \in MouseAt \X Nat
        PROVE  (IF x[2] \in 1 .. N THEN Replayed(x[1], s[x[2]]) ELSE x[1]) \in MouseAt
    BY <1>1, ReplayedIsMouse
  <2> QED BY <2>1
<1>3. \A T \in SUBSET (1 .. N) : T # {} => Max(T) \in T /\ T \ {Max(T)} \in SUBSET (1 .. N)
  BY <1>1, LargestOf
<1>4. FoldLeft(Replayed, base, s) = fold[1 .. N]
  BY <1>1 DEF FoldLeft, MapThenFoldSet
<1>5. \E it : Folds(it)
  <2>1. PICK it : FoldsBy(it, MouseAt, base, G, N)
    <3> HIDE DEF G, N
    <3> QED BY <1>1, <1>2, FoldExists
  <2>2. it \in [SUBSET (1 .. N) -> MouseAt]
    BY <2>1 DEF FoldsBy
  <2>3. ASSUME NEW T \in SUBSET (1 .. N)
        PROVE  it[T] = IF T = {} THEN base ELSE Replayed(it[T \ {Max(T)}], s[Max(T)])
    <3>1. CASE T # {}
      <4>1. Max(T) \in 1 .. N /\ it[T \ {Max(T)}] \in MouseAt
        BY <1>3, <2>2, <3>1
      <4> DEFINE x == <<it[T \ {Max(T)}], Max(T)>>
      <4>2. x \in MouseAt \X Nat /\ x[1] = it[T \ {Max(T)}] /\ x[2] = Max(T)
        BY <1>1, <4>1
      <4> HIDE DEF x
      <4>3. G[x] = Replayed(x[1], s[x[2]])
        BY <4>1, <4>2
      <4>4. it[T] = G[x]
        BY <2>1, <3>1 DEF FoldsBy, x
      <4> HIDE DEF G
      <4> QED BY <3>1, <4>2, <4>3, <4>4
    <3>2. CASE T = {}
      BY <2>1, <3>2 DEF FoldsBy
    <3> QED BY <3>1, <3>2
  <2>4. it = [T \in SUBSET (1 .. N) |-> it[T]]
    BY <2>2
  <2>5. Folds(it)
    BY <2>3, <2>4, Zenon
  <2> QED BY <2>5
<1>6. Folds(fold)
  BY <1>5
<1> HIDE DEF fold
<1>7. \A T \in SUBSET (1 .. N) :
         fold[T] = IF T = {} THEN base ELSE Replayed(fold[T \ {Max(T)}], s[Max(T)])
  BY <1>6, Zenon
<1> HIDE DEF Folds, G
<1> DEFINE h == [i \in 0 .. N |-> fold[1 .. i]]
<1>8. h[0] = base
  <2>1. 1 .. 0 = {} /\ 0 \in 0 .. N
    BY <1>1
  <2> QED BY <1>7, <2>1
<1>9. ASSUME NEW i \in 1 .. N PROVE h[i] = Replayed(h[i - 1], s[i])
  <2>1. /\ 1 .. i \in SUBSET (1 .. N) /\ 1 .. i # {} /\ (1 .. i) \ {i} = 1 .. i - 1
        /\ i \in 0 .. N /\ i - 1 \in 0 .. N
    <3> HIDE DEF N, h
    <3>1. i \in Nat /\ 1 <= i /\ i <= N
      BY <1>1
    <3>2. i \in 0 .. N /\ i - 1 \in 0 .. N
      BY <1>1, <3>1
    <3>3. 1 .. i \in SUBSET (1 .. N) /\ i \in 1 .. i
      BY <1>1, <3>1
    <3>4. (1 .. i) \ {i} = 1 .. i - 1
      BY <3>1
    <3> QED BY <3>2, <3>3, <3>4
  <2>2. Max(1 .. i) = i
    <3>1. 1 .. i \in SUBSET Int /\ i \in 1 .. i /\ \A x \in 1 .. i : x <= i
      OBVIOUS
    <3> QED BY <3>1, LargestIsMax
  <2>3. fold[1 .. i] = Replayed(fold[1 .. i - 1], s[i])
    BY <1>7, <2>1, <2>2
  <2> QED BY <2>1, <2>3
<1>10. h[N] = fold[1 .. N]
  BY <1>1
<1> HIDE DEF h, N
<1>11. \A i \in 0 .. N : h[i] \in MouseAt
  <2> DEFINE S == {n \in Nat : n <= N => h[n] \in MouseAt}
  <2>1. 0 \in S
    BY <1>8
  <2>2. ASSUME NEW n \in S PROVE n + 1 \in S
    <3>1. CASE n + 1 <= N
      <4>1. n + 1 \in 1 .. N /\ (n + 1) - 1 = n /\ n <= N
        BY <1>1, <3>1
      <4>2. h[n + 1] = Replayed(h[n], s[n + 1]) /\ s[n + 1] \in MouseEntry
        BY <1>1, <1>9, <4>1
      <4> QED BY <4>1, <4>2, ReplayedIsMouse
    <3> QED BY <3>1
  <2>3. S = Nat
    <3>1. S \in SUBSET Nat
      OBVIOUS
    <3> HIDE DEF S
    <3> QED BY <2>1, <2>2, <3>1, Induction
  <2> QED BY <1>1, <2>3
<1>12. h = [i \in 0 .. N |-> h[i]]
  BY DEF h
<1>13. h \in [0 .. N -> MouseAt]
  BY <1>11, <1>12
<1>14. IsReplay(h, base, s)
  BY <1>8, <1>9, <1>13 DEF IsReplay, N
<1> QED BY <1>4, <1>10, <1>14 DEF N

\* There is only one.
LEMMA ReplayValue ==
    ASSUME NEW base \in MouseAt, NEW s \in Seq(MouseEntry), NEW h, IsReplay(h, base, s)
    PROVE  FoldLeft(Replayed, base, s) = h[Len(s)] /\ FoldLeft(Replayed, base, s) \in MouseAt
<1>1. PICK g : IsReplay(g, base, s) /\ FoldLeft(Replayed, base, s) = g[Len(s)]
  BY ReplayExists
<1> DEFINE N == Len(s)
           S == {n \in Nat : n <= N => h[n] = g[n]}
<1>2. N \in Nat
  OBVIOUS
<1>3. /\ h[0] = g[0] /\ h \in [0 .. N -> MouseAt]
      /\ \A i \in 1 .. N : h[i] = Replayed(h[i - 1], s[i]) /\ g[i] = Replayed(g[i - 1], s[i])
  BY <1>1 DEF IsReplay
<1> HIDE DEF N
<1>4. 0 \in S
  BY <1>3
<1>5. ASSUME NEW n \in S PROVE n + 1 \in S
  <2>1. CASE n + 1 <= N
    <3>1. n + 1 \in 1 .. N /\ (n + 1) - 1 = n /\ h[n] = g[n]
      BY <1>2, <2>1
    <3> QED BY <1>3, <3>1
  <2> QED BY <2>1
<1>6. S = Nat
  <2>1. S \in SUBSET Nat
    OBVIOUS
  <2> HIDE DEF S
  <2> QED BY <1>4, <1>5, <2>1, Induction
<1>7. h[N] = g[N] /\ h[N] \in MouseAt
  BY <1>2, <1>3, <1>6
<1> QED BY <1>1, <1>7 DEF N

\* Nothing, and one entry more.
LEMMA ReplayAppend ==
    ASSUME NEW base \in MouseAt, NEW s \in Seq(MouseEntry), NEW e \in MouseEntry
    PROVE  FoldLeft(Replayed, base, Append(s, e)) = Replayed(FoldLeft(Replayed, base, s), e)
<1> DEFINE N == Len(s)
           longer == Append(s, e)
<1>1. PICK h : IsReplay(h, base, s) /\ FoldLeft(Replayed, base, s) = h[Len(s)]
  BY ReplayExists
<1>2. /\ N \in Nat /\ longer \in Seq(MouseEntry) /\ Len(longer) = N + 1 /\ longer[N + 1] = e
      /\ \A i \in 1 .. N : longer[i] = s[i]
  OBVIOUS
<1>3. /\ h \in [0 .. N -> MouseAt] /\ h[0] = base
      /\ \A i \in 1 .. N : h[i] = Replayed(h[i - 1], s[i])
  BY <1>1 DEF IsReplay
<1> HIDE DEF N, longer
<1> DEFINE k == [i \in 0 .. N + 1 |-> IF i = N + 1 THEN Replayed(h[N], e) ELSE h[i]]
<1>4. k \in [0 .. N + 1 -> MouseAt]
  <2>1. Replayed(h[N], e) \in MouseAt
    BY <1>2, <1>3, ReplayedIsMouse
  <2>2. \A i \in 0 .. N + 1 : i = N + 1 \/ i \in 0 .. N
    BY <1>2
  <2> QED BY <1>3, <2>1, <2>2
<1>5. k[N + 1] = Replayed(h[N], e) /\ \A i \in 0 .. N : k[i] = h[i]
  <2>1. N + 1 \in 0 .. N + 1 /\ \A i \in 0 .. N : i \in 0 .. N + 1 /\ i # N + 1
    BY <1>2
  <2> QED BY <2>1
<1> HIDE DEF k
<1>6. k[0] = base
  BY <1>2, <1>3, <1>5
<1>7. ASSUME NEW i \in 1 .. N + 1 PROVE k[i] = Replayed(k[i - 1], longer[i])
  <2>1. CASE i = N + 1
    <3>1. i - 1 = N /\ N \in 0 .. N
      BY <1>2, <2>1
    <3> QED BY <1>2, <1>5, <2>1, <3>1
  <2>2. CASE i # N + 1
    <3>1. i \in 1 .. N /\ i \in 0 .. N /\ i - 1 \in 0 .. N
      BY <1>2, <2>2
    <3> QED BY <1>2, <1>3, <1>5, <3>1
  <2> QED BY <2>1, <2>2
<1>8. IsReplay(k, base, longer)
  BY <1>2, <1>4, <1>6, <1>7 DEF IsReplay
<1>9. FoldLeft(Replayed, base, longer) = k[N + 1]
  BY <1>2, <1>8, ReplayValue
<1> QED BY <1>1, <1>5, <1>9 DEF N, longer

\* Entries that are taken are replayed before those that stay.
LEMMA ReplaySplit ==
    ASSUME NEW base \in MouseAt, NEW s \in Seq(MouseEntry), NEW n \in 0 .. Len(s)
    PROVE  LET first == FoldLeft(Replayed, base, SubSeq(s, 1, n))
               rest  == SubSeq(s, n + 1, Len(s))
           IN  /\ first \in MouseAt /\ rest \in Seq(MouseEntry)
               /\ FoldLeft(Replayed, first, rest) = FoldLeft(Replayed, base, s)
<1> DEFINE N == Len(s)
           a == SubSeq(s, 1, n)
           b == SubSeq(s, n + 1, N)
<1>1. PICK h : IsReplay(h, base, s) /\ FoldLeft(Replayed, base, s) = h[Len(s)]
  BY ReplayExists
<1>2. /\ h \in [0 .. N -> MouseAt] /\ h[0] = base
      /\ \A i \in 1 .. N : h[i] = Replayed(h[i - 1], s[i])
  BY <1>1 DEF IsReplay
<1>3. N \in Nat /\ n \in Nat /\ n <= N
  OBVIOUS
<1>4. a \in Seq(MouseEntry) /\ Len(a) = n /\ \A i \in 1 .. n : a[i] = s[i]
  OBVIOUS
<1>5. b \in Seq(MouseEntry) /\ Len(b) = N - n /\ \A i \in 1 .. N - n : b[i] = s[n + i]
  OBVIOUS
<1> HIDE DEF N, a, b
<1> DEFINE f == [i \in 0 .. n |-> h[i]]
           g == [i \in 0 .. N - n |-> h[n + i]]
<1>6. FoldLeft(Replayed, base, a) = h[n]
  <2>1. \A i \in 0 .. n : i \in 0 .. N
    BY <1>3
  <2>2. f \in [0 .. n -> MouseAt] /\ (\A i \in 0 .. n : f[i] = h[i]) /\ 0 \in 0 .. n /\ n \in 0 .. n
    BY <1>2, <1>3, <2>1
  <2> HIDE DEF f
  <2>3. ASSUME NEW i \in 1 .. n PROVE f[i] = Replayed(f[i - 1], a[i])
    <3>1. i \in 1 .. N /\ i \in 0 .. n /\ i - 1 \in 0 .. n
      BY <1>3
    <3> QED BY <1>2, <1>4, <2>2, <3>1
  <2>4. IsReplay(f, base, a)
    BY <1>2, <1>4, <2>2, <2>3 DEF IsReplay
  <2> QED BY <1>4, <2>2, <2>4, ReplayValue
<1>7. h[n] \in MouseAt
  BY <1>2, <1>3
<1>8. FoldLeft(Replayed, h[n], b) = h[N]
  <2>1. \A i \in 0 .. N - n : n + i \in 0 .. N
    BY <1>3
  <2>2. /\ g \in [0 .. N - n -> MouseAt] /\ (\A i \in 0 .. N - n : g[i] = h[n + i])
        /\ 0 \in 0 .. N - n /\ N - n \in 0 .. N - n /\ n + 0 = n /\ n + (N - n) = N
    BY <1>2, <1>3, <2>1
  <2> HIDE DEF g
  <2>3. ASSUME NEW i \in 1 .. N - n PROVE g[i] = Replayed(g[i - 1], b[i])
    <3>1. n + i \in 1 .. N /\ i \in 0 .. N - n /\ i - 1 \in 0 .. N - n /\ (n + i) - 1 = n + (i - 1)
      BY <1>3
    <3>2. g[i] = h[n + i] /\ g[i - 1] = h[(n + i) - 1] /\ b[i] = s[n + i]
      BY <1>5, <2>2, <3>1
    <3> QED BY <1>2, <3>1, <3>2
  <2>4. IsReplay(g, h[n], b)
    BY <1>5, <2>2, <2>3 DEF IsReplay
  <2> QED BY <1>5, <1>7, <2>2, <2>4, ReplayValue
<1> QED BY <1>1, <1>5, <1>6, <1>7, <1>8 DEF N, a, b

\* The entry a motion adds for one axis.
LEMMA MoveAdds ==
    ASSUME NEW base \in MouseAt, NEW s \in Seq(MouseEntry), NEW a \in Axis,
           NEW to, to[a] \in Int, mouse.pos[a] \in Int,
           FoldLeft(Replayed, base, s).pos[a] = mouse.pos[a]
    PROVE  /\ Move(a, to) \in Seq(MouseEntry)
           /\ FoldLeft(Replayed, base, s \o Move(a, to)) =
                [FoldLeft(Replayed, base, s) EXCEPT !.pos[a] = to[a]]
<1> DEFINE m == FoldLeft(Replayed, base, s)
           d == to[a] - mouse.pos[a]
<1>1. m \in MouseAt /\ m.pos[a] = mouse.pos[a]
  BY ReplayExists, ReplayValue
<1>2. d \in Int /\ mouse.pos[a] + d = to[a]
  OBVIOUS
<1>3. CASE to[a] = mouse.pos[a]
  <2>1. Move(a, to) = << >> /\ s \o << >> = s
    BY <1>3 DEF Move
  <2>2. [m EXCEPT !.pos[a] = to[a]] = m
    <3> HIDE DEF m
    <3>1. m.pos \in [Axis -> Int] /\ [m.pos EXCEPT ![a] = to[a]] = m.pos
      BY <1>1, <1>3 DEF MouseAt
    <3>2. [m EXCEPT !.pos[a] = to[a]] = [m EXCEPT !.pos = [m.pos EXCEPT ![a] = to[a]]]
      OBVIOUS
    <3>3. [m EXCEPT !.pos = m.pos] = m
      BY <1>1 DEF MouseAt
    <3> QED BY <3>1, <3>2, <3>3
  <2> QED BY <2>1, <2>2
<1>4. CASE to[a] # mouse.pos[a]
  <2> DEFINE e == <<a, d>>
  <2>1. Move(a, to) = << e >> /\ s \o << e >> = Append(s, e)
    BY <1>4 DEF Move
  <2>2. /\ e \in MouseEntry
        /\ Replayed(m, e) = [m EXCEPT !.pos[a] = @ + d]
    <3> HIDE DEF m, d
    <3> QED BY <1>1, <1>2, ReplayedEntry
  <2>3. Replayed(m, e) = [m EXCEPT !.pos[a] = to[a]]
    <3> HIDE DEF m, d
    <3> QED BY <1>1, <1>2, <2>2
  <2>4. FoldLeft(Replayed, base, Append(s, e)) = Replayed(m, e)
    <3> HIDE DEF e
    <3> QED BY <2>2, ReplayAppend DEF m
  <2>5. << e >> \in Seq(MouseEntry)
    <3> HIDE DEF e
    <3> QED BY <2>2
  <2> QED BY <2>1, <2>3, <2>4, <2>5
<1> QED BY <1>3, <1>4

\* Of the mouse; it is inductive.
InputInv ==
    /\ mouse \in [pos : [Axis -> Int], buttons : [Button -> BOOLEAN], polled : [Axis -> Int]]
    /\ inputQueue \in Seq(MouseEntry) /\ drained \in MouseAt
    /\ InputAddsUp

\* A motion is one entry for each axis that it changes.
LEMMA MotionAddsUp ==
    ASSUME InputInv, NEW to \in [Axis -> Coordinate], NotifyMotion(to)
    PROVE  InputInv'
<1> DEFINE m == FoldLeft(Replayed, drained, inputQueue)
           q == inputQueue \o Move("x", to)
<1>1. /\ mouse' = [mouse EXCEPT !.pos = to] /\ drained' = drained
      /\ inputQueue' = inputQueue \o Moves(to)
  BY DEF NotifyMotion
<1>2. to \in [Axis -> Int] /\ Axis = {"x", "y"}
  BY InputAssumption DEF Axis
<1>3. /\ m \in MouseAt /\ m.pos = mouse.pos /\ m.buttons = mouse.buttons
      /\ mouse.pos \in [Axis -> Int] /\ inputQueue \in Seq(MouseEntry) /\ drained \in MouseAt
  BY ReplayExists, ReplayValue DEF InputInv, InputAddsUp
<1>4. /\ Move("x", to) \in Seq(MouseEntry)
      /\ FoldLeft(Replayed, drained, q) = [m EXCEPT !.pos["x"] = to["x"]]
  BY <1>2, <1>3, MoveAdds
<1> HIDE DEF m, q
<1>5. q \in Seq(MouseEntry)
  BY <1>3, <1>4 DEF q
<1>6. FoldLeft(Replayed, drained, q).pos["y"] = mouse.pos["y"]
  BY <1>2, <1>3, <1>4 DEF MouseAt
<1>7. /\ Move("y", to) \in Seq(MouseEntry)
      /\ FoldLeft(Replayed, drained, q \o Move("y", to)) =
            [FoldLeft(Replayed, drained, q) EXCEPT !.pos["y"] = to["y"]]
  <2>1. "y" \in Axis /\ to["y"] \in Int /\ mouse.pos["y"] \in Int /\ drained \in MouseAt
    BY <1>2, <1>3
  <2> QED BY <1>5, <1>6, <2>1, MoveAdds
<1>8. q \o Move("y", to) = inputQueue'
  <2>1. (inputQueue \o Move("x", to)) \o Move("y", to) = inputQueue \o (Move("x", to) \o Move("y", to))
    BY <1>3, <1>4, <1>7, ConcatAssociative
  <2> QED BY <1>1, <2>1 DEF q, Moves
<1>9. [[m EXCEPT !.pos["x"] = to["x"]] EXCEPT !.pos["y"] = to["y"]] = [pos |-> to, buttons |-> mouse.buttons]
  <2>1. [[m.pos EXCEPT !["x"] = to["x"]] EXCEPT !["y"] = to["y"]] = to
    BY <1>2, <1>3
  <2>2. [[m EXCEPT !.pos["x"] = to["x"]] EXCEPT !.pos["y"] = to["y"]] =
           [m EXCEPT !.pos = [[m.pos EXCEPT !["x"] = to["x"]] EXCEPT !["y"] = to["y"]]]
    BY <1>3 DEF MouseAt
  <2>3. [m EXCEPT !.pos = to] = [pos |-> to, buttons |-> mouse.buttons]
    BY <1>3 DEF MouseAt
  <2> QED BY <2>1, <2>2, <2>3
<1>10. /\ mouse'.pos = to /\ mouse'.buttons = mouse.buttons
       /\ mouse' \in [pos : [Axis -> Int], buttons : [Button -> BOOLEAN], polled : [Axis -> Int]]
  BY <1>1, <1>2 DEF InputInv
<1>11. inputQueue' \in Seq(MouseEntry)
  <2>1. Move("y", to) \in Seq(MouseEntry)
    BY <1>7
  <2>2. q \o Move("y", to) \in Seq(MouseEntry)
    BY <1>5, <2>1
  <2> QED BY <1>8, <2>2
<1>12. FoldLeft(Replayed, drained', inputQueue') = [pos |-> mouse'.pos, buttons |-> mouse'.buttons]
  BY <1>1, <1>4, <1>7, <1>8, <1>9, <1>10
<1> QED BY <1>1, <1>3, <1>10, <1>11, <1>12 DEF InputInv, InputAddsUp

\* A button is one entry.
LEMMA ClickAddsUp ==
    ASSUME InputInv, NEW b \in Button, NotifyButton(b)
    PROVE  InputInv'
<1> DEFINE m == FoldLeft(Replayed, drained, inputQueue)
           e == <<b, ~ mouse.buttons[b]>>
<1>1. /\ mouse' = [mouse EXCEPT !.buttons = [mouse.buttons EXCEPT ![b] = ~ mouse.buttons[b]]]
      /\ drained' = drained /\ inputQueue' = Append(inputQueue, e)
  BY DEF NotifyButton
<1>2. /\ m \in MouseAt /\ m = [pos |-> mouse.pos, buttons |-> mouse.buttons]
      /\ mouse.buttons \in [Button -> BOOLEAN] /\ mouse.pos \in [Axis -> Int]
      /\ inputQueue \in Seq(MouseEntry) /\ drained \in MouseAt
  BY ReplayExists, ReplayValue DEF InputInv, InputAddsUp
<1> HIDE DEF m
<1>3. (~ mouse.buttons[b]) \in BOOLEAN
  OBVIOUS
<1>4. e \in MouseEntry /\ Replayed(m, e) = [m EXCEPT !.buttons[b] = ~ mouse.buttons[b]]
  BY <1>2, <1>3, ReplayedEntry, Zenon
<1> HIDE DEF e
<1>5. FoldLeft(Replayed, drained, inputQueue') = Replayed(m, e)
  <2>1. drained \in MouseAt /\ inputQueue \in Seq(MouseEntry) /\ e \in MouseEntry
    BY <1>2, <1>4
  <2>2. FoldLeft(Replayed, drained, Append(inputQueue, e)) = Replayed(FoldLeft(Replayed, drained, inputQueue), e)
    BY <2>1, ReplayAppend
  <2> QED BY <1>1, <2>2, Zenon DEF m
<1>6. [mouse.buttons EXCEPT ![b] = ~ mouse.buttons[b]] \in [Button -> BOOLEAN]
  BY <1>2, <1>3
<1> DEFINE up == [mouse.buttons EXCEPT ![b] = ~ mouse.buttons[b]]
<1>7. Replayed(m, e) = [pos |-> mouse.pos, buttons |-> up]
  BY <1>2, <1>4
<1> HIDE DEF up
<1>8. /\ mouse'.pos = mouse.pos /\ mouse'.buttons = up
      /\ mouse' \in [pos : [Axis -> Int], buttons : [Button -> BOOLEAN], polled : [Axis -> Int]]
  BY <1>1, <1>2, <1>6 DEF InputInv, up
<1>9. inputQueue' \in Seq(MouseEntry)
  BY <1>1, <1>2, <1>4
<1> QED BY <1>1, <1>2, <1>5, <1>7, <1>8, <1>9 DEF InputInv, InputAddsUp

\* A peek takes nothing, and a read takes from the front.
LEMMA ReadAddsUp ==
    ASSUME InputInv, NEW n \in 0 .. MaxInputQueue, NEW peek \in BOOLEAN, GetDeviceData(n, peek)
    PROVE  InputInv'
<1>1. CASE peek
  <2>1. inputQueue' = inputQueue /\ drained' = drained /\ mouse' = mouse
    BY <1>1 DEF GetDeviceData, Taken
  <2> QED BY <2>1 DEF InputInv, InputAddsUp
<1>2. CASE ~ peek
  <2>1. /\ inputQueue' = SubSeq(inputQueue, n + 1, Len(inputQueue)) /\ mouse' = mouse
        /\ drained' = FoldLeft(Replayed, drained, SubSeq(inputQueue, 1, n))
    BY <1>2 DEF GetDeviceData, Taken
  <2>2. n \in 0 .. Len(inputQueue) /\ inputQueue \in Seq(MouseEntry) /\ drained \in MouseAt
    BY InputAssumption DEF GetDeviceData, InputInv
  <2>3. /\ drained' \in MouseAt /\ inputQueue' \in Seq(MouseEntry)
        /\ FoldLeft(Replayed, drained', inputQueue') = FoldLeft(Replayed, drained, inputQueue)
    BY <2>1, <2>2, ReplaySplit
  <2> QED BY <2>1, <2>3 DEF InputInv, InputAddsUp
<1> QED BY <1>1, <1>2

\* The mouse: every step keeps the sum.
LEMMA InputStep ==
    ASSUME InputInv, InputNext \/ UNCHANGED inputVars
    PROVE  InputInv'
<1>1. CASE \E to \in [Axis -> Coordinate] : NotifyMotion(to)
  BY <1>1, MotionAddsUp
<1>2. CASE \E b \in Button : NotifyButton(b)
  BY <1>2, ClickAddsUp
<1>3. CASE \E n \in 0 .. MaxInputQueue, peek \in BOOLEAN : GetDeviceData(n, peek)
  BY <1>3, ReadAddsUp
<1>4. CASE GetDeviceState
  <2>1. /\ mouse' = [mouse EXCEPT !.polled = mouse.pos]
        /\ inputQueue' = inputQueue /\ drained' = drained
    BY <1>4 DEF GetDeviceState
  <2>2. /\ mouse'.pos = mouse.pos /\ mouse'.buttons = mouse.buttons
        /\ mouse' \in [pos : [Axis -> Int], buttons : [Button -> BOOLEAN], polled : [Axis -> Int]]
    BY <2>1 DEF InputInv
  <2> QED BY <2>1, <2>2 DEF InputInv, InputAddsUp
<1>5. CASE UNCHANGED <<mouse, inputQueue, drained>>
  BY <1>5 DEF InputInv, InputAddsUp
<1>6. ASSUME NEW d, NEW e, SetEventNotification(d, e) \/ WaitForInput(e) \/ Woken(e)
      PROVE  UNCHANGED <<mouse, inputQueue, drained>>
  BY <1>6 DEF SetEventNotification, WaitForInput, Woken
<1> QED BY <1>1, <1>2, <1>3, <1>4, <1>5, <1>6 DEF InputNext, inputVars

-----------------------------------------------------------------------------
(***************************************************************************)
(* The controls.                                                           *)
(***************************************************************************)

\* Of the controls; it is inductive.
ControlsInv ==
    /\ check_state \in [Control -> {0, 1}] /\ clicks \in [Control -> Nat]
    /\ EveryClickCounts /\ ReadsItsText

\* What has just been read is nothing.
LEMMA NothingIsItsText ==
    ASSUME read' = NothingRead
    PROVE  ReadsItsText'
<1>1. Cut(title'[read'.of], 0) = << >>
  BY DEF Cut
<1> QED BY <1>1 DEF ReadsItsText, NothingRead

\* One number more turns the mark.
LEMMA TurnedMark ==
    ASSUME NEW n \in Nat, NEW state \in {0, 1}, state = n % 2
    PROVE  Toggled(state) \in {0, 1} /\ Toggled(state) = (n + 1) % 2
<1>1. state % 2 = state
  OBVIOUS
<1> QED BY <1>1 DEF Toggled

\* The controls: every step keeps the marks and the text that was read.
LEMMA ControlsStep ==
    ASSUME ControlsInv, ControlsNext \/ UNCHANGED controlVars
    PROVE  ControlsInv'
<1> DEFINE Marks == /\ check_state' \in [Control -> {0, 1}] /\ clicks' \in [Control -> Nat]
                    /\ EveryClickCounts'
<1>1. ASSUME UNCHANGED <<check_state, clicks>> PROVE Marks
  BY <1>1 DEF ControlsInv, EveryClickCounts
<1>2. ASSUME NEW c \in Control, Click(c) PROVE ControlsInv'
  <2>1. read' = NothingRead
    BY <1>2 DEF Click
  <2>2. CASE c \in Box
    <3>1. /\ check_state' = [check_state EXCEPT ![c] = Toggled(check_state[c])]
          /\ clicks' = [clicks EXCEPT ![c] = clicks[c] + 1]
      BY <1>2, <2>2 DEF Click
    <3>2. Toggled(check_state[c]) \in {0, 1} /\ Toggled(check_state[c]) = (clicks[c] + 1) % 2
      BY <2>2, TurnedMark DEF ControlsInv, EveryClickCounts
    <3>3. Marks
      BY <2>2, <3>1, <3>2 DEF ControlsInv, EveryClickCounts, Control
    <3> QED BY <2>1, <3>3, NothingIsItsText DEF ControlsInv
  <2>3. CASE c \notin Box
    <3>1. UNCHANGED <<check_state, clicks>>
      BY <1>2, <2>3 DEF Click
    <3> QED BY <1>1, <2>1, <3>1, NothingIsItsText DEF ControlsInv
  <2> QED BY <2>2, <2>3
<1>3. ASSUME NEW b \in Box, NEW state \in {0, BST_CHECKED}, CheckDlgButton(b, state)
      PROVE  ControlsInv'
  <2>1. /\ check_state' = [check_state EXCEPT ![b] = state] /\ clicks' = [clicks EXCEPT ![b] = state]
        /\ read' = NothingRead
    BY <1>3 DEF CheckDlgButton
  <2>2. state \in {0, 1} /\ state = state % 2 /\ state \in Nat
    BY DEF BST_CHECKED
  <2>3. Marks
    BY <2>1, <2>2 DEF ControlsInv, EveryClickCounts, Control
  <2> QED BY <2>1, <2>3, NothingIsItsText DEF ControlsInv
<1>4. ASSUME NEW c \in Control, NEW n \in Lengths, GetDlgItemText(c, n) \/ GetTextMessage(c, n)
      PROVE  ControlsInv'
  <2>1. /\ UNCHANGED <<check_state, clicks, tracked, title>>
        /\ read'.of = c /\ read'.length = n
        /\ c \in tracked /\ title[c] # << >> => read'.text = Cut(title[c], n)
    BY <1>4 DEF GetDlgItemText, GetTextMessage, GetWindowText
  <2>2. ReadsItsText'
    BY <2>1 DEF ReadsItsText
  <2> QED BY <1>1, <2>1, <2>2 DEF ControlsInv
<1>5. ASSUME NEW c, NEW t, NEW ch,
             \/ FocusControl(c) \/ DestroyControl(c) \/ SetDlgItemText(c, t)
             \/ TypeCharacter(ch) \/ Backspace \/ Delete
      PROVE  ControlsInv'
  <2>1. UNCHANGED <<check_state, clicks>> /\ read' = NothingRead
    BY <1>5 DEF FocusControl, DestroyControl, SetDlgItemText, TypeCharacter, Backspace, Delete, Edited
  <2> QED BY <1>1, <2>1, NothingIsItsText DEF ControlsInv
<1>6. ASSUME UNCHANGED controlVars PROVE ControlsInv'
  <2>1. ReadsItsText'
    BY <1>6 DEF controlVars, ControlsInv, ReadsItsText
  <2> QED BY <1>1, <1>6, <2>1 DEF controlVars, ControlsInv
<1> QED BY <1>2, <1>3, <1>4, <1>5, <1>6 DEF ControlsNext

\* What the user does with the mouse and in dialogs is counted once and read
\* as it was entered, for any coordinates, buttons, events and controls, and
\* whatever mixture of reads, peeks and polls the guest makes.
THEOREM InputCounted == UserSpec => []InputIsCounted
<1> DEFINE I == InputInv /\ ControlsInv
<1>1. UserInit => I
  <2> SUFFICES ASSUME UserInit PROVE I
    OBVIOUS
  <2>1. InputInv
    <3>1. /\ mouse = [pos |-> [a \in Axis |-> 0], buttons |-> Up, polled |-> [a \in Axis |-> 0]]
          /\ inputQueue = << >> /\ drained = [pos |-> [a \in Axis |-> 0], buttons |-> Up]
      BY DEF UserInit, InputInit
    <3>2. Up \in [Button -> BOOLEAN] /\ [a \in Axis |-> 0] \in [Axis -> Int]
      BY DEF Up
    <3>3. drained \in MouseAt /\ << >> \in Seq(MouseEntry) /\ Len(<< >>) = 0
      BY <3>1, <3>2 DEF MouseAt
    <3>4. PICK h : IsReplay(h, drained, << >>) /\ FoldLeft(Replayed, drained, << >>) = h[Len(<< >>)]
      BY <3>3, ReplayExists
    <3>5. FoldLeft(Replayed, drained, inputQueue) = drained
      BY <3>1, <3>3, <3>4 DEF IsReplay
    <3>6. mouse.pos = drained.pos /\ mouse.buttons = drained.buttons
      BY <3>1
    <3>7. drained = [pos |-> mouse.pos, buttons |-> mouse.buttons]
      BY <3>1
    <3>8. mouse \in [pos : [Axis -> Int], buttons : [Button -> BOOLEAN], polled : [Axis -> Int]]
      BY <3>1, <3>2
    <3> QED BY <3>1, <3>3, <3>5, <3>7, <3>8 DEF InputInv, InputAddsUp
  <2>2. ControlsInv
    <3>1. /\ check_state = [c \in Control |-> 0] /\ clicks = [c \in Control |-> 0] /\ read = NothingRead
      BY DEF UserInit, ControlsInit
    <3>2. EveryClickCounts
      BY <3>1 DEF EveryClickCounts, Control
    <3>3. Cut(title[read.of], 0) = << >>
      BY DEF Cut
    <3>4. ReadsItsText
      BY <3>1, <3>3 DEF ReadsItsText, NothingRead
    <3> QED BY <3>1, <3>2, <3>4 DEF ControlsInv
  <2> QED BY <2>1, <2>2
<1>2. I /\ [UserNext]_<<inputVars, controlVars>> => I'
  BY InputStep, ControlsStep DEF UserNext
<1>3. I => InputIsCounted
  BY DEF InputInv, ControlsInv, InputIsCounted
<1> QED BY <1>1, <1>2, <1>3, PTL DEF UserSpec
=============================================================================
