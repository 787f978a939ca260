-------------------------------- MODULE Sound --------------------------------
(* DirectSound: the buffers a guest creates, plays and stops, and the audio  *)
(* callback that SDL runs on a thread of its own and that mixes the playing  *)
(* buffers, period by period, while the guest's calls change them.           *)
(*                                                                           *)
(* The lock is held to list the playing buffers and not while one is mixed,  *)
(* so the callback is several steps: Collect, then TakeChunk and Advance, or  *)
(* TakeChunk and StopAtEnd, for each. Bytes are counted; what they hold is   *)
(* left out.                                                                 *)
EXTENDS Integers, Sequences

CONSTANTS
    SoundSizes,    \* sizes a guest asks for
    Period,        \* bytes the callback is asked for
    MaxSounds,     \* bound: buffers created
    SoundPrograms  \* the sets of calls a guest may be made of

ASSUME SoundAssumption ==
    /\ SoundSizes \subseteq Nat \ {0}
    /\ Period \in Nat \ {0} /\ Period % 2 = 0
    /\ MaxSounds \in Nat

VARIABLES
    sounds,        \* _ds_buffers, by index
    opened,        \* _sdl_audio_dev is not 0
    mixing,        \* the buffers the callback has still to mix, lowest index first
    chunk,         \* the bytes it took from the first of them, 0 before it did,
                   \* AtItsEnd when it found none left
    soundProgram

soundVars == <<sounds, opened, mixing, chunk, soundProgram>>

SoundInit ==
    /\ sounds = <<>> /\ opened = FALSE
    /\ mixing = {} /\ chunk = 0
    /\ soundProgram \in SoundPrograms

Sounding(name) == name \in soundProgram
Callback == UNCHANGED <<opened, soundProgram>>
Guest == UNCHANGED <<mixing, chunk, soundProgram>>
NewSound(size, bits, primary) ==
    [size |-> size, bits |-> bits, primary |-> primary,
     playing |-> FALSE, looping |-> FALSE, cursor |-> 0]

CreateSoundBuffer ==
    /\ Len(sounds) < MaxSounds
    /\ \E size \in SoundSizes, bits \in {8, 16}, primary \in BOOLEAN :
          sounds' = Append(sounds, NewSound(IF primary THEN 0 ELSE size, bits, primary))
    /\ Guest /\ UNCHANGED opened

(* The copy has the format of the original and rests at its beginning. *)
DuplicateSoundBuffer(i) ==
    /\ Sounding("Duplicate") /\ Len(sounds) < MaxSounds /\ ~sounds[i].primary
    /\ sounds' = Append(sounds, NewSound(sounds[i].size, sounds[i].bits, FALSE))
    /\ Guest /\ UNCHANGED opened

\* _open_sdl_audio, which may fail; an open device stays open.
OpenAudio == opened' \in (IF opened THEN {TRUE} ELSE BOOLEAN)

(* The device is opened by the first Play, in that buffer's format; when it  *)
(* cannot be, the buffer plays all the same and the next Play tries again.   *)
Play(i, loop) ==
    /\ ~sounds[i].primary
    /\ OpenAudio
    /\ sounds' = [sounds EXCEPT ![i].looping = loop, ![i].playing = TRUE]
    /\ Guest

Stop(i) ==
    /\ sounds' = [sounds EXCEPT ![i].playing = FALSE]
    /\ Guest /\ UNCHANGED opened

SetCurrentPosition(i, pos) ==
    /\ Sounding("SetCurrentPosition")
    /\ sounds' = [sounds EXCEPT ![i].cursor = IF sounds[i].size = 0 THEN 0
                                              ELSE pos % sounds[i].size]
    /\ Guest /\ UNCHANGED opened

SetFormat(i, bits) ==
    /\ Sounding("SetFormat")
    /\ sounds' = [sounds EXCEPT ![i].bits = bits]
    /\ Guest /\ UNCHANGED opened

---------------------------------------------------------------------------
(* The callback. *)
Mixed(i) == sounds[i].playing /\ ~sounds[i].primary

Collect ==
    /\ opened /\ mixing = {}
    /\ mixing' = {i \in DOMAIN sounds : Mixed(i)} /\ mixing' # {}
    /\ UNCHANGED <<sounds, chunk>> /\ Callback

(* The buffer whose turn it is (in a set of one). *)
InTurn == {i \in mixing : \A j \in mixing : i <= j}

(* Mutant: the end of the buffer is not looked at. *)
Chunk_Period(i, cursor) == Period

AtEnd(i) == sounds[i].cursor >= sounds[i].size
Chunk(i, cursor) ==
    IF Period < sounds[i].size - cursor THEN Period ELSE sounds[i].size - cursor
Whole(i, n) == sounds[i].bits = 16 => n % 2 = 0

AtItsEnd == -1

(* A buffer at its end is about to stop, or starts again if it loops. Bytes  *)
(* that are no whole number of samples are refused, and it stays where it is.*)
TakeChunk(i) ==
    /\ chunk = 0
    /\ LET start == IF AtEnd(i) THEN 0 ELSE sounds[i].cursor
           n == Chunk(i, start)
       IN IF AtEnd(i) /\ ~sounds[i].looping
          THEN chunk' = AtItsEnd /\ UNCHANGED <<sounds, mixing>>
          ELSE /\ sounds' = [sounds EXCEPT ![i].cursor = start]
               /\ IF n > 0 /\ Whole(i, n) THEN chunk' = n /\ UNCHANGED mixing
                                          ELSE mixing' = mixing \ {i} /\ UNCHANGED chunk
    /\ Callback

StopAtEnd(i) ==
    /\ chunk = AtItsEnd
    /\ sounds' = [sounds EXCEPT ![i].playing = FALSE]
    /\ mixing' = mixing \ {i} /\ chunk' = 0
    /\ Callback

Advanced(s) ==
    IF s.looping /\ s.cursor + chunk >= s.size THEN (s.cursor + chunk) % s.size
                                               ELSE s.cursor + chunk
Advance(i) ==
    /\ chunk > 0
    /\ sounds' = [sounds EXCEPT ![i].cursor = Advanced(sounds[i])]
    /\ mixing' = mixing \ {i} /\ chunk' = 0
    /\ Callback

SoundCallback ==
    \/ Collect
    \/ \E i \in InTurn : TakeChunk(i) \/ StopAtEnd(i) \/ Advance(i)

SoundNext ==
    \/ CreateSoundBuffer \/ SoundCallback
    \/ \E i \in DOMAIN sounds :
          \/ DuplicateSoundBuffer(i) \/ Stop(i)
          \/ \E loop \in BOOLEAN : Play(i, loop)
          \/ \E pos \in {1, sounds[i].size} : SetCurrentPosition(i, pos)
          \/ \E bits \in {8, 16} : SetFormat(i, bits)

SoundSpec == SoundInit /\ [][SoundNext]_soundVars

---------------------------------------------------------------------------
(* The play cursor GetCurrentPosition reports lies in the buffer, though     *)
(* Play, Stop and another Play come between the steps of the callback. A     *)
(* guest that sets the position while a chunk is being mixed is left out: its*)
(* cursor can be moved past the end.                                         *)
PlayCursorInBuffer ==
    "SetCurrentPosition" \notin soundProgram =>
        \A i \in DOMAIN sounds : sounds[i].cursor <= sounds[i].size

=============================================================================
