------------------------------- MODULE Files --------------------------------
(***************************************************************************)
(* File handles, streams, byte-range locks and file mappings:              *)
(* CRTState.open_file_handle (tew/api/_state.py), the file calls of        *)
(* tew/api/kernel32_io.py and the streams of tew/api/msvcrt_handlers.py.   *)
(*                                                                         *)
(* A handle value names a FileHandleEntry; DuplicateHandle gives one entry *)
(* several handles.  An entry opened for writing keeps a host descriptor,  *)
(* one opened for reading a copy of the file's bytes as they were then.    *)
(* The host's part is modelled as POSIX has it: a directory of inodes, and *)
(* descriptors that each have an offset, the lowest free number first.     *)
(***************************************************************************)
EXTENDS Integers, Sequences, FiniteSets, FiniteSetsExt, SequencesExt, Functions, Selection

CONSTANTS
    Path,         \* real paths; names that differ in case are one path
    NUL,          \* the null device, a path as well
    Inode, Fd,    \* what the host can give: Fd \subseteq Nat, 3 and up
    MaxHandles,   \* bound: handle values handed out
    MaxSize,      \* bound: the length of a file, and every offset used
    MaxViews,     \* bound: views mapped at a time
    MaxLocks,     \* bound: locks held
    Programs      \* the guest's programs: each the set of calls it makes

ASSUME FilesAssumption ==
    /\ NUL \notin Path
    /\ Fd \subseteq Nat \ 0..2 /\ Inode \subseteq Nat \ {0}
    /\ {MaxHandles, MaxSize, MaxViews, MaxLocks} \subseteq Nat

VARIABLES
    dir,          \* [path |-> inode], of the paths that exist
    bytes,        \* the contents of each inode
    fds,          \* [fd |-> [inode, cursor]], the open descriptors
    entry,        \* the FileHandleEntry objects, named by their first handle
    file_handle_map,  \* [handle |-> entry]
    next_handle,  \* the next handle; files and mappings count apart, and never meet
    file_mapping_map, \* [handle |-> FileMappingHandle]
    mapped_views, \* [base address |-> MappedView and its bytes]
    file_locks,   \* <<path, start, end, handle>>, oldest first
    program,      \* the one that runs
    raised        \* a handler raised OSError: the program is over

vars == <<dir, bytes, fds, entry, file_handle_map, next_handle,
          file_mapping_map, mapped_views, file_locks, program, raised>>
hostVars  == <<dir, bytes, fds>>
tableVars == <<entry, file_handle_map, next_handle>>
mapVars   == <<file_mapping_map, mapped_views>>

Offset == 0..MaxSize
Handle == 1..MaxHandles
Base   == 1..MaxViews
None   == 0                    \* no handle, no descriptor, no inode
Device == Path \cup {NUL}

-----------------------------------------------------------------------------
(* Bytes and descriptors.  A byte is 0, the zero fill, or 1, data.         *)

Slice(s, from, n) == SubSeq(s, from + 1, Min({Len(s), from + n}))

\* os.pwrite: the bytes of d at offset at, after zeros when at is past the end.
Written(s, d, at) ==
    IF d = << >> THEN s
    ELSE [i \in 1..Max({Len(s), at + Len(d)}) |->
            IF i \in (at + 1)..(at + Len(d)) THEN d[i - at]
            ELSE IF i <= Len(s) THEN s[i] ELSE 0]

Truncated(s, n) == [i \in 1..n |-> IF i <= Len(s) THEN s[i] ELSE 0]

FreeInode == Inode \ (Range(dir) \cup {fds[f].inode : f \in DOMAIN fds})
FreeFds   == Fd \ DOMAIN fds
Without(f, keys) == Restrict(f, DOMAIN f \ keys)
Put(f, k, v) == [x \in DOMAIN f \cup {k} |-> IF x = k THEN v ELSE f[x]]

E(h) == entry[file_handle_map[h]]
Known(h) == h \in DOMAIN file_handle_map
Cached(e) == e.fd = None

\* What a descriptor holds; the null device is always empty.
Held(fd) == IF fds[fd].inode = None THEN << >> ELSE bytes[fds[fd].inode]
Store(fd, s) == bytes' = IF fds[fd].inode = None THEN bytes
                         ELSE [bytes EXCEPT ![fds[fd].inode] = s]

\* file_entry_size
SizeOf(e) == IF Cached(e) THEN Len(e.data) ELSE Len(Held(e.fd))

\* The call uses a descriptor that is closed: OSError, nothing else happens.
BadFd(e) == ~ Cached(e) /\ e.fd \notin DOMAIN fds
Raise == raised' = TRUE /\ UNCHANGED <<hostVars, tableVars, mapVars, file_locks>>
Ok == raised' = FALSE

TypeOK ==
    /\ DOMAIN dir \subseteq Path /\ Range(dir) \subseteq Inode
    /\ bytes \in [Inode -> Seq({0, 1})]
    /\ DOMAIN fds \subseteq Fd
    /\ \A f \in DOMAIN fds : fds[f].inode \in Inode \cup {None} /\ fds[f].cursor \in Nat
    /\ DOMAIN file_handle_map \subseteq Handle /\ Range(file_handle_map) \subseteq DOMAIN entry
    /\ \A e \in Range(entry) : /\ e.path \in Device
                               /\ e.data \in Seq({0, 1})
                               /\ e.position \in Nat
                               /\ e.fd \in Fd \cup {None}
                               /\ {e.writable, e.readable} \subseteq BOOLEAN
                               /\ e.writable <=> e.fd # None
    /\ next_handle \in 1..(MaxHandles + 1)
    /\ DOMAIN file_mapping_map \subseteq Handle /\ DOMAIN mapped_views \subseteq Base
    /\ file_locks \in Seq(Device \X Nat \X Nat \X Handle)
    /\ raised \in BOOLEAN /\ program \in Programs

Empty == [x \in {} |-> None]

Init ==
    /\ \E p \in Path, i \in Inode, s \in {<<1>>, <<1, 1>>} :
         /\ dir = Put(Empty, p, i)
         /\ bytes = [j \in Inode |-> IF j = i THEN s ELSE << >>]
    /\ fds = Empty /\ entry = Empty /\ file_handle_map = Empty
    /\ next_handle = 1
    /\ file_mapping_map = Empty /\ mapped_views = Empty
    /\ file_locks = << >> /\ raised = FALSE /\ program \in Programs

-----------------------------------------------------------------------------
(* open_file_handle, and who calls it.                                     *)

NewEntry(p, data, at, w, r, fd) ==
    [path |-> p, data |-> data, position |-> at, writable |-> w, readable |-> r, fd |-> fd,
     file |-> IF p \in DOMAIN dir THEN dir[p] ELSE None]   \* not code: see HandleKeepsItsFile

Register(e) ==
    /\ entry' = Put(entry, next_handle, e)
    /\ file_handle_map' = Put(file_handle_map, next_handle, next_handle)
    /\ next_handle' = next_handle + 1

\* The number is taken before anything can fail.
OpenFails == /\ next_handle' = next_handle + 1
             /\ UNCHANGED <<hostVars, entry, file_handle_map>>

OpenNul(w) ==
    IF w THEN /\ FreeFds # {}
              /\ LET fd == Min(FreeFds)
                 IN  /\ fds' = Put(fds, fd, [inode |-> None, cursor |-> 0])
                     /\ Register(NewEntry(NUL, << >>, 0, TRUE, FALSE, fd))
              /\ UNCHANGED <<dir, bytes>>
         ELSE /\ Register(NewEntry(NUL, << >>, 0, FALSE, FALSE, None))
              /\ UNCHANGED hostVars

Truncates(disposition) == disposition \in {"CREATE_ALWAYS", "TRUNCATE_EXISTING"}

MustExist(disposition) == disposition \in {"OPEN_EXISTING", "TRUNCATE_EXISTING"}

\* The write branch; append is fopen's seek of position and cursor to the end.
OpenForWriting(p, readable, disposition, append) ==
    LET exists == p \in DOMAIN dir
        i  == IF exists THEN dir[p] ELSE Min(FreeInode)
        s  == IF exists /\ ~ Truncates(disposition) THEN bytes[i] ELSE << >>
        at == IF append THEN Len(s) ELSE 0
        fd == Min(FreeFds)
    IN  /\ exists => disposition # "CREATE_NEW"
        /\ ~ exists => ~ MustExist(disposition) /\ FreeInode # {}
        /\ FreeFds # {}
        /\ dir' = Put(dir, p, i)
        /\ bytes' = [bytes EXCEPT ![i] = s]
        /\ fds' = Put(fds, fd, [inode |-> i, cursor |-> at])
        /\ Register([NewEntry(p, << >>, at, TRUE, readable, fd) EXCEPT !.file = i])

OpenForReading(p) ==
    /\ p \in DOMAIN dir
    /\ Register(NewEntry(p, bytes[dir[p]], 0, FALSE, FALSE, None))
    /\ UNCHANGED hostVars

\* Any OSError of the host, or a disposition the path does not satisfy, fails.
Open(p, writable, readable, disposition, append) ==
    /\ next_handle <= MaxHandles
    /\ \/ p # NUL /\ OpenFails
       \/ p = NUL /\ OpenNul(writable)
       \/ p # NUL /\ writable /\ OpenForWriting(p, readable, disposition, append)
       \/ p # NUL /\ ~ writable /\ OpenForReading(p)
    /\ UNCHANGED <<mapVars, file_locks>> /\ Ok

Disposition == {"CREATE_NEW", "CREATE_ALWAYS", "OPEN_EXISTING", "OPEN_ALWAYS", "TRUNCATE_EXISTING"}

\* A disposition other than OPEN_EXISTING makes the handle writable.
CreateFile(p, write, read, disposition) ==
    Open(p, write \/ disposition # "OPEN_EXISTING", read, disposition, FALSE)

\* "r+" opens for reading only: neither "w" nor "a" is in it.
Fopen(p, mode) ==
    Open(p, mode # "r", mode \in {"w+", "a+"},
         IF mode \in {"a", "a+"} THEN "OPEN_ALWAYS" ELSE "CREATE_ALWAYS", mode \in {"a", "a+"})

LowOpen(p, oflag) == Open(p, oflag # "O_RDONLY", oflag = "O_RDWR", "CREATE_ALWAYS", FALSE)

-----------------------------------------------------------------------------
(* Closing and duplicating.                                                *)

\* Only the locks this handle value took on the path of its entry.
LocksAfterClose(h) ==
    Kept(file_locks, {l \in Range(file_locks) : l[1] # E(h).path \/ l[4] # h})

\* Mutant of Unmapped: the handle stays in file_handle_map.
Unmapped_Keeps(h) == file_handle_map

Unmapped(h) == Without(file_handle_map, {h})

\* os.close may fail on a descriptor another handle closed: only logged.
CloseHandle(h) ==
    /\ h < next_handle
    /\ IF Known(h)
       THEN /\ fds' = Without(fds, {E(h).fd})
            /\ file_locks' = LocksAfterClose(h)
       ELSE UNCHANGED <<fds, file_locks>>
    /\ file_handle_map' = Unmapped(h)
    /\ file_mapping_map' = Without(file_mapping_map, {h})
    /\ Ok /\ UNCHANGED <<dir, bytes, entry, next_handle, mapped_views>>

\* fclose and _close forget the handle; descriptor and locks stay.
Fclose(h) ==
    /\ Known(h)
    /\ file_handle_map' = Unmapped(h)
    /\ Ok /\ UNCHANGED <<hostVars, entry, next_handle, mapVars, file_locks>>

DuplicateHandle(h, close_source) ==
    /\ Known(h) /\ next_handle <= MaxHandles
    /\ file_handle_map' = Without(Put(file_handle_map, next_handle, file_handle_map[h]),
                                 IF close_source THEN {h} ELSE {})
    /\ next_handle' = next_handle + 1
    /\ Ok /\ UNCHANGED <<hostVars, entry, mapVars, file_locks>>

-----------------------------------------------------------------------------
(* Reading, writing and moving the position.                               *)

MoveTo(h, pos) == entry' = [entry EXCEPT ![file_handle_map[h]].position = pos]

OnlyPosition == Ok /\ UNCHANGED <<hostVars, file_handle_map, next_handle, mapVars, file_locks>>

\* WriteFile without OVERLAPPED, and _write: at the entry's position.
WriteFile(h) ==
    /\ Known(h) /\ E(h).writable
    /\ IF BadFd(E(h)) THEN Raise
       ELSE /\ E(h).position < MaxSize
            /\ Store(E(h).fd, Written(Held(E(h).fd), <<1>>, E(h).position))
            /\ MoveTo(h, E(h).position + 1)
            /\ Ok /\ UNCHANGED <<dir, fds, file_handle_map, next_handle, mapVars, file_locks>>

\* WriteFile with OVERLAPPED: the position stays.
WriteFileAt(h, at) ==
    /\ Known(h) /\ E(h).writable
    /\ IF BadFd(E(h)) THEN Raise
       ELSE /\ at < MaxSize
            /\ Store(E(h).fd, Written(Held(E(h).fd), <<1>>, at))
            /\ Ok /\ UNCHANGED <<dir, fds, tableVars, mapVars, file_locks>>

\* fwrite, fputs, fprintf: os.write, at the descriptor's own cursor.
StreamWrite(h) ==
    /\ Known(h) /\ E(h).writable
    /\ IF BadFd(E(h)) THEN Raise
       ELSE LET fd == E(h).fd
            IN  /\ fds[fd].cursor < MaxSize /\ E(h).position < MaxSize
                /\ Store(fd, Written(Held(fd), <<1>>, fds[fd].cursor))
                /\ fds' = [fds EXCEPT ![fd].cursor = @ + 1]
                /\ MoveTo(h, E(h).position + 1)
                /\ Ok /\ UNCHANGED <<dir, file_handle_map, next_handle, mapVars, file_locks>>

\* ReadFile without OVERLAPPED, _lread, and a stream or _read on a descriptor.
ReadFile(h, n) ==
    /\ Known(h) /\ (E(h).writable => E(h).readable)
    /\ IF BadFd(E(h)) THEN Raise
       ELSE LET data == IF Cached(E(h)) THEN E(h).data ELSE Held(E(h).fd)
            IN  /\ MoveTo(h, E(h).position + Len(Slice(data, E(h).position, n)))
                /\ OnlyPosition

\* fread and _read of a copy: the count is not kept from going below zero.
StreamRead(h, n) ==
    /\ Known(h) /\ Cached(E(h))
    /\ MoveTo(h, E(h).position + Min({n, Len(E(h).data) - E(h).position}))
    /\ OnlyPosition

\* fgets: some bytes of the copy, up to a line end.
Fgets(h, n) ==
    /\ Known(h) /\ E(h).position + n <= Len(E(h).data) /\ n > 0
    /\ MoveTo(h, E(h).position + n)
    /\ OnlyPosition

Target(e, distance, method, size) ==
    CASE method = "BEGIN"   -> distance
      [] method = "CURRENT" -> e.position + distance
      [] method = "END"     -> size + distance

Clamp(pos, size) == Max({0, Min({pos, size})})

\* Where SetFilePointer ends: a descriptor may be sought past the end.
Sought(e, pos) == IF e.writable THEN Max({0, pos}) ELSE Clamp(pos, Len(e.data))

SetFilePointer(h, distance, method) ==
    /\ Known(h)
    /\ IF method = "END" /\ BadFd(E(h)) THEN Raise
       ELSE LET size == IF method = "END" THEN SizeOf(E(h)) ELSE 0
                pos  == Sought(E(h), Target(E(h), distance, method, size))
            IN  pos <= MaxSize /\ MoveTo(h, pos) /\ OnlyPosition

\* _llseek and _lseek, within the file ...
Lseek(h, distance, method) ==
    /\ Known(h)
    /\ IF BadFd(E(h)) THEN Raise
       ELSE /\ MoveTo(h, Clamp(Target(E(h), distance, method, SizeOf(E(h))), SizeOf(E(h))))
            /\ OnlyPosition

\* ... and fseek, within the copy, which a descriptor's entry has not.
Fseek(h, distance, method) ==
    /\ Known(h)
    /\ LET size == Len(E(h).data)
       IN  MoveTo(h, Clamp(Target(E(h), distance, method, size), size))
    /\ OnlyPosition

Rewind(h) == Known(h) /\ MoveTo(h, 0) /\ OnlyPosition

SetEndOfFile(h) ==
    /\ Known(h) /\ E(h).writable
    /\ IF BadFd(E(h)) THEN Raise
       ELSE /\ Store(E(h).fd, Truncated(Held(E(h).fd), E(h).position))
            /\ Ok /\ UNCHANGED <<dir, fds, tableVars, mapVars, file_locks>>

\* The inode lives on for the descriptors that have it.
DeleteFile(p) ==
    /\ p \in DOMAIN dir
    /\ dir' = Without(dir, {p})
    /\ Ok /\ UNCHANGED <<bytes, fds, tableVars, mapVars, file_locks>>

-----------------------------------------------------------------------------
(* Byte-range locks: a range is [start, end).                              *)

\* Mutant of Conflicts: the ends are compared the wrong way round.
Conflicts_Contained(l, h, start, end) == l[4] # h /\ start < l[2] /\ l[3] < end

Conflicts(l, h, start, end) == l[4] # h /\ start < l[3] /\ l[2] < end

LockFile(h, start, end) ==
    /\ Known(h)
    /\ Len(file_locks) < MaxLocks
    /\ ~ \E l \in Range(file_locks) : l[1] = E(h).path /\ Conflicts(l, h, start, end)
    /\ file_locks' = Append(file_locks, <<E(h).path, start, end, h>>)
    /\ Ok /\ UNCHANGED <<hostVars, tableVars, mapVars>>

\* The first lock of exactly this handle and range.
UnlockFile(h, start, end) ==
    /\ Known(h)
    /\ Contains(file_locks, <<E(h).path, start, end, h>>)
    /\ file_locks' = RemoveFirst(file_locks, <<E(h).path, start, end, h>>)
    /\ Ok /\ UNCHANGED <<hostVars, tableVars, mapVars>>

-----------------------------------------------------------------------------
(* Mappings, and views, which are copies in the guest's heap.              *)

CreateFileMapping(h, max_size, readwrite) ==
    /\ next_handle <= MaxHandles
    /\ h = None \/ Known(h)
    /\ h = None => max_size > 0
    /\ file_mapping_map' = Put(file_mapping_map, next_handle,
                               [file |-> h, max_size |-> max_size, readwrite |-> readwrite])
    /\ next_handle' = next_handle + 1
    /\ Ok /\ UNCHANGED <<hostVars, entry, file_handle_map, mapped_views, file_locks>>

\* The entry a mapping's file handle names now, looked up at every call: none
\* when the mapping is anonymous or closed, or its file handle is closed.
Mapped(m) ==
    IF m \in DOMAIN file_mapping_map /\ Known(file_mapping_map[m].file)
    THEN {file_handle_map[file_mapping_map[m].file]} ELSE {}

BytesOf(e) == IF Cached(e) THEN e.data ELSE Held(e.fd)

ViewSize(m, offset, n) ==
    IF n # 0 THEN n
    ELSE IF file_mapping_map[m].max_size # 0 THEN file_mapping_map[m].max_size - offset
    ELSE SumSet({SizeOf(entry[x]) - offset : x \in Mapped(m)})

\* The view is a block of the heap, zero past what the file supplies.
MapViewOfFile(m, offset, n, write) ==
    /\ m \in DOMAIN file_mapping_map /\ Base \ DOMAIN mapped_views # {}
    /\ IF \E x \in Mapped(m) : BadFd(entry[x]) THEN Raise
       ELSE LET size == ViewSize(m, offset, n)
                file == IF Mapped(m) = {} THEN << >>
                        ELSE BytesOf(entry[CHOOSE x \in Mapped(m) : TRUE])
            IN  /\ size \in 1..(MaxSize - offset)
                /\ mapped_views' = Put(mapped_views, Min(Base \ DOMAIN mapped_views),
                     [mapping |-> m, offset |-> offset,
                      writable |-> file_mapping_map[m].readwrite /\ write,
                      mem |-> Truncated(Slice(file, offset, size), size),
                      from |-> Mapped(m)])   \* not code: see FlushReaches
                /\ Ok /\ UNCHANGED <<hostVars, tableVars, file_mapping_map, file_locks>>

\* An instruction of the guest writes into a view.
StoreToView(v, i) ==
    /\ v \in DOMAIN mapped_views /\ i \in DOMAIN mapped_views[v].mem
    /\ mapped_views' = [mapped_views EXCEPT ![v].mem[i] = 1]
    /\ Ok /\ UNCHANGED <<hostVars, tableVars, file_mapping_map, file_locks>>

Flushed(v) == IF mapped_views[v].writable THEN Mapped(mapped_views[v].mapping) ELSE {}

FlushOffset(v) == mapped_views[v].offset

\* A writable view is written to its file, or to the entry's own copy.
UnmapViewOfFile(v) ==
    /\ v \in DOMAIN mapped_views
    /\ IF \E x \in Flushed(v) : BadFd(entry[x])
       THEN \* the view is popped first
            /\ raised' = TRUE /\ UNCHANGED <<bytes, entry>>
       ELSE /\ Ok
            /\ \/ Flushed(v) = {} /\ UNCHANGED <<bytes, entry>>
               \/ \E x \in Flushed(v) :
                    LET e == entry[x]
                        s == Written(BytesOf(e), mapped_views[v].mem, FlushOffset(v))
                    IN  IF Cached(e)
                        THEN entry' = [entry EXCEPT ![x].data = s] /\ UNCHANGED bytes
                        ELSE Store(e.fd, s) /\ UNCHANGED entry
    /\ mapped_views' = Without(mapped_views, {v})
    /\ UNCHANGED <<dir, fds, file_handle_map, next_handle, file_mapping_map, file_locks>>

-----------------------------------------------------------------------------
Distance == {-1, 0, 1}
Whence   == {"BEGIN", "CURRENT", "END"}

OnHandle(h) ==
    \/ CloseHandle(h)
    \/ "fclose" \in program /\ Fclose(h)
    \/ "DuplicateHandle" \in program /\ \E c \in BOOLEAN : DuplicateHandle(h, c)
    \/ "WriteFile" \in program /\ (WriteFile(h) \/ \E at \in Offset : WriteFileAt(h, at))
    \/ "ReadFile" \in program /\ \E n \in 1..2 : ReadFile(h, n)
    \/ "fwrite" \in program /\ StreamWrite(h)
    \/ "fread" \in program /\ \E n \in 1..2 : StreamRead(h, n) \/ Fgets(h, n)
    \/ "SetFilePointer" \in program /\ \E d \in Distance, m \in Whence : SetFilePointer(h, d, m)
    \/ "_lseek" \in program /\ \E d \in Distance, m \in Whence : Lseek(h, d, m)
    \/ "fseek" \in program /\ (Rewind(h) \/ \E d \in Distance, m \in Whence : Fseek(h, d, m))
    \/ "SetEndOfFile" \in program /\ SetEndOfFile(h)
    \/ "LockFile" \in program /\ \E a \in Offset, b \in Offset : LockFile(h, a, b) \/ UnlockFile(h, a, b)

OnPath(p) ==
    \/ "CreateFile" \in program /\ \E w \in BOOLEAN, r \in BOOLEAN, d \in Disposition : CreateFile(p, w, r, d)
    \/ "fopen" \in program /\ \E mode \in {"r", "w", "w+", "a", "a+"} : Fopen(p, mode)
    \/ "_open" \in program /\ \E oflag \in {"O_RDONLY", "O_WRONLY", "O_RDWR"} : LowOpen(p, oflag)
    \/ "DeleteFile" \in program /\ DeleteFile(p)

OnMapping ==
    /\ "CreateFileMapping" \in program
    /\ \/ \E h \in Handle \cup {None}, n \in {0, MaxSize}, rw \in BOOLEAN : CreateFileMapping(h, n, rw)
       \/ \E m \in Handle, at \in Offset, n \in Offset, w \in BOOLEAN : MapViewOfFile(m, at, n, w)
       \/ \E v \in Base : UnmapViewOfFile(v) \/ \E i \in 1..MaxSize : StoreToView(v, i)

Next ==
    /\ ~ raised /\ UNCHANGED program
    /\ \/ \E h \in Handle : OnHandle(h)
       \/ \E p \in Device : OnPath(p)
       \/ OnMapping

Spec == Init /\ [][Next]_vars
-----------------------------------------------------------------------------
\* A handle opened for writing writes to the file it was opened on for as long
\* as the guest has it: closing some other handle, and opening more files, does
\* not take its descriptor away (CloseHandle, open_file_handle).
KeepsItsFile(e) == Cached(e) \/ (e.fd \in DOMAIN fds /\ fds[e.fd].inode = e.file)

\* Duplicated handles share one descriptor, and CloseHandle of either closes it
\* for both: the property is about programs that duplicate no handle.
HandleKeepsItsFile ==
    "DuplicateHandle" \notin program => \A h \in DOMAIN file_handle_map : KeepsItsFile(E(h))

\* Two handles never hold overlapping ranges of one file, whatever closes,
\* deletions and reopenings came between (LockFile, UnlockFile).
LocksExclude ==
    \A l, k \in Range(file_locks) :
        (l[1] = k[1] /\ l[4] # k[4]) => ~ (l[2] < k[3] /\ k[2] < l[3])

\* A lock has a holder that can release it: the close of a handle takes its
\* locks along (CloseHandle).  Not so for fclose, _close and DUPLICATE_CLOSE_SOURCE.
LocksHaveHolders ==
    \/ program \cap {"fclose", "DuplicateHandle"} # {}
    \/ \A l \in Range(file_locks) : Known(l[4])

\* File locks: granted to one handle at a time, and released with it.
LocksAreHeld == LocksExclude /\ LocksHaveHolders
=============================================================================
