--------------------------- MODULE ResourcesProofs ---------------------------
(***************************************************************************)
(* What holds of the things a guest opens, shares and gives back, for all  *)
(* values of the constants.                                                *)
(***************************************************************************)
EXTENDS Files, FindFiles, D3DObjects, D3DFrames, DataLemmas

-----------------------------------------------------------------------------
(***************************************************************************)
(* File handles, for any numbers of files, descriptors and handles.  What  *)
(* keeps a handle on its file is that no two handles of a program that     *)
(* duplicates none share a descriptor, so that the close of one takes no   *)
(* descriptor of another; a descriptor's number is given again only after  *)
(* it was closed.  A lock bears the path of its holder's entry, which the  *)
(* close of the handle looks for.                                          *)
(***************************************************************************)

Content == Seq({0, 1})

EntryRecord == [path : Device, data : Content, position : Nat, writable : BOOLEAN,
                readable : BOOLEAN, fd : Fd \cup {None}, file : Inode \cup {None}]
FdRecord == [inode : Inode \cup {None}, cursor : Nat]
MappingRecord == [file : Handle \cup {None}, max_size : Nat, readwrite : BOOLEAN]
ViewRecord == [mapping : Handle, offset : Nat, writable : BOOLEAN, mem : Content,
               from : SUBSET Handle]
LockRecord == Device \X Nat \X Nat \X Handle

HostInv ==
    /\ DOMAIN dir \subseteq Path /\ \A p \in DOMAIN dir : dir[p] \in Inode
    /\ bytes \in [Inode -> Content]
    /\ DOMAIN fds \subseteq Fd /\ \A f \in DOMAIN fds : fds[f] \in FdRecord

HandlesInv ==
    /\ next_handle \in 1 .. MaxHandles + 1
    /\ \A h \in DOMAIN file_handle_map : h \in 1 .. next_handle - 1
                                         /\ file_handle_map[h] \in DOMAIN entry
    /\ \A x \in DOMAIN entry : x \in 1 .. next_handle - 1 /\ entry[x] \in EntryRecord
                               /\ (entry[x].writable <=> entry[x].fd # None)

OwnEntries ==
    "DuplicateHandle" \notin program =>
        \A h \in DOMAIN file_handle_map : file_handle_map[h] = h /\ KeepsItsFile(entry[h])

OwnDescriptors ==
    "DuplicateHandle" \notin program =>
        \A h, k \in DOMAIN file_handle_map :
            entry[h].fd = entry[k].fd /\ entry[h].fd # None => h = k

OwnLocks ==
    program \cap {"fclose", "DuplicateHandle"} = {} =>
        \A l \in Range(file_locks) : Known(l[4]) /\ l[1] = E(l[4]).path

LocksInv == file_locks \in Seq(LockRecord) /\ LocksExclude /\ OwnLocks

ViewsInv ==
    /\ \A m \in DOMAIN file_mapping_map : m \in Handle /\ file_mapping_map[m] \in MappingRecord
    /\ \A v \in DOMAIN mapped_views : v \in Base /\ mapped_views[v] \in ViewRecord

TablesInv == HostInv /\ HandlesInv /\ OwnEntries /\ OwnDescriptors /\ LocksInv

FilesInv == TablesInv /\ ViewsInv /\ program \in Programs /\ raised \in BOOLEAN

\* What most calls leave as it is.
SameFile(e, d) == e.path = d.path /\ e.fd = d.fd /\ e.file = d.file /\ e.writable = d.writable

HostKept ==
    /\ DOMAIN dir' \subseteq Path /\ \A p \in DOMAIN dir' : dir'[p] \in Inode
    /\ bytes' \in [Inode -> Content]
    /\ DOMAIN fds' = DOMAIN fds
    /\ \A f \in DOMAIN fds : fds'[f] \in FdRecord /\ fds'[f].inode = fds[f].inode

EntriesKept ==
    /\ DOMAIN entry' = DOMAIN entry
    /\ \A x \in DOMAIN entry : entry'[x] \in EntryRecord /\ SameFile(entry'[x], entry[x])

LocksKept == file_locks' \in Seq(LockRecord) /\ Range(file_locks') \subseteq Range(file_locks)

\* A call that opens and closes nothing keeps the tables in order.
LEMMA TablesKept ==
    ASSUME TablesInv, HostKept, EntriesKept, LocksKept,
           UNCHANGED <<file_handle_map, next_handle, program>>
    PROVE  TablesInv'
<1>1. HostInv'
  BY DEF HostKept, HostInv, TablesInv
<1>2. HandlesInv'
  <2>1. ASSUME NEW x \in DOMAIN entry
        PROVE  x \in 1 .. next_handle - 1 /\ entry'[x] \in EntryRecord
               /\ (entry'[x].writable <=> entry'[x].fd # None)
    BY DEF EntriesKept, SameFile, TablesInv, HandlesInv
  <2> QED BY <2>1 DEF EntriesKept, TablesInv, HandlesInv
<1>3. OwnEntries'
  <2>1. \A h \in DOMAIN file_handle_map : h = file_handle_map[h] => h \in DOMAIN entry
    BY DEF TablesInv, HandlesInv
  <2>2. \A h \in DOMAIN entry : KeepsItsFile(entry[h]) => KeepsItsFile(entry[h])'
    BY DEF EntriesKept, SameFile, KeepsItsFile, Cached, HostKept
  <2> QED BY <2>1, <2>2 DEF OwnEntries, TablesInv
<1>4. OwnDescriptors'
  <2> SUFFICES ASSUME "DuplicateHandle" \notin program, NEW h \in DOMAIN file_handle_map,
                      NEW k \in DOMAIN file_handle_map, entry'[h].fd = entry'[k].fd,
                      entry'[h].fd # None
               PROVE  h = k
    BY DEF OwnDescriptors
  <2>1. h \in DOMAIN entry /\ k \in DOMAIN entry
    BY DEF TablesInv, HandlesInv, OwnEntries
  <2>2. entry'[h].fd = entry[h].fd /\ entry'[k].fd = entry[k].fd
    BY <2>1 DEF EntriesKept, SameFile
  <2> QED BY <2>2 DEF TablesInv, OwnDescriptors
<1>5. LocksInv'
  <2>1. LocksExclude'
    BY DEF LocksKept, LocksExclude, TablesInv, LocksInv
  <2>2. \A h \in DOMAIN file_handle_map : E(h)'.path = E(h).path
    BY DEF E, TablesInv, HandlesInv, EntriesKept, SameFile
  <2>3. OwnLocks'
    <3> SUFFICES ASSUME program \cap {"fclose", "DuplicateHandle"} = {},
                        NEW l \in Range(file_locks')
                 PROVE  Known(l[4])' /\ l[1] = E(l[4])'.path
      BY DEF OwnLocks
    <3>1. Known(l[4]) /\ l[1] = E(l[4]).path
      BY DEF LocksKept, TablesInv, LocksInv, OwnLocks
    <3> QED BY <2>2, <3>1 DEF Known
  <2> QED BY <2>1, <2>3 DEF LocksKept, LocksInv
<1> QED BY <1>1, <1>2, <1>3, <1>4, <1>5 DEF TablesInv


\* Contents that are written, cut off and read are contents.
LEMMA WrittenContent ==
    ASSUME NEW s \in Content, NEW d \in Content, NEW at \in Nat
    PROVE  Written(s, d, at) \in Content
<1> DEFINE n == Max({Len(s), at + Len(d)})
<1>1. n \in Nat
  <2> DEFINE a == Len(s)
             b == at + Len(d)
  <2>1. a \in Nat /\ b \in Nat /\ a \in Int /\ b \in Int
    BY DEF Content
  <2> HIDE DEF a, b
  <2>2. Max({a, b}) \in {a, b}
    BY <2>1, MaxOfTwo
  <2> QED BY <2>1, <2>2 DEF a, b
<1>2. ASSUME NEW i \in 1 .. n
      PROVE  (IF i \in (at + 1)..(at + Len(d)) THEN d[i - at]
              ELSE IF i <= Len(s) THEN s[i] ELSE 0) \in {0, 1}
  <2>1. i \in (at + 1)..(at + Len(d)) => i - at \in 1 .. Len(d)
    BY DEF Content
  <2>2. i \in 1 .. n /\ i <= Len(s) => i \in 1 .. Len(s)
    BY <1>1 DEF Content
  <2> QED BY <2>1, <2>2 DEF Content
<1> HIDE DEF n
<1>3. [i \in 1 .. n |-> IF i \in (at + 1)..(at + Len(d)) THEN d[i - at]
                        ELSE IF i <= Len(s) THEN s[i] ELSE 0] \in Content
  BY <1>1, <1>2 DEF Content
<1> QED BY <1>3 DEF Written, n

\* A file cut or extended is a file.
LEMMA TruncatedContent ==
    ASSUME NEW s \in Content, NEW n \in Nat PROVE Truncated(s, n) \in Content
<1>1. ASSUME NEW i \in 1 .. n PROVE (IF i <= Len(s) THEN s[i] ELSE 0) \in {0, 1}
  BY DEF Content
<1> QED BY <1>1 DEF Truncated, Content

\* A part of a file is one.
LEMMA SliceContent ==
    ASSUME NEW s \in Content, NEW from \in Nat, NEW n \in Nat PROVE Slice(s, from, n) \in Content
<1> DEFINE b == Min({Len(s), from + n})
<1>1. Len(s) \in Nat /\ b \in Nat /\ b <= Len(s)
  <2>1. Len(s) \in Int /\ from + n \in Int /\ Len(s) \in Nat /\ from + n \in Nat
    BY DEF Content
  <2>2. b \in {Len(s), from + n} /\ b <= Len(s)
    BY <2>1, MinOfTwo
  <2> QED BY <2>1, <2>2
<1> HIDE DEF b
<1>2. \A i \in from + 1 .. b : s[i] \in {0, 1}
  BY <1>1 DEF Content
<1>3. SubSeq(s, from + 1, b) \in Content
  <2>1. from + 1 \in Int /\ b \in Int
    BY <1>1
  <2> QED BY <1>2, <2>1, SubSeqProperties DEF Content
<1> QED BY <1>3 DEF Slice, b

\* What a descriptor holds is a file.
LEMMA HeldContent ==
    ASSUME HostInv, NEW fd \in DOMAIN fds PROVE Held(fd) \in Content
<1>1. fds[fd].inode \in Inode \cup {None}
  BY DEF HostInv, FdRecord
<1>2. << >> \in Content
  BY DEF Content
<1> QED BY <1>1, <1>2 DEF Held, HostInv

\* What an entry reads is a file, from its cache or its descriptor.
LEMMA EntryContent ==
    ASSUME HostInv, NEW e \in EntryRecord, ~ BadFd(e)
    PROVE  /\ BytesOf(e) \in Content /\ SizeOf(e) \in Nat
           /\ Cached(e) => e.data \in Content
           /\ ~ Cached(e) => e.fd \in DOMAIN fds /\ Held(e.fd) \in Content
<1>1. e.data \in Content /\ Len(e.data) \in Nat
  BY DEF EntryRecord, Content
<1>2. ~ Cached(e) => e.fd \in DOMAIN fds /\ Held(e.fd) \in Content
  BY HeldContent DEF BadFd
<1>3. ~ Cached(e) => Len(Held(e.fd)) \in Nat
  BY <1>2 DEF Content
<1> QED BY <1>1, <1>2, <1>3 DEF BytesOf, SizeOf

\* Writing a file keeps the types of all.
LEMMA StoreKeeps ==
    ASSUME HostInv, NEW fd, NEW s \in Content, Store(fd, s) PROVE bytes' \in [Inode -> Content]
BY DEF Store, HostInv

\* A handle's entry, and what it is when its position moves.
LEMMA EntryOf ==
    ASSUME HandlesInv, NEW h, Known(h)
    PROVE  /\ file_handle_map[h] \in DOMAIN entry /\ E(h) \in EntryRecord
           /\ E(h).position \in Nat /\ E(h).data \in Content
BY DEF HandlesInv, Known, E, EntryRecord

\* What a step leaves alone it keeps.
LEMMA NothingChanged ==
    ASSUME TablesInv
    PROVE  /\ UNCHANGED hostVars => HostKept
           /\ UNCHANGED entry => EntriesKept
           /\ UNCHANGED file_locks => LocksKept
<1>1. UNCHANGED hostVars => HostKept
  BY DEF TablesInv, HostInv, HostKept, hostVars
<1>2. UNCHANGED entry => EntriesKept
  BY DEF TablesInv, HandlesInv, EntriesKept, SameFile
<1>3. UNCHANGED file_locks => LocksKept
  BY DEF TablesInv, LocksInv, LocksKept
<1> QED BY <1>1, <1>2, <1>3

\* Moving the position of a handle keeps the entries.
LEMMA PositionKeeps ==
    ASSUME HandlesInv, NEW h, Known(h), NEW pos \in Nat, MoveTo(h, pos) PROVE EntriesKept
<1> DEFINE x == file_handle_map[h]
           e == [entry[x] EXCEPT !.position = pos]
<1>1. x \in DOMAIN entry /\ entry[x] \in EntryRecord
  BY EntryOf DEF E
<1>2. e \in EntryRecord /\ SameFile(e, entry[x])
  BY <1>1 DEF EntryRecord, SameFile
<1>3. DOMAIN entry' = DOMAIN entry /\ entry'[x] = e
      /\ \A y \in DOMAIN entry : y # x => entry'[y] = entry[y]
  BY <1>1 DEF MoveTo
<1>4. \A y \in DOMAIN entry : entry[y] \in EntryRecord /\ SameFile(entry[y], entry[y])
  BY DEF HandlesInv, SameFile
<1> HIDE DEF e, x
<1> QED BY <1>2, <1>3, <1>4 DEF EntriesKept

\* A call that raises keeps the invariant of the files.
LEMMA RaiseKeeps == ASSUME FilesInv, Raise, UNCHANGED program PROVE FilesInv'
<1>1. TablesInv'
  BY TablesKept, NothingChanged DEF Raise, FilesInv, tableVars
<1> QED BY <1>1 DEF Raise, FilesInv, ViewsInv, mapVars

\* The calls that only move a position.
LEMMA OnlyMoves ==
    ASSUME FilesInv, NEW h, Known(h), NEW pos \in Nat, MoveTo(h, pos), OnlyPosition,
           UNCHANGED program
    PROVE  FilesInv'
<1>1. TablesInv'
  BY PositionKeeps, TablesKept, NothingChanged DEF OnlyPosition, FilesInv, TablesInv
<1> QED BY <1>1 DEF OnlyPosition, Ok, FilesInv, ViewsInv, mapVars

\* ReadFile, fread and fgets keep it.
LEMMA ReadsKeep ==
    ASSUME FilesInv, UNCHANGED program, NEW h, NEW n \in Nat,
           ReadFile(h, n) \/ StreamRead(h, n) \/ Fgets(h, n)
    PROVE  FilesInv'
<1>1. HandlesInv /\ HostInv
  BY DEF FilesInv, TablesInv
<1>2. CASE ReadFile(h, n)
  <2>1. CASE BadFd(E(h))
    BY <1>2, <2>1, RaiseKeeps DEF ReadFile
  <2>2. CASE ~ BadFd(E(h))
    <3> DEFINE data == IF Cached(E(h)) THEN E(h).data ELSE Held(E(h).fd)
               pos == E(h).position + Len(Slice(data, E(h).position, n))
    <3>1. Known(h) /\ MoveTo(h, pos) /\ OnlyPosition
      BY <1>2, <2>2 DEF ReadFile
    <3>2. E(h) \in EntryRecord /\ E(h).position \in Nat
      BY <1>1, <3>1, EntryOf
    <3>3. data \in Content
      BY <1>1, <2>2, <3>2, EntryContent
    <3>4. Slice(data, E(h).position, n) \in Content
      BY <3>2, <3>3, SliceContent
    <3>5. pos \in Nat
      BY <3>2, <3>4 DEF Content
    <3> HIDE DEF pos
    <3> QED BY <3>1, <3>5, OnlyMoves
  <2> QED BY <2>1, <2>2
<1>3. CASE StreamRead(h, n)
  <2> DEFINE p == E(h).position
             z == Len(E(h).data)
             pos == p + Min({n, z - p})
  <2>1. Known(h) /\ MoveTo(h, pos) /\ OnlyPosition
    BY <1>3 DEF StreamRead
  <2>2. p \in Nat /\ z \in Nat
    BY <1>1, <2>1, EntryOf DEF Content
  <2> HIDE DEF p, z
  <2>3. Min({n, z - p}) \in {n, z - p}
    <3>1. n \in Int /\ z - p \in Int
      BY <2>2
    <3> QED BY <3>1, MinOfTwo
  <2>4. pos \in Nat
    BY <2>2, <2>3
  <2> HIDE DEF pos
  <2> QED BY <2>1, <2>4, OnlyMoves
<1>4. CASE Fgets(h, n)
  <2>1. Known(h) /\ MoveTo(h, E(h).position + n) /\ OnlyPosition
    BY <1>4 DEF Fgets
  <2>2. E(h).position + n \in Nat
    BY <1>1, <2>1, EntryOf
  <2> QED BY <2>1, <2>2, OnlyMoves
<1> QED BY <1>2, <1>3, <1>4


\* Where a seek ends is no less than zero.
LEMMA ClampsToNat == ASSUME NEW pos \in Int, NEW size \in Nat PROVE Clamp(pos, size) \in Nat
<1>1. Min({pos, size}) \in Int
  <2>1. size \in Int
    OBVIOUS
  <2>2. Min({pos, size}) \in {pos, size}
    BY <2>1, MinOfTwo
  <2> QED BY <2>1, <2>2
<1> DEFINE b == Min({pos, size})
<1> HIDE DEF b
<1>2. Max({0, b}) \in {0, b} /\ Max({0, b}) >= 0
  <2>1. 0 \in Int /\ b \in Int
    BY <1>1 DEF b
  <2> QED BY <2>1, MaxOfTwo
<1>3. Max({0, b}) \in Nat
  BY <1>1, <1>2 DEF b
<1> QED BY <1>3 DEF Clamp, b

\* The place a seek asks for is a number.
LEMMA TargetIsInt ==
    ASSUME NEW e, e.position \in Nat, NEW distance \in Int, NEW method \in Whence, NEW size \in Nat
    PROVE  Target(e, distance, method, size) \in Int
<1>1. method = "BEGIN" \/ method = "CURRENT" \/ method = "END"
  BY DEF Whence
<1> QED BY <1>1 DEF Target

\* The place it goes to is not negative.
LEMMA SoughtInNat == ASSUME NEW e \in EntryRecord, NEW pos \in Int PROVE Sought(e, pos) \in Nat
<1>1. Len(e.data) \in Nat
  BY DEF EntryRecord, Content
<1>2. Clamp(pos, Len(e.data)) \in Nat
  BY <1>1, ClampsToNat
<1>3. Max({0, pos}) \in Nat
  <2>1. Max({0, pos}) \in {0, pos} /\ Max({0, pos}) >= 0
    <3>1. 0 \in Int
      OBVIOUS
    <3> QED BY <3>1, MaxOfTwo
  <2> QED BY <2>1
<1> QED BY <1>2, <1>3 DEF Sought

\* The seeks keep the invariant.
LEMMA SeeksKeep ==
    ASSUME FilesInv, UNCHANGED program, NEW h, NEW d \in Int, NEW m \in Whence,
           SetFilePointer(h, d, m) \/ Lseek(h, d, m) \/ Fseek(h, d, m) \/ Rewind(h)
    PROVE  FilesInv'
<1>1. /\ Known(h) /\ HandlesInv /\ HostInv
      /\ E(h) \in EntryRecord /\ E(h).position \in Nat /\ E(h).data \in Content
  <2>1. Known(h) /\ HandlesInv /\ HostInv
    BY DEF FilesInv, TablesInv, SetFilePointer, Lseek, Fseek, Rewind
  <2> QED BY <2>1, EntryOf
<1>2. CASE SetFilePointer(h, d, m)
  <2>1. CASE m = "END" /\ BadFd(E(h))
    BY <1>2, <2>1, RaiseKeeps DEF SetFilePointer
  <2>2. CASE ~ (m = "END" /\ BadFd(E(h)))
    <3> DEFINE size == IF m = "END" THEN SizeOf(E(h)) ELSE 0
               pos == Sought(E(h), Target(E(h), d, m, size))
    <3>1. MoveTo(h, pos) /\ OnlyPosition
      BY <1>2, <2>2 DEF SetFilePointer
    <3>2. size \in Nat
      BY <1>1, <2>2, EntryContent
    <3> HIDE DEF size
    <3>3. Target(E(h), d, m, size) \in Int
      BY <1>1, <3>2, TargetIsInt
    <3>4. pos \in Nat
      BY <1>1, <3>3, SoughtInNat
    <3> HIDE DEF pos
    <3> QED BY <1>1, <3>1, <3>4, OnlyMoves
  <2> QED BY <2>1, <2>2
<1>3. CASE Lseek(h, d, m)
  <2>1. CASE BadFd(E(h))
    BY <1>3, <2>1, RaiseKeeps DEF Lseek
  <2>2. CASE ~ BadFd(E(h))
    <3> DEFINE pos == Clamp(Target(E(h), d, m, SizeOf(E(h))), SizeOf(E(h)))
    <3>1. MoveTo(h, pos) /\ OnlyPosition
      BY <1>3, <2>2 DEF Lseek
    <3>2. SizeOf(E(h)) \in Nat
      BY <1>1, <2>2, EntryContent
    <3>3. Target(E(h), d, m, SizeOf(E(h))) \in Int
      BY <1>1, <3>2, TargetIsInt
    <3>4. pos \in Nat
      BY <3>2, <3>3, ClampsToNat
    <3> HIDE DEF pos
    <3> QED BY <1>1, <3>1, <3>4, OnlyMoves
  <2> QED BY <2>1, <2>2
<1>4. CASE Fseek(h, d, m)
  <2> DEFINE size == Len(E(h).data)
             pos == Clamp(Target(E(h), d, m, size), size)
  <2>1. MoveTo(h, pos) /\ OnlyPosition
    BY <1>4 DEF Fseek
  <2>2. size \in Nat
    BY <1>1 DEF Content
  <2> HIDE DEF size
  <2>3. Target(E(h), d, m, size) \in Int
    BY <1>1, <2>2, TargetIsInt
  <2>4. pos \in Nat
    BY <2>2, <2>3, ClampsToNat
  <2> HIDE DEF pos
  <2> QED BY <1>1, <2>1, <2>4, OnlyMoves
<1>5. CASE Rewind(h)
  BY <1>1, <1>5, OnlyMoves DEF Rewind
<1> QED BY <1>2, <1>3, <1>4, <1>5

\* The calls that write through a descriptor.
LEMMA StoreTables ==
    ASSUME FilesInv, NEW fd, NEW s \in Content, Store(fd, s), EntriesKept,
           UNCHANGED <<dir, file_handle_map, next_handle, file_locks, program>>,
           DOMAIN fds' = DOMAIN fds,
           \A f \in DOMAIN fds : fds'[f] \in FdRecord /\ fds'[f].inode = fds[f].inode
    PROVE  TablesInv'
<1>1. HostKept
  BY StoreKeeps DEF FilesInv, TablesInv, HostInv, HostKept
<1> QED BY <1>1, NothingChanged, TablesKept DEF FilesInv

\* Descriptors untouched hold what they held.
LEMMA SameFds ==
    ASSUME FilesInv, UNCHANGED fds
    PROVE  /\ DOMAIN fds' = DOMAIN fds
           /\ \A f \in DOMAIN fds : fds'[f] \in FdRecord /\ fds'[f].inode = fds[f].inode
BY DEF FilesInv, TablesInv, HostInv

\* So they do when the cursor of one moves.
LEMMA CursorMoved ==
    ASSUME FilesInv, NEW fd \in DOMAIN fds, fds' = [fds EXCEPT ![fd].cursor = @ + 1]
    PROVE  /\ DOMAIN fds' = DOMAIN fds
           /\ \A f \in DOMAIN fds : fds'[f] \in FdRecord /\ fds'[f].inode = fds[f].inode
<1> DEFINE e == [fds[fd] EXCEPT !.cursor = @ + 1]
<1>1. \A f \in DOMAIN fds : fds[f] \in FdRecord
  BY DEF FilesInv, TablesInv, HostInv
<1>2. e \in FdRecord /\ e.inode = fds[fd].inode
  BY <1>1 DEF FdRecord
<1>3. DOMAIN fds' = DOMAIN fds /\ fds'[fd] = e /\ \A f \in DOMAIN fds : f # fd => fds'[f] = fds[f]
  OBVIOUS
<1> HIDE DEF e
<1> QED BY <1>1, <1>2, <1>3

\* The writes and SetEndOfFile keep the invariant.
LEMMA WritesKeep ==
    ASSUME FilesInv, UNCHANGED program, NEW h, NEW at \in Nat,
           WriteFile(h) \/ WriteFileAt(h, at) \/ StreamWrite(h) \/ SetEndOfFile(h)
    PROVE  FilesInv'
<1> DEFINE fd == E(h).fd
           s == Held(fd)
           p == E(h).position
<1>1. Known(h) /\ E(h).writable /\ HandlesInv /\ HostInv
  BY DEF WriteFile, WriteFileAt, StreamWrite, SetEndOfFile, FilesInv, TablesInv
<1>2. E(h) \in EntryRecord /\ p \in Nat /\ p + 1 \in Nat /\ ~ Cached(E(h))
  BY <1>1, EntryOf DEF HandlesInv, E, Cached
<1>3. CASE BadFd(E(h))
  BY <1>3, RaiseKeeps DEF WriteFile, WriteFileAt, StreamWrite, SetEndOfFile
<1>4. CASE ~ BadFd(E(h))
  <2>1. fd \in DOMAIN fds /\ s \in Content /\ <<1>> \in Content
    BY <1>1, <1>2, <1>4, EntryContent DEF Content
  <2>2. fds[fd] \in FdRecord /\ fds[fd].cursor \in Nat
    BY <1>1, <2>1 DEF HostInv, FdRecord
  <2> HIDE DEF fd, s, p
  <2>3. UNCHANGED mapVars => ViewsInv'
    BY DEF ViewsInv, mapVars, FilesInv
  <2>4. /\ Written(s, <<1>>, p) \in Content /\ Written(s, <<1>>, at) \in Content
        /\ Written(s, <<1>>, fds[fd].cursor) \in Content /\ Truncated(s, p) \in Content
    BY <1>2, <2>1, <2>2, WrittenContent, TruncatedContent
  <2>5. CASE WriteFile(h)
    <3>1. /\ Store(fd, Written(s, <<1>>, p)) /\ MoveTo(h, p + 1) /\ Ok
          /\ UNCHANGED <<dir, fds, file_handle_map, next_handle, mapVars, file_locks>>
      BY <1>4, <2>5 DEF WriteFile, fd, s, p
    <3>2. EntriesKept
      BY <1>1, <1>2, <3>1, PositionKeeps
    <3>3. TablesInv'
      BY <2>4, <3>1, <3>2, SameFds, StoreTables
    <3> QED BY <2>3, <3>1, <3>3 DEF Ok, FilesInv
  <2>6. CASE WriteFileAt(h, at)
    <3>1. /\ Store(fd, Written(s, <<1>>, at)) /\ Ok
          /\ UNCHANGED <<dir, fds, tableVars, mapVars, file_locks>>
      BY <1>4, <2>6 DEF WriteFileAt, fd, s
    <3>2. EntriesKept /\ UNCHANGED <<file_handle_map, next_handle>>
      BY <3>1, NothingChanged DEF tableVars, FilesInv
    <3>3. TablesInv'
      BY <2>4, <3>1, <3>2, SameFds, StoreTables
    <3> QED BY <2>3, <3>1, <3>3 DEF Ok, FilesInv
  <2>7. CASE StreamWrite(h)
    <3>1. /\ Store(fd, Written(s, <<1>>, fds[fd].cursor)) /\ MoveTo(h, p + 1) /\ Ok
          /\ fds' = [fds EXCEPT ![fd].cursor = @ + 1]
          /\ UNCHANGED <<dir, file_handle_map, next_handle, mapVars, file_locks>>
      BY <1>4, <2>7 DEF StreamWrite, fd, s, p
    <3>2. EntriesKept
      BY <1>1, <1>2, <3>1, PositionKeeps
    <3>3. TablesInv'
      BY <2>1, <2>4, <3>1, <3>2, CursorMoved, StoreTables
    <3> QED BY <2>3, <3>1, <3>3 DEF Ok, FilesInv
  <2>8. CASE SetEndOfFile(h)
    <3>1. /\ Store(fd, Truncated(s, p)) /\ Ok
          /\ UNCHANGED <<dir, fds, tableVars, mapVars, file_locks>>
      BY <1>4, <2>8 DEF SetEndOfFile, fd, s, p
    <3>2. EntriesKept /\ UNCHANGED <<file_handle_map, next_handle>>
      BY <3>1, NothingChanged DEF tableVars, FilesInv
    <3>3. TablesInv'
      BY <2>4, <3>1, <3>2, SameFds, StoreTables
    <3> QED BY <2>3, <3>1, <3>3 DEF Ok, FilesInv
  <2> QED BY <2>5, <2>6, <2>7, <2>8
<1> QED BY <1>3, <1>4


\* DeleteFile does: a descriptor may still hold the file.
LEMMA DeleteKeeps == ASSUME FilesInv, UNCHANGED program, NEW p, DeleteFile(p) PROVE FilesInv'
<1>1. HostKept
  <2>1. dir' = [x \in DOMAIN dir \ {p} |-> dir[x]] /\ UNCHANGED <<bytes, fds>>
    BY DEF DeleteFile, Without, Restrict
  <2> QED BY <2>1 DEF FilesInv, TablesInv, HostInv, HostKept
<1>2. EntriesKept /\ LocksKept /\ UNCHANGED <<file_handle_map, next_handle>>
  BY NothingChanged DEF DeleteFile, tableVars, FilesInv
<1>3. TablesInv'
  BY <1>1, <1>2, TablesKept DEF FilesInv
<1> QED BY <1>3 DEF DeleteFile, Ok, FilesInv, ViewsInv, mapVars

\* A lock is granted where no other handle has one on the same bytes.
LEMMA LockKeeps ==
    ASSUME FilesInv, UNCHANGED program, NEW h \in Handle, NEW a \in Nat, NEW b \in Nat,
           LockFile(h, a, b)
    PROVE  FilesInv'
<1> DEFINE l0 == <<E(h).path, a, b, h>>
<1>1. /\ Known(h) /\ file_locks' = Append(file_locks, l0)
      /\ ~ \E l \in Range(file_locks) : l[1] = E(h).path /\ Conflicts(l, h, a, b)
      /\ UNCHANGED <<hostVars, tableVars, mapVars>> /\ raised' = FALSE
  BY DEF LockFile, Ok
<1>2. l0 \in LockRecord /\ file_locks \in Seq(LockRecord)
  BY <1>1, EntryOf DEF FilesInv, TablesInv, LocksInv, LockRecord, EntryRecord
<1>3. l0[1] = E(h).path /\ l0[2] = a /\ l0[3] = b /\ l0[4] = h
  OBVIOUS
<1> HIDE DEF l0
<1>4. file_locks' \in Seq(LockRecord) /\ Range(file_locks') = Range(file_locks) \cup {l0}
  <2>1. file_locks' \in Seq(LockRecord) /\ DOMAIN file_locks' = 1 .. Len(file_locks) + 1
    BY <1>1, <1>2
  <2>2. file_locks'[Len(file_locks) + 1] = l0
        /\ \A i \in DOMAIN file_locks : file_locks'[i] = file_locks[i]
    BY <1>1, <1>2
  <2>3. DOMAIN file_locks = 1 .. Len(file_locks) /\ Len(file_locks) \in Nat
    BY <1>2
  <2> QED BY <2>1, <2>2, <2>3 DEF Range
<1>5. HostInv' /\ HandlesInv' /\ OwnEntries' /\ OwnDescriptors' /\ ViewsInv'
  BY <1>1 DEF FilesInv, TablesInv, HostInv, HandlesInv, OwnEntries, OwnDescriptors, ViewsInv,
              KeepsItsFile, Cached, hostVars, tableVars, mapVars
<1>6. LocksExclude'
  <2>1. \A l \in Range(file_locks) :
          l[1] = l0[1] /\ l[4] # l0[4] => ~ (l0[2] < l[3] /\ l[2] < l0[3])
    BY <1>1, <1>3 DEF Conflicts
  <2>2. \A l, k \in Range(file_locks) :
          l[1] = k[1] /\ l[4] # k[4] => ~ (l[2] < k[3] /\ k[2] < l[3])
    BY DEF FilesInv, TablesInv, LocksInv, LocksExclude
  <2> SUFFICES ASSUME NEW l \in Range(file_locks) \cup {l0}, NEW k \in Range(file_locks) \cup {l0},
                      l[1] = k[1], l[4] # k[4]
               PROVE  ~ (l[2] < k[3] /\ k[2] < l[3])
    BY <1>4 DEF LocksExclude
  <2>3. CASE l = l0 /\ k \in Range(file_locks)
    BY <2>1, <2>3
  <2>4. CASE k = l0 /\ l \in Range(file_locks)
    BY <2>1, <2>4
  <2>5. CASE l \in Range(file_locks) /\ k \in Range(file_locks)
    BY <2>2, <2>5
  <2> QED BY <2>3, <2>4, <2>5
<1>7. OwnLocks'
  <2>1. \A x : E(x)' = E(x) /\ Known(x)' = Known(x)
    BY <1>1 DEF E, Known, tableVars
  <2> QED BY <1>1, <1>3, <1>4, <2>1 DEF OwnLocks, FilesInv, TablesInv, LocksInv
<1> QED BY <1>1, <1>4, <1>5, <1>6, <1>7 DEF FilesInv, TablesInv, LocksInv

\* UnlockFile does.
LEMMA UnlockKeeps ==
    ASSUME FilesInv, UNCHANGED program, NEW h, NEW a, NEW b, UnlockFile(h, a, b) PROVE FilesInv'
<1> DEFINE l0 == <<E(h).path, a, b, h>>
           I == {i \in 1 .. Len(file_locks) : file_locks[i] = l0}
<1>1. I # {} /\ I \in SUBSET Nat /\ file_locks \in Seq(LockRecord)
  BY DEF UnlockFile, Contains, FilesInv, TablesInv, LocksInv
<1>2. Min(I) \in I
  <2> HIDE DEF I
  <2> QED BY <1>1, LeastElement
<1>3. file_locks' = RemoveAt(file_locks, Min(I))
  BY <1>1 DEF UnlockFile, RemoveFirst, SelectInSeq
<1>4. Min(I) \in 1 .. Len(file_locks)
  BY <1>2
<1> DEFINE i == Min(I)
           s == file_locks'
<1> HIDE DEF I, i
<1>5. /\ s \in Seq(LockRecord) /\ Len(s) = Len(file_locks) - 1
      /\ \A j \in 1 .. Len(file_locks) - 1 :
            s[j] = IF j < i THEN file_locks[j] ELSE file_locks[j + 1]
  <2>1. i \in 1 .. Len(file_locks) /\ s = RemoveAt(file_locks, i)
    BY <1>3, <1>4 DEF i
  <2> HIDE DEF s
  <2> QED BY <1>1, <2>1, RemoveAtElements
<1>6. LocksKept
  <2>1. Len(file_locks) \in Nat /\ DOMAIN file_locks = 1 .. Len(file_locks)
        /\ DOMAIN s = 1 .. Len(file_locks) - 1
    BY <1>1, <1>5
  <2>2. \A j \in DOMAIN s : j \in DOMAIN file_locks /\ j + 1 \in DOMAIN file_locks
    BY <2>1
  <2> QED BY <1>5, <2>1, <2>2 DEF LocksKept, Range
<1>7. HostKept /\ EntriesKept /\ UNCHANGED <<file_handle_map, next_handle>>
  BY NothingChanged DEF UnlockFile, tableVars, FilesInv
<1>8. TablesInv'
  BY <1>6, <1>7, TablesKept DEF FilesInv
<1> QED BY <1>8 DEF UnlockFile, Ok, FilesInv, ViewsInv, mapVars

\* A number that is taken for nothing, or for a mapping.
LEMMA NumberTaken ==
    ASSUME FilesInv, next_handle <= MaxHandles, next_handle' = next_handle + 1,
           UNCHANGED <<hostVars, entry, file_handle_map, file_locks, program>>
    PROVE  TablesInv'
<1>1. next_handle' \in 1 .. MaxHandles + 1 /\ \A x \in 1 .. next_handle - 1 : x \in 1 .. next_handle' - 1
  BY FilesAssumption DEF FilesInv, TablesInv, HandlesInv
<1>2. HandlesInv'
  BY <1>1 DEF FilesInv, TablesInv, HandlesInv
<1>3. HostInv' /\ OwnEntries' /\ OwnDescriptors'
  BY DEF FilesInv, TablesInv, HostInv, OwnEntries, OwnDescriptors, KeepsItsFile, Cached, hostVars
<1>4. LocksInv'
  <2>1. \A x : E(x)' = E(x) /\ Known(x)' = Known(x)
    BY DEF E, Known
  <2> QED BY <2>1 DEF FilesInv, TablesInv, LocksInv, LocksExclude, OwnLocks
<1> QED BY <1>2, <1>3, <1>4 DEF TablesInv

\* CreateFileMapping does.
LEMMA MappingKeeps ==
    ASSUME FilesInv, UNCHANGED program, NEW h \in Handle \cup {None}, NEW n \in Nat,
           NEW rw \in BOOLEAN, CreateFileMapping(h, n, rw)
    PROVE  FilesInv'
<1> DEFINE m == [file |-> h, max_size |-> n, readwrite |-> rw]
<1>1. /\ next_handle <= MaxHandles /\ next_handle' = next_handle + 1
      /\ file_mapping_map' = Put(file_mapping_map, next_handle, m)
      /\ UNCHANGED <<hostVars, entry, file_handle_map, mapped_views, file_locks>> /\ raised' = FALSE
  BY DEF CreateFileMapping, Ok
<1>2. m \in MappingRecord /\ next_handle \in Handle
  BY <1>1, FilesAssumption DEF MappingRecord, FilesInv, TablesInv, HandlesInv, Handle
<1> HIDE DEF m
<1>3. ViewsInv'
  BY <1>1, <1>2 DEF FilesInv, ViewsInv, Put
<1>4. TablesInv'
  BY <1>1, NumberTaken
<1> QED BY <1>1, <1>3, <1>4 DEF FilesInv

\* A store to a mapped view does.
LEMMA StoreToViewKeeps ==
    ASSUME FilesInv, UNCHANGED program, NEW v, NEW i, StoreToView(v, i) PROVE FilesInv'
<1>1. /\ v \in DOMAIN mapped_views /\ i \in DOMAIN mapped_views[v].mem
      /\ mapped_views' = [mapped_views EXCEPT ![v].mem[i] = 1]
      /\ UNCHANGED <<hostVars, tableVars, file_mapping_map, file_locks>> /\ raised' = FALSE
  BY DEF StoreToView, Ok
<1> DEFINE w == mapped_views[v]
           mem == [w.mem EXCEPT ![i] = 1]
           e == [w EXCEPT !.mem = mem]
<1>2. w \in ViewRecord /\ v \in Base
  BY <1>1 DEF FilesInv, ViewsInv
<1>3. mem \in Content
  <2>1. w.mem \in Content
    BY <1>2 DEF ViewRecord
  <2> QED BY <1>1, <2>1 DEF Content
<1> HIDE DEF mem
<1>4. e \in ViewRecord
  BY <1>2, <1>3 DEF ViewRecord
<1>5. DOMAIN mapped_views' = DOMAIN mapped_views /\ mapped_views'[v] = e
      /\ \A x \in DOMAIN mapped_views : x # v => mapped_views'[x] = mapped_views[x]
  BY <1>1 DEF mem
<1> HIDE DEF e, w
<1>6. ViewsInv'
  BY <1>1, <1>4, <1>5 DEF FilesInv, ViewsInv
<1>7. TablesInv'
  BY <1>1, NothingChanged, TablesKept DEF FilesInv, tableVars
<1> QED BY <1>1, <1>6, <1>7 DEF FilesInv

\* The entry a mapping names is one of the table.
LEMMA MappedEntry ==
    ASSUME HandlesInv, NEW m, NEW x \in Mapped(m) PROVE x \in DOMAIN entry /\ entry[x] \in EntryRecord
BY DEF Mapped, HandlesInv, Known

\* MapViewOfFile does.
LEMMA MapKeeps ==
    ASSUME FilesInv, UNCHANGED program, NEW m \in Handle, NEW at \in Nat, NEW n \in Nat,
           NEW w \in BOOLEAN, MapViewOfFile(m, at, n, w)
    PROVE  FilesInv'
<1>0. HandlesInv /\ HostInv
  BY DEF FilesInv, TablesInv
<1>1. CASE \E x \in Mapped(m) : BadFd(entry[x])
  BY <1>1, RaiseKeeps DEF MapViewOfFile
<1>2. CASE ~ \E x \in Mapped(m) : BadFd(entry[x])
  <2> DEFINE size == ViewSize(m, at, n)
             file == IF Mapped(m) = {} THEN << >> ELSE BytesOf(entry[CHOOSE x \in Mapped(m) : TRUE])
             mem == Truncated(Slice(file, at, size), size)
             e == [mapping |-> m, offset |-> at, writable |-> file_mapping_map[m].readwrite /\ w,
                   mem |-> mem, from |-> Mapped(m)]
             b == Min(Base \ DOMAIN mapped_views)
  <2>1. /\ m \in DOMAIN file_mapping_map /\ Base \ DOMAIN mapped_views # {}
        /\ size \in 1 .. MaxSize - at
        /\ mapped_views' = Put(mapped_views, b, e) /\ raised' = FALSE
        /\ UNCHANGED <<hostVars, tableVars, file_mapping_map, file_locks>>
    BY <1>2 DEF MapViewOfFile, Ok
  <2>2. size \in Nat
    BY <2>1, FilesAssumption
  <2>3. file \in Content
    <3>1. CASE Mapped(m) = {}
      BY <3>1 DEF Content
    <3>2. CASE Mapped(m) # {}
      <4> DEFINE x == CHOOSE x \in Mapped(m) : TRUE
      <4>1. x \in Mapped(m)
        BY <3>2
      <4> HIDE DEF x
      <4>2. entry[x] \in EntryRecord /\ ~ BadFd(entry[x])
        BY <1>0, <1>2, <4>1, MappedEntry
      <4>3. BytesOf(entry[x]) \in Content
        BY <1>0, <4>2, EntryContent
      <4> QED BY <3>2, <4>3 DEF x
    <3> QED BY <3>1, <3>2
  <2> HIDE DEF size, file
  <2>4. mem \in Content
    <3>1. Slice(file, at, size) \in Content
      BY <2>2, <2>3, SliceContent
    <3> QED BY <2>2, <3>1, TruncatedContent
  <2> HIDE DEF mem
  <2>5. Mapped(m) \in SUBSET Handle
    <3>1. \A x \in DOMAIN entry : x \in Handle
      BY <1>0, FilesAssumption DEF HandlesInv, Handle
    <3> QED BY <1>0, <3>1, MappedEntry
  <2>6. (file_mapping_map[m].readwrite /\ w) \in BOOLEAN
    OBVIOUS
  <2>7. e \in ViewRecord
    BY <2>4, <2>5, <2>6 DEF ViewRecord
  <2>8. b \in Base
    <3>1. Base \ DOMAIN mapped_views \in SUBSET Nat
      BY DEF Base
    <3> DEFINE B == Base \ DOMAIN mapped_views
    <3>2. B \in SUBSET Nat /\ B # {}
      BY <2>1, <3>1
    <3> HIDE DEF B
    <3>3. Min(B) \in B
      BY <3>2, LeastElement
    <3> QED BY <3>3 DEF B
  <2> HIDE DEF e, b
  <2>9. ViewsInv'
    BY <2>1, <2>7, <2>8 DEF FilesInv, ViewsInv, Put
  <2>10. TablesInv'
    BY <2>1, NothingChanged, TablesKept DEF FilesInv, tableVars
  <2> QED BY <2>1, <2>9, <2>10 DEF FilesInv
<1> QED BY <1>1, <1>2

\* UnmapViewOfFile does, writing the view back.
LEMMA UnmapKeeps == ASSUME FilesInv, UNCHANGED program, NEW v, UnmapViewOfFile(v) PROVE FilesInv'
<1>0. HandlesInv /\ HostInv
  BY DEF FilesInv, TablesInv
<1>1. /\ v \in DOMAIN mapped_views /\ mapped_views' = Without(mapped_views, {v})
      /\ UNCHANGED <<dir, fds, file_handle_map, next_handle, file_mapping_map, file_locks>>
      /\ raised' \in BOOLEAN
  BY DEF UnmapViewOfFile, Ok
<1>2. ViewsInv'
  BY <1>1 DEF FilesInv, ViewsInv, Without, Restrict
<1>3. mapped_views[v] \in ViewRecord
  BY <1>1 DEF FilesInv, ViewsInv
<1>4. CASE UNCHANGED <<bytes, entry>>
  <2>1. TablesInv'
    BY <1>1, <1>4, NothingChanged, TablesKept DEF FilesInv, hostVars
  <2> QED BY <1>1, <1>2, <2>1 DEF FilesInv
<1>5. CASE ~ UNCHANGED <<bytes, entry>>
  <2>1. PICK x \in Flushed(v) :
          LET e == entry[x]
              s == Written(BytesOf(e), mapped_views[v].mem, FlushOffset(v))
          IN  /\ ~ BadFd(e)
              /\ IF Cached(e) THEN entry' = [entry EXCEPT ![x].data = s] /\ UNCHANGED bytes
                 ELSE Store(e.fd, s) /\ UNCHANGED entry
    BY <1>5 DEF UnmapViewOfFile
  <2> DEFINE e == entry[x]
             s == Written(BytesOf(e), mapped_views[v].mem, FlushOffset(v))
             d == [e EXCEPT !.data = s]
  <2>2. x \in DOMAIN entry /\ e \in EntryRecord /\ ~ BadFd(e)
    BY <1>0, <2>1, MappedEntry DEF Flushed
  <2>3. BytesOf(e) \in Content
    BY <1>0, <2>2, EntryContent
  <2>4. mapped_views[v].mem \in Content /\ FlushOffset(v) \in Nat
    BY <1>3 DEF ViewRecord, FlushOffset
  <2>5. s \in Content
    BY <2>3, <2>4, WrittenContent
  <2> HIDE DEF s
  <2>6. CASE Cached(e)
    <3>1. d \in EntryRecord /\ SameFile(d, e)
      BY <2>2, <2>5 DEF EntryRecord, SameFile
    <3>2. entry' = [entry EXCEPT ![x].data = s] /\ UNCHANGED bytes
      BY <2>1, <2>6 DEF s
    <3>3. DOMAIN entry' = DOMAIN entry /\ entry'[x] = d
          /\ \A y \in DOMAIN entry : y # x => entry'[y] = entry[y]
      BY <2>2, <3>2
    <3>4. \A y \in DOMAIN entry : entry[y] \in EntryRecord /\ SameFile(entry[y], entry[y])
      BY <1>0 DEF HandlesInv, SameFile
    <3> HIDE DEF d
    <3>5. EntriesKept
      BY <2>2, <3>1, <3>3, <3>4 DEF EntriesKept
    <3>6. TablesInv'
      BY <1>1, <3>2, <3>5, NothingChanged, TablesKept DEF FilesInv, hostVars
    <3> QED BY <1>1, <1>2, <3>6 DEF FilesInv
  <2>7. CASE ~ Cached(e)
    <3>1. Store(e.fd, s) /\ UNCHANGED entry
      BY <2>1, <2>7 DEF s
    <3> HIDE DEF e
    <3>2. EntriesKept
      BY <3>1, NothingChanged DEF FilesInv
    <3>3. TablesInv'
      BY <1>1, <2>5, <3>1, <3>2, SameFds, StoreTables
    <3> QED BY <1>1, <1>2, <3>3 DEF FilesInv
  <2> QED BY <2>6, <2>7
<1> QED BY <1>4, <1>5


\* A handle is forgotten, with its descriptor or without.
LEMMA HandleForgotten ==
    ASSUME FilesInv, NEW h, file_handle_map' = Unmapped(h),
           UNCHANGED <<dir, bytes, entry, next_handle, program>>,
           UNCHANGED fds \/ (Known(h) /\ fds' = Without(fds, {E(h).fd})),
           LocksKept,
           program \cap {"fclose", "DuplicateHandle"} = {} => \A l \in Range(file_locks') : l[4] # h
    PROVE  TablesInv'
<1>1. /\ DOMAIN file_handle_map' = DOMAIN file_handle_map \ {h}
      /\ \A k \in DOMAIN file_handle_map \ {h} : file_handle_map'[k] = file_handle_map[k]
  BY DEF Unmapped, Without, Restrict
<1>2. /\ DOMAIN fds' \subseteq DOMAIN fds
      /\ \A f \in DOMAIN fds' : fds'[f] = fds[f]
      /\ \A f \in DOMAIN fds : f \in DOMAIN fds' \/ (Known(h) /\ f = E(h).fd)
  BY DEF Without, Restrict
<1>3. HostInv' /\ HandlesInv'
  BY <1>1, <1>2 DEF FilesInv, TablesInv, HostInv, HandlesInv
<1>4. OwnEntries'
  <2> SUFFICES ASSUME "DuplicateHandle" \notin program, NEW k \in DOMAIN file_handle_map, k # h
               PROVE  file_handle_map'[k] = k /\ KeepsItsFile(entry[k])'
    BY <1>1 DEF OwnEntries
  <2>1. file_handle_map[k] = k /\ KeepsItsFile(entry[k])
    BY DEF FilesInv, TablesInv, OwnEntries
  <2>2. Known(h) => E(h) = entry[h] /\ h \in DOMAIN file_handle_map
    BY DEF FilesInv, TablesInv, OwnEntries, Known, E
  <2>3. Known(h) /\ entry[k].fd = E(h).fd => entry[k].fd = None
    BY <2>2 DEF FilesInv, TablesInv, OwnDescriptors
  <2>4. KeepsItsFile(entry[k])'
    BY <1>2, <2>1, <2>3 DEF KeepsItsFile, Cached
  <2> QED BY <1>1, <2>1, <2>4
<1>5. OwnDescriptors'
  BY <1>1 DEF FilesInv, TablesInv, OwnDescriptors
<1>6. LocksInv'
  <2>1. LocksExclude'
    BY DEF LocksKept, LocksExclude, FilesInv, TablesInv, LocksInv
  <2>2. \A k \in DOMAIN file_handle_map \ {h} : Known(k)' /\ E(k)' = E(k)
    BY <1>1 DEF Known, E
  <2>3. OwnLocks'
    <3> SUFFICES ASSUME program \cap {"fclose", "DuplicateHandle"} = {},
                        NEW l \in Range(file_locks')
                 PROVE  Known(l[4])' /\ l[1] = E(l[4])'.path
      BY DEF OwnLocks
    <3>1. Known(l[4]) /\ l[1] = E(l[4]).path /\ l[4] # h
      BY DEF LocksKept, FilesInv, TablesInv, LocksInv, OwnLocks
    <3> QED BY <2>2, <3>1 DEF Known
  <2> QED BY <2>1, <2>3 DEF LocksKept, LocksInv
<1> QED BY <1>3, <1>4, <1>5, <1>6 DEF TablesInv

\* CloseHandle does.
LEMMA CloseKeeps == ASSUME FilesInv, UNCHANGED program, NEW h, CloseHandle(h) PROVE FilesInv'
<1>1. /\ file_handle_map' = Unmapped(h) /\ raised' = FALSE
      /\ file_mapping_map' = Without(file_mapping_map, {h})
      /\ UNCHANGED <<dir, bytes, entry, next_handle, mapped_views>>
  BY DEF CloseHandle, Ok
<1>2. ViewsInv'
  BY <1>1 DEF FilesInv, ViewsInv, Without, Restrict
<1>3. CASE ~ Known(h)
  <2>1. UNCHANGED <<fds, file_locks>>
    BY <1>3 DEF CloseHandle
  <2>2. program \cap {"fclose", "DuplicateHandle"} = {} => \A l \in Range(file_locks') : l[4] # h
    BY <1>3, <2>1 DEF FilesInv, TablesInv, LocksInv, OwnLocks
  <2>3. LocksKept
    BY <2>1, NothingChanged DEF FilesInv
  <2>4. TablesInv'
    BY <1>1, <2>1, <2>2, <2>3, HandleForgotten
  <2> QED BY <1>1, <1>2, <2>4 DEF FilesInv
<1>4. CASE Known(h)
  <2> DEFINE keep == {l \in Range(file_locks) : l[1] # E(h).path \/ l[4] # h}
  <2>1. fds' = Without(fds, {E(h).fd}) /\ file_locks' = Kept(file_locks, keep)
    BY <1>4 DEF CloseHandle, LocksAfterClose
  <2>2. file_locks \in Seq(LockRecord)
    BY DEF FilesInv, TablesInv, LocksInv
  <2>3. file_locks' \in Seq(LockRecord) /\ Range(file_locks') = Range(file_locks) \cap keep
    <3> HIDE DEF keep
    <3> QED BY <2>1, <2>2, KeptRange
  <2>4. LocksKept
    BY <2>3 DEF LocksKept
  <2>5. program \cap {"fclose", "DuplicateHandle"} = {} => \A l \in Range(file_locks') : l[4] # h
    BY <2>3 DEF FilesInv, TablesInv, LocksInv, OwnLocks
  <2>6. TablesInv'
    BY <1>1, <1>4, <2>1, <2>4, <2>5, HandleForgotten
  <2> QED BY <1>1, <1>2, <2>6 DEF FilesInv
<1> QED BY <1>3, <1>4

\* fclose does.
LEMMA FcloseKeeps ==
    ASSUME FilesInv, UNCHANGED program, "fclose" \in program, NEW h, Fclose(h) PROVE FilesInv'
<1>1. /\ file_handle_map' = Unmapped(h) /\ raised' = FALSE
      /\ UNCHANGED <<hostVars, entry, next_handle, mapVars, file_locks>>
  BY DEF Fclose, Ok
<1>2. LocksKept
  BY <1>1, NothingChanged DEF FilesInv
<1>3. TablesInv'
  BY <1>1, <1>2, HandleForgotten DEF hostVars
<1> QED BY <1>1, <1>3 DEF FilesInv, ViewsInv, mapVars

\* DuplicateHandle does.
LEMMA DuplicateKeeps ==
    ASSUME FilesInv, UNCHANGED program, "DuplicateHandle" \in program, NEW h, NEW c \in BOOLEAN,
           DuplicateHandle(h, c)
    PROVE  FilesInv'
<1> DEFINE gone == IF c THEN {h} ELSE {}
<1>1. /\ Known(h) /\ next_handle <= MaxHandles /\ next_handle' = next_handle + 1
      /\ file_handle_map' = Without(Put(file_handle_map, next_handle, file_handle_map[h]), gone)
      /\ UNCHANGED <<hostVars, entry, mapVars, file_locks>> /\ raised' = FALSE
  BY DEF DuplicateHandle, Ok
<1>2. /\ next_handle' \in 1 .. MaxHandles + 1 /\ next_handle \in 1 .. next_handle' - 1
      /\ \A x \in 1 .. next_handle - 1 : x \in 1 .. next_handle' - 1
  BY <1>1, FilesAssumption DEF FilesInv, TablesInv, HandlesInv
<1>3. file_handle_map[h] \in DOMAIN entry
  BY <1>1, EntryOf DEF FilesInv, TablesInv
<1> HIDE DEF gone
<1>4. HandlesInv'
  BY <1>1, <1>2, <1>3 DEF FilesInv, TablesInv, HandlesInv, Without, Restrict, Put
<1>5. HostInv' /\ OwnEntries' /\ OwnDescriptors' /\ ViewsInv'
  BY <1>1 DEF FilesInv, TablesInv, HostInv, OwnEntries, OwnDescriptors, ViewsInv, hostVars, mapVars
<1>6. LocksInv'
  BY <1>1 DEF FilesInv, TablesInv, LocksInv, LocksExclude, OwnLocks
<1> QED BY <1>1, <1>4, <1>5, <1>6 DEF FilesInv, TablesInv

\* An open makes one entry, with a descriptor that no handle had.
LEMMA EntryRegistered ==
    ASSUME FilesInv, NEW e \in EntryRecord, e.writable <=> e.fd # None, Register(e),
           next_handle <= MaxHandles, UNCHANGED <<file_locks, program>>,
           DOMAIN dir' \subseteq Path, \A p \in DOMAIN dir' : dir'[p] \in Inode,
           bytes' \in [Inode -> Content],
           \/ UNCHANGED fds /\ e.fd = None
           \/ /\ e.fd \in Fd /\ e.fd \notin DOMAIN fds
              /\ \E r \in FdRecord : r.inode = e.file /\ fds' = Put(fds, e.fd, r)
    PROVE  TablesInv'
<1> DEFINE n == next_handle
<1>1. /\ n' = n + 1 /\ n \notin DOMAIN entry /\ n \notin DOMAIN file_handle_map
      /\ n' \in 1 .. MaxHandles + 1 /\ n \in 1 .. n' - 1
      /\ \A x \in 1 .. n - 1 : x \in 1 .. n' - 1
  BY FilesAssumption DEF FilesInv, TablesInv, HandlesInv, Register
<1>2. /\ DOMAIN entry' = DOMAIN entry \cup {n} /\ entry'[n] = e
      /\ \A x \in DOMAIN entry : entry'[x] = entry[x]
      /\ DOMAIN file_handle_map' = DOMAIN file_handle_map \cup {n} /\ file_handle_map'[n] = n
      /\ \A h \in DOMAIN file_handle_map : file_handle_map'[h] = file_handle_map[h]
  BY <1>1 DEF Register, Put
<1> HIDE DEF n
<1>3. HandlesInv'
  BY <1>1, <1>2 DEF FilesInv, TablesInv, HandlesInv, n
<1>4. /\ DOMAIN fds' \subseteq Fd /\ \A f \in DOMAIN fds' : fds'[f] \in FdRecord
      /\ \A f \in DOMAIN fds : f \in DOMAIN fds' /\ fds'[f] = fds[f]
      /\ e.fd = None \/ (e.fd \in DOMAIN fds' /\ fds'[e.fd].inode = e.file /\ e.fd \notin DOMAIN fds)
  BY DEF FilesInv, TablesInv, HostInv, Put
<1>5. HostInv'
  BY <1>4 DEF HostInv
<1>6. ASSUME "DuplicateHandle" \notin program, NEW h \in DOMAIN file_handle_map
      PROVE  /\ file_handle_map'[h] = h /\ entry'[h] = entry[h] /\ KeepsItsFile(entry[h])
             /\ entry[h].fd = None \/ entry[h].fd \in DOMAIN fds
  <2>1. file_handle_map[h] = h /\ h \in DOMAIN entry /\ KeepsItsFile(entry[h])
    BY <1>6 DEF FilesInv, TablesInv, HandlesInv, OwnEntries
  <2> QED BY <1>2, <2>1 DEF KeepsItsFile, Cached
<1>7. OwnEntries'
  <2> SUFFICES ASSUME "DuplicateHandle" \notin program, NEW h \in DOMAIN file_handle_map \cup {n}
               PROVE  file_handle_map'[h] = h /\ KeepsItsFile(entry[h])'
    BY <1>2 DEF OwnEntries
  <2>1. CASE h = n
    BY <1>2, <1>4, <2>1 DEF KeepsItsFile, Cached
  <2>2. CASE h \in DOMAIN file_handle_map
    BY <1>4, <1>6, <2>2 DEF KeepsItsFile, Cached
  <2> QED BY <2>1, <2>2
<1>8. OwnDescriptors'
  <2> SUFFICES ASSUME "DuplicateHandle" \notin program, NEW h \in DOMAIN file_handle_map \cup {n},
                      NEW k \in DOMAIN file_handle_map \cup {n}, entry'[h].fd = entry'[k].fd,
                      entry'[h].fd # None
               PROVE  h = k
    BY <1>2 DEF OwnDescriptors
  <2>1. CASE h \in DOMAIN file_handle_map /\ k \in DOMAIN file_handle_map
    BY <1>6, <2>1 DEF FilesInv, TablesInv, OwnDescriptors
  <2>2. CASE h = n /\ k \in DOMAIN file_handle_map
    BY <1>2, <1>4, <1>6, <2>2
  <2>3. CASE k = n /\ h \in DOMAIN file_handle_map
    BY <1>2, <1>4, <1>6, <2>3
  <2> QED BY <2>1, <2>2, <2>3
<1>9. LocksInv'
  <2>1. \A h \in DOMAIN file_handle_map : Known(h)' /\ E(h)' = E(h)
    BY <1>2 DEF Known, E, FilesInv, TablesInv, HandlesInv
  <2> QED BY <2>1 DEF FilesInv, TablesInv, LocksInv, LocksExclude, OwnLocks, Known
<1> QED BY <1>3, <1>5, <1>7, <1>8, <1>9 DEF TablesInv

\* The host's new descriptor was free.
LEMMA NewDescriptor ==
    ASSUME FreeFds # {}
    PROVE  Min(FreeFds) \in Fd /\ Min(FreeFds) \notin DOMAIN fds /\ Min(FreeFds) # None
<1>1. FreeFds \in SUBSET Nat
  BY FilesAssumption DEF FreeFds
<1>2. Min(FreeFds) \in FreeFds
  BY <1>1, LeastElement
<1> QED BY <1>2, FilesAssumption DEF FreeFds, None

\* The number of a new file was free.
LEMMA NewInode == ASSUME FreeInode # {} PROVE Min(FreeInode) \in Inode
<1>1. FreeInode \in SUBSET Nat
  BY FilesAssumption DEF FreeInode
<1>2. Min(FreeInode) \in FreeInode
  BY <1>1, LeastElement
<1> QED BY <1>2 DEF FreeInode

\* What an open makes an entry from.
IsNew(e, p, w, fd) ==
    e \in EntryRecord /\ e.fd = fd /\ e.writable = w /\ (p = NUL => e.file = None)

\* A new entry has the path, the mode and the descriptor it is made with.
LEMMA NewEntryRecord ==
    ASSUME HostInv, NEW p \in Device, NEW s \in Content, NEW at \in Nat, NEW w \in BOOLEAN,
           NEW r \in BOOLEAN, NEW fd \in Fd \cup {None}
    PROVE  IsNew(NewEntry(p, s, at, w, r, fd), p, w, fd)
<1> DEFINE i == IF p \in DOMAIN dir THEN dir[p] ELSE None
<1>1. i \in Inode \cup {None} /\ (p = NUL => i = None)
  BY FilesAssumption DEF HostInv
<1> HIDE DEF i
<1>2. NewEntry(p, s, at, w, r, fd) = [path |-> p, data |-> s, position |-> at, writable |-> w,
                                      readable |-> r, fd |-> fd, file |-> i]
  BY DEF NewEntry, i
<1> QED BY <1>1, <1>2 DEF EntryRecord, IsNew

\* An open that succeeds keeps the tables.
LEMMA OpenTables ==
    ASSUME FilesInv, UNCHANGED <<program, file_locks>>, NEW p \in Device, NEW w \in BOOLEAN,
           NEW r \in BOOLEAN, NEW disposition, NEW append \in BOOLEAN,
           Open(p, w, r, disposition, append)
    PROVE  TablesInv'
<1>0. HostInv /\ next_handle <= MaxHandles /\ << >> \in Content
  BY DEF FilesInv, TablesInv, Open, Content
<1>00. /\ TRUE \in BOOLEAN /\ FALSE \in BOOLEAN /\ 0 \in Nat
       /\ NUL \in Device /\ None \in Fd \cup {None}
  BY DEF Device
<1>1. CASE OpenFails
  BY <1>0, <1>1, NumberTaken DEF OpenFails
<1>2. CASE p = NUL /\ OpenNul(w)
  <2>1. CASE w
    <3> DEFINE fd == Min(FreeFds)
               e == NewEntry(NUL, << >>, 0, TRUE, FALSE, fd)
               d == [inode |-> None, cursor |-> 0]
    <3>1. /\ FreeFds # {} /\ fds' = Put(fds, fd, d) /\ Register(e) /\ UNCHANGED <<dir, bytes>>
      BY <1>2, <2>1 DEF OpenNul
    <3>2. fd \in Fd /\ fd \notin DOMAIN fds /\ fd # None
      BY <3>1, NewDescriptor
    <3> HIDE DEF fd
    <3>3. e \in EntryRecord /\ e.fd = fd /\ e.writable = TRUE /\ e.file = None
      <4>1. fd \in Fd \cup {None}
        BY <3>2
      <4>2. IsNew(e, NUL, TRUE, fd)
        BY <1>0, <1>00, <4>1, NewEntryRecord
      <4> QED BY <4>2 DEF IsNew
    <3>4. d \in FdRecord /\ d.inode = None
      BY DEF FdRecord
    <3> HIDE DEF e, d
    <3>5. \E x \in FdRecord : x.inode = e.file /\ fds' = Put(fds, e.fd, x)
      BY <3>1, <3>3, <3>4
    <3> QED BY <1>0, <3>1, <3>2, <3>3, <3>5, EntryRegistered DEF HostInv
  <2>2. CASE ~ w
    <3> DEFINE e == NewEntry(NUL, << >>, 0, FALSE, FALSE, None)
    <3>1. Register(e) /\ UNCHANGED hostVars
      BY <1>2, <2>2 DEF OpenNul
    <3>2. e \in EntryRecord /\ e.fd = None /\ e.writable = FALSE
      <4>1. IsNew(e, NUL, FALSE, None)
        BY <1>0, <1>00, NewEntryRecord
      <4> QED BY <4>1 DEF IsNew
    <3> HIDE DEF e
    <3> QED BY <1>0, <3>1, <3>2, EntryRegistered DEF HostInv, hostVars
  <2> QED BY <2>1, <2>2
<1>3. CASE p # NUL /\ w /\ OpenForWriting(p, r, disposition, append)
  <2> DEFINE exists == p \in DOMAIN dir
             i  == IF exists THEN dir[p] ELSE Min(FreeInode)
             s  == IF exists /\ ~ Truncates(disposition) THEN bytes[i] ELSE << >>
             at == IF append THEN Len(s) ELSE 0
             fd == Min(FreeFds)
             e0 == NewEntry(p, << >>, at, TRUE, r, fd)
             e  == [e0 EXCEPT !.file = i]
             d  == [inode |-> i, cursor |-> at]
  <2>1. /\ ~ exists => FreeInode # {}
        /\ FreeFds # {} /\ dir' = Put(dir, p, i) /\ bytes' = [bytes EXCEPT ![i] = s]
        /\ fds' = Put(fds, fd, d) /\ Register(e)
    BY <1>3 DEF OpenForWriting
  <2>2. i \in Inode
    BY <1>0, <2>1, NewInode DEF HostInv
  <2>3. s \in Content
    BY <1>0, <2>2 DEF HostInv
  <2>4. fd \in Fd /\ fd \notin DOMAIN fds /\ fd # None
    BY <2>1, NewDescriptor
  <2> HIDE DEF i, s, fd
  <2>5. at \in Nat
    BY <2>3 DEF Content
  <2> HIDE DEF at
  <2>6. e0 \in EntryRecord /\ e0.fd = fd /\ e0.writable = TRUE
    <3>1. fd \in Fd \cup {None}
      BY <2>4
    <3>2. IsNew(e0, p, TRUE, fd)
      BY <1>0, <1>00, <2>5, <3>1, NewEntryRecord
    <3> QED BY <3>2 DEF IsNew
  <2> HIDE DEF e0
  <2>7. e \in EntryRecord /\ e.fd = fd /\ e.writable = TRUE /\ e.file = i
    BY <2>2, <2>6 DEF EntryRecord
  <2>8. d \in FdRecord /\ d.inode = i
    BY <2>2, <2>5 DEF FdRecord
  <2> HIDE DEF e, d
  <2>9. \E x \in FdRecord : x.inode = e.file /\ fds' = Put(fds, e.fd, x)
    BY <2>1, <2>7, <2>8
  <2>10. bytes' \in [Inode -> Content]
    BY <1>0, <2>1, <2>3 DEF HostInv
  <2>11. p \in Path /\ DOMAIN dir' \subseteq Path /\ \A x \in DOMAIN dir' : dir'[x] \in Inode
    BY <1>0, <1>3, <2>1, <2>2 DEF Device, HostInv, Put
  <2> QED BY <1>0, <2>1, <2>4, <2>7, <2>9, <2>10, <2>11, EntryRegistered
<1>4. CASE p # NUL /\ ~ w /\ OpenForReading(p)
  <2> DEFINE e == NewEntry(p, bytes[dir[p]], 0, FALSE, FALSE, None)
  <2>1. p \in DOMAIN dir /\ Register(e) /\ UNCHANGED hostVars
    BY <1>4 DEF OpenForReading
  <2>2. bytes[dir[p]] \in Content
    BY <1>0, <2>1 DEF HostInv
  <2>3. e \in EntryRecord /\ e.fd = None /\ e.writable = FALSE
    <3>1. IsNew(e, p, FALSE, None)
      BY <1>0, <1>00, <2>2, NewEntryRecord
    <3> QED BY <3>1 DEF IsNew
  <2> HIDE DEF e
  <2> QED BY <1>0, <2>1, <2>3, EntryRegistered DEF HostInv, hostVars
<1> QED BY <1>1, <1>2, <1>3, <1>4 DEF Open

\* And the locks.
LEMMA OpenKeeps ==
    ASSUME FilesInv, UNCHANGED program, NEW p \in Device, NEW w \in BOOLEAN,
           NEW r \in BOOLEAN, NEW disposition, NEW append \in BOOLEAN,
           Open(p, w, r, disposition, append)
    PROVE  FilesInv'
<1>1. UNCHANGED <<mapVars, file_locks>> /\ raised' = FALSE
  BY DEF Open, Ok
<1>2. TablesInv'
  BY <1>1, OpenTables
<1> QED BY <1>1, <1>2 DEF FilesInv, ViewsInv, mapVars


\* The invariant of the files holds at first.
LEMMA FilesStart == Init => FilesInv
<1> SUFFICES ASSUME Init PROVE FilesInv
  OBVIOUS
<1>1. /\ fds = Empty /\ entry = Empty /\ file_handle_map = Empty /\ next_handle = 1
      /\ file_mapping_map = Empty /\ mapped_views = Empty
      /\ file_locks = << >> /\ raised = FALSE /\ program \in Programs
  BY DEF Init
<1>2. DOMAIN Empty = {}
  BY DEF Empty
<1>3. HostInv
  <2>1. PICK p \in Path, i \in Inode, s \in {<<1>>, <<1, 1>>} :
          dir = Put(Empty, p, i) /\ bytes = [j \in Inode |-> IF j = i THEN s ELSE << >>]
    BY DEF Init
  <2>2. s \in Content /\ << >> \in Content
    <3>1. <<1>> \in Content /\ <<1, 1>> \in Content /\ << >> \in Content
      BY DEF Content
    <3> QED BY <3>1
  <2>3. DOMAIN dir = {p} /\ dir[p] = i
    BY <1>2, <2>1 DEF Put
  <2> QED BY <1>1, <1>2, <2>1, <2>2, <2>3 DEF HostInv
<1>4. next_handle \in 1 .. MaxHandles + 1
  BY <1>1, FilesAssumption
<1>5. HandlesInv
  BY <1>1, <1>2, <1>4 DEF HandlesInv
<1>6. OwnEntries /\ OwnDescriptors
  BY <1>1, <1>2 DEF OwnEntries, OwnDescriptors
<1>7. LocksInv
  <2>1. file_locks \in Seq(LockRecord) /\ Range(file_locks) = {}
    BY <1>1 DEF Range
  <2> QED BY <2>1 DEF LocksInv, LocksExclude, OwnLocks
<1>8. ViewsInv
  BY <1>1, <1>2 DEF ViewsInv
<1> QED BY <1>1, <1>3, <1>5, <1>6, <1>7, <1>8 DEF FilesInv, TablesInv

\* The arguments of the calls.
LEMMA OnHandleKeeps ==
    ASSUME FilesInv, UNCHANGED program, NEW h \in Handle, OnHandle(h) PROVE FilesInv'
<1>0. /\ \A n \in 1..2 : n \in Nat
      /\ \A at \in Offset : at \in Nat
      /\ \A d \in Distance : d \in Int
      /\ 0 \in Nat /\ 0 \in Int /\ "BEGIN" \in Whence
  BY FilesAssumption DEF Offset, Distance, Whence
<1>1. CASE CloseHandle(h)
  BY <1>1, CloseKeeps
<1>2. CASE "fclose" \in program /\ Fclose(h)
  BY <1>2, FcloseKeeps
<1>3. CASE "DuplicateHandle" \in program /\ \E c \in BOOLEAN : DuplicateHandle(h, c)
  BY <1>3, DuplicateKeeps
<1>4. CASE WriteFile(h) \/ StreamWrite(h) \/ SetEndOfFile(h)
  BY <1>0, <1>4, WritesKeep
<1>5. CASE \E at \in Offset : WriteFileAt(h, at)
  BY <1>0, <1>5, WritesKeep
<1>6. CASE \E n \in 1..2 : ReadFile(h, n) \/ StreamRead(h, n) \/ Fgets(h, n)
  BY <1>0, <1>6, ReadsKeep
<1>7. CASE \E d \in Distance, m \in Whence :
             SetFilePointer(h, d, m) \/ Lseek(h, d, m) \/ Fseek(h, d, m)
  BY <1>0, <1>7, SeeksKeep
<1>8. CASE Rewind(h)
  BY <1>0, <1>8, SeeksKeep
<1>9. CASE \E a \in Offset, b \in Offset : LockFile(h, a, b) \/ UnlockFile(h, a, b)
  BY <1>0, <1>9, LockKeeps, UnlockKeeps
<1> QED BY <1>1, <1>2, <1>3, <1>4, <1>5, <1>6, <1>7, <1>8, <1>9 DEF OnHandle

\* Every operation on a path keeps it.
LEMMA OnPathKeeps ==
    ASSUME FilesInv, UNCHANGED program, NEW p \in Device, OnPath(p) PROVE FilesInv'
<1>1. ASSUME NEW w \in BOOLEAN, NEW r \in BOOLEAN, NEW d \in Disposition, CreateFile(p, w, r, d)
      PROVE  FilesInv'
  <2>1. (w \/ d # "OPEN_EXISTING") \in BOOLEAN /\ FALSE \in BOOLEAN
    OBVIOUS
  <2> DEFINE x == w \/ d # "OPEN_EXISTING"
  <2>2. x \in BOOLEAN /\ Open(p, x, r, d, FALSE)
    BY <1>1, <2>1 DEF CreateFile
  <2> HIDE DEF x
  <2> QED BY <2>1, <2>2, OpenKeeps
<1>2. ASSUME NEW mode, Fopen(p, mode) PROVE FilesInv'
  <2> DEFINE w == mode # "r"
             r == mode \in {"w+", "a+"}
             d == IF mode \in {"a", "a+"} THEN "OPEN_ALWAYS" ELSE "CREATE_ALWAYS"
             a == mode \in {"a", "a+"}
  <2>1. w \in BOOLEAN /\ r \in BOOLEAN /\ a \in BOOLEAN
    OBVIOUS
  <2>2. Open(p, w, r, d, a)
    BY <1>2 DEF Fopen
  <2> HIDE DEF w, r, d, a
  <2> QED BY <2>1, <2>2, OpenKeeps
<1>3. ASSUME NEW oflag, LowOpen(p, oflag) PROVE FilesInv'
  <2> DEFINE w == oflag # "O_RDONLY"
             r == oflag = "O_RDWR"
  <2>1. w \in BOOLEAN /\ r \in BOOLEAN /\ FALSE \in BOOLEAN
    OBVIOUS
  <2>2. Open(p, w, r, "CREATE_ALWAYS", FALSE)
    BY <1>3 DEF LowOpen
  <2> HIDE DEF w, r
  <2> QED BY <2>1, <2>2, OpenKeeps
<1>4. ASSUME DeleteFile(p) PROVE FilesInv'
  BY <1>4, DeleteKeeps
<1> QED BY <1>1, <1>2, <1>3, <1>4 DEF OnPath

\* Every operation on a mapping does.
LEMMA OnMappingKeeps == ASSUME FilesInv, UNCHANGED program, OnMapping PROVE FilesInv'
<1>0. /\ \A at \in Offset : at \in Nat
      /\ \A n \in {0, MaxSize} : n \in Nat
  BY FilesAssumption DEF Offset
<1>1. ASSUME NEW h \in Handle \cup {None}, NEW n \in {0, MaxSize}, NEW rw \in BOOLEAN,
             CreateFileMapping(h, n, rw)
      PROVE  FilesInv'
  BY <1>0, <1>1, MappingKeeps
<1>2. ASSUME NEW m \in Handle, NEW at \in Offset, NEW n \in Offset, NEW w \in BOOLEAN,
             MapViewOfFile(m, at, n, w)
      PROVE  FilesInv'
  BY <1>0, <1>2, MapKeeps
<1>3. ASSUME NEW v \in Base, UnmapViewOfFile(v) \/ \E i \in 1..MaxSize : StoreToView(v, i)
      PROVE  FilesInv'
  BY <1>3, UnmapKeeps, StoreToViewKeeps
<1> QED BY <1>1, <1>2, <1>3 DEF OnMapping

\* Every step does.
LEMMA FilesStep == FilesInv /\ [Next]_vars => FilesInv'
<1> SUFFICES ASSUME FilesInv, [Next]_vars PROVE FilesInv'
  OBVIOUS
<1>1. CASE UNCHANGED vars
  <2>1. UNCHANGED program /\ UNCHANGED <<file_handle_map, next_handle>>
        /\ UNCHANGED hostVars /\ UNCHANGED entry /\ UNCHANGED file_locks
    BY <1>1 DEF vars, hostVars
  <2>2. TablesInv'
    BY <2>1, NothingChanged, TablesKept DEF FilesInv
  <2> QED BY <1>1, <2>2 DEF vars, FilesInv, ViewsInv
<1>2. CASE Next
  BY <1>2, OnHandleKeeps, OnPathKeeps, OnMappingKeeps DEF Next
<1> QED BY <1>1, <1>2

\* It holds of every behaviour.
LEMMA FilesAlways == Spec => []FilesInv
<1>1. Init => FilesInv
  BY FilesStart
<1>2. FilesInv /\ [Next]_vars => FilesInv'
  BY FilesStep
<1> QED BY <1>1, <1>2, PTL DEF Spec

\* Two handles never hold overlapping ranges of a file, and a lock has a holder
\* that can release it, for every number of handles and locks, and whatever is
\* closed, deleted and opened again in between (LockFile, CloseHandle).
THEOREM LocksSafe == Spec => []LocksAreHeld
<1>1. FilesInv => LocksAreHeld
  <2> SUFFICES ASSUME FilesInv PROVE LocksAreHeld
    OBVIOUS
  <2>1. LocksExclude /\ OwnLocks
    BY DEF FilesInv, TablesInv, LocksInv
  <2>2. LocksHaveHolders
    BY <2>1 DEF OwnLocks, LocksHaveHolders
  <2> QED BY <2>1, <2>2 DEF LocksAreHeld
<1> QED BY <1>1, FilesAlways, PTL

\* A handle opened for writing writes to the file it was opened on until the
\* guest closes it, for every number of files and descriptors, however the host
\* reuses their numbers (open_file_handle, CloseHandle).
THEOREM HandlesSafe == Spec => []HandleKeepsItsFile
<1>1. FilesInv => HandleKeepsItsFile
  BY DEF FilesInv, TablesInv, OwnEntries, HandleKeepsItsFile, E
<1> QED BY <1>1, FilesAlways, PTL

\* The tables of the files, descriptors, handles, mappings and locks refer to
\* what exists, and their entries are of their types.
THEOREM FilesTypeCorrect == Spec => []TypeOK
<1>1. FilesInv => TypeOK
  <2> SUFFICES ASSUME FilesInv PROVE TypeOK
    OBVIOUS
  <2>1. /\ DOMAIN dir \subseteq Path /\ Range(dir) \subseteq Inode
        /\ bytes \in [Inode -> Seq({0, 1})]
        /\ DOMAIN fds \subseteq Fd
        /\ \A f \in DOMAIN fds : fds[f].inode \in Inode \cup {None} /\ fds[f].cursor \in Nat
    BY DEF FilesInv, TablesInv, HostInv, FdRecord, Content, Range
  <2>2. /\ \A x \in 1 .. next_handle - 1 : x \in Handle
        /\ next_handle \in 1 .. MaxHandles + 1
    BY FilesAssumption DEF FilesInv, TablesInv, HandlesInv, Handle
  <2>3. DOMAIN file_handle_map \subseteq Handle /\ Range(file_handle_map) \subseteq DOMAIN entry
    BY <2>2 DEF FilesInv, TablesInv, HandlesInv, Range
  <2>4. ASSUME NEW x \in DOMAIN entry
        PROVE  /\ entry[x].path \in Device
               /\ entry[x].data \in Seq({0, 1})
               /\ entry[x].position \in Nat
               /\ entry[x].fd \in Fd \cup {None}
               /\ {entry[x].writable, entry[x].readable} \subseteq BOOLEAN
               /\ entry[x].writable <=> entry[x].fd # None
    BY DEF FilesInv, TablesInv, HandlesInv, EntryRecord, Content
  <2>5. DOMAIN file_mapping_map \subseteq Handle /\ DOMAIN mapped_views \subseteq Base
    BY DEF FilesInv, ViewsInv
  <2>6. file_locks \in Seq(Device \X Nat \X Nat \X Handle)
    BY DEF FilesInv, TablesInv, LocksInv, LockRecord
  <2>7. \A e \in Range(entry) : /\ e.path \in Device
                                /\ e.data \in Seq({0, 1})
                                /\ e.position \in Nat
                                /\ e.fd \in Fd \cup {None}
                                /\ {e.writable, e.readable} \subseteq BOOLEAN
                                /\ e.writable <=> e.fd # None
    BY <2>4 DEF Range
  <2>8. raised \in BOOLEAN /\ program \in Programs
    BY DEF FilesInv
  <2> QED BY <2>1, <2>2, <2>3, <2>5, <2>6, <2>7, <2>8 DEF TypeOK
<1> QED BY <1>1, FilesAlways, PTL

-----------------------------------------------------------------------------
(***************************************************************************)
(* Frames of Direct3D 8, for any number of images, textures and draws.     *)
(* What is recorded of a draw stays true of it for as long as the command  *)
(* buffer keeps it, for a draw lies below the cursor and only the region   *)
(* at the cursor is written.  When it is submitted with a fence that is    *)
(* not signalled, no frame is open until the GPU has run it: a frame is    *)
(* opened only by waiting for the fence, and that is signalled only then.  *)
(* No two textures share a descriptor set.                                 *)
(***************************************************************************)

Id   == {0, 1} \X Nat
Draw == [at : 0 .. Region - 1, id : Id, tex : Tex, set : Pool \cup {Default}]

DrawsRecorded ==
    /\ draws \in Seq(Draw) /\ cursor \in 0 .. Region /\ frame \in {0, 1}
    /\ vertices \in [0 .. Region - 1 -> Id]
    /\ \A i \in DOMAIN draws : draws[i].at < cursor /\ HasVertices(draws[i])

FlightKept ==
    /\ busy => device
    /\ ~ busy => inFlight = {}
    /\ busy /\ awaited => /\ submitted /\ ~ fence /\ ~ acquired
                          /\ \A d \in inFlight : HasVertices(d)

SetsOwned ==
    /\ own \in [Tex -> Pool \cup {Default}] /\ points \in [Pool -> SUBSET Tex]
    /\ \A t, u \in Tex : own[t] = own[u] /\ own[t] # Default => t = u
    /\ "TextureUnlockRect" \notin frameProgram =>
          \A t \in Tex : own[t] # Default => points[own[t]] = {t}
    /\ \A i \in DOMAIN draws : draws[i].set \in {Default, own[draws[i].tex]}

\* An image is in the layout its last use left it in, but for the one in hand.
LayoutsKnown ==
    /\ swapchain \in Nat /\ used \subseteq Image /\ current \in Image
    /\ DOMAIN layout = Image /\ layout = [i \in Image |-> layout[i]]
    /\ acquired => current \in used
    /\ \A i \in Image : (acquired /\ i = current) \/ layout[i] = OldLayout(used, i)

FramesInv == DrawsRecorded /\ FlightKept /\ SetsOwned /\ LayoutsKnown

\* The invariant of the frames holds at first.
LEMMA FramesStart == FrameInit => FramesInv
<1> SUFFICES ASSUME FrameInit PROVE FramesInv
  OBVIOUS
<1>1. DrawsRecorded
  BY D3DFramesAssumption DEF FrameInit, DrawsRecorded, Id
<1>2. FlightKept /\ SetsOwned
  BY DEF FrameInit, FlightKept, SetsOwned
<1>3. LayoutsKnown
  BY D3DFramesAssumption DEF FrameInit, LayoutsKnown, OldLayout, Fresh
<1> QED BY <1>1, <1>2, <1>3 DEF FramesInv

\* A draw takes the region at the cursor.
LEMMA DrawRecorded ==
    ASSUME DrawsRecorded, SetsOwned, NEW t \in Tex, DrawPrimitive(t) PROVE DrawsRecorded'
<1>1. CASE cursor >= Region
  BY <1>1 DEF DrawPrimitive, DrawsRecorded, HasVertices, Undrawn, recording
<1>2. CASE ~ cursor >= Region
  <2> DEFINE id == <<frame, Len(draws) + 1>>
             d == [at |-> cursor, id |-> id, tex |-> t, set |-> own[t]]
  <2>1. /\ vertices' = [vertices EXCEPT ![cursor] = id] /\ cursor' = cursor + 1 /\ frame' = frame
        /\ draws' = draws \/ draws' = Append(draws, d)
    BY <1>2 DEF DrawPrimitive, AfterDraw
  <2>2. /\ cursor \in 0 .. Region - 1 /\ cursor + 1 \in 0 .. Region /\ id \in Id
        /\ draws \in Seq(Draw)
    BY <1>2, D3DFramesAssumption DEF DrawsRecorded, Id
  <2> HIDE DEF id
  <2>3. d \in Draw
    BY <2>2 DEF Draw, SetsOwned
  <2>4. vertices' \in [0 .. Region - 1 -> Id] /\ vertices'[cursor] = id
    BY <2>1, <2>2 DEF DrawsRecorded
  <2>5. ASSUME NEW i \in DOMAIN draws
        PROVE  draws[i].at < cursor + 1 /\ vertices'[draws[i].at] = draws[i].id
    <3>1. draws[i] \in Draw /\ draws[i].at < cursor /\ vertices[draws[i].at] = draws[i].id
      BY <2>2 DEF DrawsRecorded, HasVertices
    <3>2. draws[i].at \in 0 .. Region - 1
      BY <3>1 DEF Draw
    <3> QED BY <2>1, <2>2, <3>1, <3>2 DEF DrawsRecorded
  <2>6. CASE draws' = draws
    BY <2>1, <2>2, <2>4, <2>5, <2>6 DEF DrawsRecorded, HasVertices
  <2>7. CASE draws' = Append(draws, d)
    <3> DEFINE n == Len(draws) + 1
    <3>1. d.at = cursor /\ d.id = id
      OBVIOUS
    <3> HIDE DEF d
    <3>2. draws' \in Seq(Draw) /\ Len(draws') = n
      BY <2>2, <2>3, <2>7
    <3>3. ASSUME NEW i \in DOMAIN draws'
          PROVE  draws'[i].at < cursor' /\ vertices'[draws'[i].at] = draws'[i].id
      <4>1. CASE i = n
        <5>1. draws'[i] = d
          BY <2>2, <2>7, <4>1
        <5> QED BY <2>1, <2>2, <2>4, <3>1, <5>1
      <4>2. CASE i # n
        <5>1. i \in DOMAIN draws /\ draws'[i] = draws[i]
          BY <2>2, <2>7, <3>2, <4>2
        <5> QED BY <2>1, <2>5, <5>1
      <4> QED BY <4>1, <4>2
    <3> QED BY <2>1, <2>2, <2>4, <3>2, <3>3 DEF DrawsRecorded, HasVertices
  <2> QED BY <2>1, <2>6, <2>7
<1> QED BY <1>1, <1>2

\* Nothing else records.
LEMMA DrawsStep == ASSUME DrawsRecorded, SetsOwned, [FrameNext]_frameVars PROVE DrawsRecorded'
<1>1. CASE UNCHANGED recording
  BY <1>1 DEF DrawsRecorded, HasVertices, recording
<1>2. CASE draws' = <<>> /\ cursor' \in 0 .. Region /\ frame' \in {0, 1} /\ vertices' = vertices
  BY <1>2 DEF DrawsRecorded
<1>3. CASE BeginScene
  <2>1. CASE acquired
    BY <1>1, <1>3, <2>1 DEF BeginScene, frameVars
  <2>2. CASE ~ acquired
    <3>1. draws' = <<>> /\ cursor' = 0 /\ frame' = 1 - frame /\ vertices' = vertices
      BY <1>3, <2>2 DEF BeginScene, OpenFrame
    <3> QED BY <1>2, <3>1, D3DFramesAssumption DEF DrawsRecorded
  <2> QED BY <2>1, <2>2
<1>4. ASSUME NEW t \in Tex, DrawPrimitive(t) \/ UnlockSurface(t) \/ UnlockTexture(t)
      PROVE  DrawsRecorded'
  BY <1>1, <1>4, DrawRecorded DEF UnlockSurface, UnlockTexture, Upload, Undrawn
<1>5. CASE Present
  BY <1>2, <1>5 DEF Present, DrawsRecorded
<1>6. CASE Direct3DCreate8 \/ CreateDevice \/ Clear \/ SetRenderState
  BY <1>1, <1>6 DEF Direct3DCreate8, CreateDevice, Clear, SetRenderState, Undrawn
<1>7. CASE Reset \/ Shutdown \/ Execute \/ Resize
  BY <1>1, <1>7 DEF Reset, Shutdown, Execute, Resize, Undrawn
<1>8. CASE EndScene \/ DrawNothing \/ UNCHANGED frameVars
  BY <1>1, <1>8 DEF EndScene, DrawNothing, frameVars
<1> QED BY <1>3, <1>4, <1>5, <1>6, <1>7, <1>8 DEF FrameNext

\* Present puts the recorded draws in flight.
LEMMA Submitted == ASSUME DrawsRecorded, FlightKept, Present PROVE FlightKept'
<1>1. /\ device /\ device' = device /\ acquired /\ acquired' = FALSE /\ submitted' = TRUE
      /\ busy' = TRUE /\ vertices' = vertices
      /\ inFlight' = inFlight \cup {draws[i] : i \in DOMAIN draws}
      /\ awaited' = (~ fence' /\ (busy => awaited))
  BY DEF Present
<1>2. ASSUME awaited' PROVE ~ fence' /\ inFlight' = {draws[i] : i \in DOMAIN draws}
  BY <1>1, <1>2 DEF FlightKept
<1>3. ASSUME awaited', NEW d \in inFlight' PROVE vertices'[d.at] = d.id
  <2>1. PICK i \in DOMAIN draws : d = draws[i]
    BY <1>2, <1>3
  <2> QED BY <1>1, <2>1 DEF DrawsRecorded, HasVertices
<1> QED BY <1>1, <1>2, <1>3 DEF FlightKept, HasVertices

\* While a frame is in flight whose fence counts, no other frame is open.
LEMMA FlightStep ==
    ASSUME DrawsRecorded, FlightKept, [FrameNext]_frameVars PROVE FlightKept'
<1>1. CASE UNCHANGED <<gpu, device, submitted, fence, acquired, vertices>>
  BY <1>1 DEF FlightKept, HasVertices, gpu
<1>2. CASE Finished
  BY <1>2 DEF FlightKept, Finished
<1>3. CASE UNCHANGED gpu /\ device' /\ ~ (busy /\ awaited)
  BY <1>3 DEF FlightKept, gpu
<1>4. CASE BeginScene
  <2>1. CASE acquired
    BY <1>1, <1>4, <2>1 DEF BeginScene, frameVars, recording
  <2>2. CASE ~ acquired
    BY <1>3, <1>4, <2>2 DEF BeginScene, Waited, FlightKept
  <2> QED BY <2>1, <2>2
<1>5. CASE CreateDevice
  <2>1. ~ busy /\ inFlight = {} /\ UNCHANGED gpu
    BY <1>5 DEF CreateDevice, FlightKept
  <2> QED BY <2>1 DEF FlightKept, gpu
<1>6. ASSUME NEW t \in Tex, DrawPrimitive(t) PROVE FlightKept'
  BY <1>3, <1>6 DEF DrawPrimitive, FlightKept
<1>7. ASSUME NEW t \in Tex, UnlockSurface(t) \/ UnlockTexture(t) PROVE FlightKept'
  BY <1>2, <1>7 DEF UnlockSurface, UnlockTexture, Upload
<1>8. CASE Reset \/ Shutdown \/ Execute
  BY <1>2, <1>8 DEF Reset, Shutdown, Execute
<1>9. CASE Direct3DCreate8 \/ Clear \/ SetRenderState \/ Resize
  BY <1>1, <1>9 DEF Direct3DCreate8, Clear, SetRenderState, Resize, Undrawn, recording
<1>10. CASE EndScene \/ DrawNothing \/ UNCHANGED frameVars
  BY <1>1, <1>10 DEF EndScene, DrawNothing, frameVars, recording
<1> QED BY <1>4, <1>5, <1>6, <1>7, <1>8, <1>9, <1>10, Submitted DEF FrameNext

\* UnlockRect gives a texture a set that no other has, once.
LEMMA SetGiven ==
    ASSUME DrawsRecorded, SetsOwned, NEW t \in Tex, UnlockSurface(t) PROVE SetsOwned'
<1>1. draws' = draws /\ frameProgram' = frameProgram
  BY DEF UnlockSurface, Upload, Undrawn, recording
<1>2. CASE UNCHANGED textures
  BY <1>1, <1>2 DEF SetsOwned, textures
<1>3. ASSUME NEW s \in SetFor(t), own' = [own EXCEPT ![t] = s], points' = [points EXCEPT ![s] = {t}]
      PROVE  SetsOwned'
  <2>1. s \in Pool /\ s # Default
    BY <1>3, D3DFramesAssumption DEF SetFor, SetsOwned
  <2>2. \A u \in Tex : u # t => own[u] # s
    BY <1>3, <2>1 DEF SetFor, SetsOwned
  <2>3. own[t] \in {Default, s}
    BY <1>3 DEF SetFor
  <2>4. /\ own' \in [Tex -> Pool \cup {Default}] /\ points' \in [Pool -> SUBSET Tex]
        /\ own'[t] = s /\ \A u \in Tex : u # t => own'[u] = own[u]
    BY <1>3, <2>1 DEF SetsOwned
  <2>5. \A u, v \in Tex : own'[u] = own'[v] /\ own'[u] # Default => u = v
    BY <2>2, <2>4 DEF SetsOwned
  <2>6. "TextureUnlockRect" \notin frameProgram' =>
          \A u \in Tex : own'[u] # Default => points'[own'[u]] = {u}
    BY <1>1, <1>3, <2>1, <2>2, <2>4 DEF SetsOwned
  <2>7. ASSUME NEW i \in DOMAIN draws' PROVE draws'[i].set \in {Default, own'[draws'[i].tex]}
    <3>1. draws[i] \in Draw /\ draws[i].set \in {Default, own[draws[i].tex]}
      BY <1>1, <2>7 DEF DrawsRecorded, SetsOwned
    <3>2. draws[i].tex \in Tex
      BY <3>1 DEF Draw
    <3> QED BY <1>1, <2>3, <2>4, <3>1, <3>2
  <2> QED BY <2>4, <2>5, <2>6, <2>7 DEF SetsOwned
<1> QED BY <1>2, <1>3 DEF UnlockSurface

\* A draw binds the set its texture has.
LEMMA SetBound ==
    ASSUME DrawsRecorded, SetsOwned, NEW t \in Tex, DrawPrimitive(t) PROVE SetsOwned'
<1> DEFINE d == [at |-> cursor, id |-> <<frame, Len(draws) + 1>>, tex |-> t, set |-> own[t]]
<1>1. UNCHANGED <<textures, frameProgram>> /\ (draws' = draws \/ draws' = Append(draws, d))
  BY DEF DrawPrimitive, Unlocked, Undrawn, recording
<1>2. d.tex = t /\ d.set = own[t] /\ draws \in Seq(Draw)
  BY DEF DrawsRecorded
<1> HIDE DEF d
<1>3. ASSUME NEW i \in DOMAIN draws' PROVE draws'[i].set \in {Default, own[draws'[i].tex]}
  <2>1. CASE i \in DOMAIN draws /\ draws'[i] = draws[i]
    BY <2>1 DEF SetsOwned
  <2>2. CASE draws'[i] = d
    BY <1>2, <2>2
  <2> QED BY <1>1, <1>2, <1>3, <2>1, <2>2
<1> QED BY <1>1, <1>3 DEF SetsOwned, textures

\* Only an upload moves a texture's image.
LEMMA SetsStep ==
    ASSUME DrawsRecorded, SetsOwned, [FrameNext]_frameVars PROVE SetsOwned'
<1>1. CASE UNCHANGED <<textures, frameProgram>> /\ draws' \in {draws, <<>>}
  BY <1>1 DEF SetsOwned, textures
<1>2. ASSUME NEW t \in Tex, UnlockTexture(t) PROVE SetsOwned'
  <2>1. /\ "TextureUnlockRect" \in frameProgram /\ UNCHANGED <<own, draws, frameProgram>>
        /\ points' = [s \in Pool |-> IF s = own[t] THEN {} ELSE points[s]]
    BY <1>2 DEF UnlockTexture, Upload, Playing, Undrawn, recording
  <2>2. points' \in [Pool -> SUBSET Tex]
    BY <2>1 DEF SetsOwned
  <2> QED BY <2>1, <2>2 DEF SetsOwned
<1>3. CASE BeginScene
  BY <1>1, <1>3 DEF BeginScene, OpenFrame, Unlocked, frameVars, recording
<1>4. CASE Direct3DCreate8 \/ CreateDevice \/ Clear \/ SetRenderState \/ Present
  BY <1>1, <1>4 DEF Direct3DCreate8, CreateDevice, Clear, SetRenderState, Present, Unlocked,
                    Undrawn, recording
<1>5. CASE Reset \/ Shutdown \/ Execute \/ Resize
  BY <1>1, <1>5 DEF Reset, Shutdown, Execute, Resize, Unlocked, Undrawn, recording
<1>6. CASE EndScene \/ DrawNothing \/ UNCHANGED frameVars
  BY <1>1, <1>6 DEF EndScene, DrawNothing, frameVars, recording
<1> QED BY <1>2, <1>3, <1>4, <1>5, <1>6, SetGiven, SetBound DEF FrameNext

\* An acquired image is the one in hand until it is shown.
LEMMA SceneBegun == ASSUME LayoutsKnown, BeginScene PROVE LayoutsKnown'
<1>1. CASE acquired
  BY <1>1 DEF BeginScene, LayoutsKnown, frameVars, OldLayout
<1>2. CASE ~ acquired
  <2>1. PICK i \in Image : OpenFrame(i, IF stale THEN {} ELSE used)
    BY <1>2 DEF BeginScene
  <2> DEFINE seen == IF stale THEN {} ELSE used
             was == IF stale THEN Fresh ELSE layout
  <2>2. /\ used' = seen \cup {i} /\ current' = i /\ layout' = [was EXCEPT ![i] = "color"]
        /\ acquired' = TRUE /\ swapchain' \in Nat
    BY <1>2, <2>1 DEF OpenFrame, BeginScene, LayoutsKnown
  <2>3. /\ seen \subseteq Image /\ DOMAIN was = Image
        /\ \A j \in Image : was[j] = OldLayout(seen, j)
    BY <1>2 DEF LayoutsKnown, Fresh, OldLayout
  <2> HIDE DEF seen, was
  <2>4. DOMAIN layout' = Image /\ layout' = [j \in Image |-> layout'[j]]
    BY <2>2, <2>3
  <2>5. ASSUME NEW j \in Image, j # i PROVE layout'[j] = OldLayout(used', j)
    BY <2>2, <2>3, <2>5 DEF OldLayout
  <2>6. used' \subseteq Image /\ current' \in Image /\ current' \in used'
    BY <2>2, <2>3
  <2>7. \A j \in Image : j = current' \/ layout'[j] = OldLayout(used', j)
    BY <2>2, <2>5
  <2>8. \A j \in Image : OldLayout(used, j)' = OldLayout(used', j)
    BY DEF OldLayout
  <2> QED BY <2>2, <2>4, <2>6, <2>7, <2>8 DEF LayoutsKnown
<1> QED BY <1>1, <1>2

\* A new swapchain, or the image in hand shown.
LEMMA Shown == ASSUME LayoutsKnown, Present \/ Reset PROVE LayoutsKnown'
<1>1. CASE /\ layout' = Fresh /\ used' = {} /\ acquired' = FALSE /\ swapchain' \in Nat
           /\ current' \in Image
  <2>1. \A j \in Image : layout'[j] = OldLayout(used, j)'
    BY <1>1 DEF Fresh, OldLayout
  <2>2. DOMAIN layout' = Image /\ layout' = [j \in Image |-> layout'[j]]
    BY <1>1 DEF Fresh
  <2> QED BY <1>1, <2>1, <2>2 DEF LayoutsKnown
<1>2. CASE Present /\ stale
  <2>1. /\ layout' = Fresh /\ used' = {} /\ acquired' = FALSE /\ swapchain' = swapchain + 1
        /\ current' = current
    BY <1>2 DEF Present, Rebuilt
  <2>2. swapchain' \in Nat /\ current' \in Image
    BY <2>1 DEF LayoutsKnown
  <2> QED BY <1>1, <2>1, <2>2
<1>3. CASE Present /\ ~ stale
  <2>1. /\ layout' = [layout EXCEPT ![current] = "present"] /\ acquired' = FALSE /\ acquired
        /\ UNCHANGED <<swapchain, used, current>>
    BY <1>3 DEF Present, Finalized
  <2>2. DOMAIN layout' = Image /\ layout' = [j \in Image |-> layout'[j]]
    BY <2>1 DEF LayoutsKnown
  <2>3. ASSUME NEW j \in Image PROVE layout'[j] = OldLayout(used', j)
    BY <2>1 DEF LayoutsKnown, OldLayout
  <2> QED BY <2>1, <2>2, <2>3 DEF LayoutsKnown, OldLayout
<1>4. CASE Reset
  <2>1. CASE UNCHANGED <<swapchain, layout, used, current, acquired>>
    BY <2>1 DEF LayoutsKnown, OldLayout
  <2>2. CASE /\ swapchain' = swapchain + 1 /\ layout' = Fresh /\ used' = {}
             /\ current' = 0 /\ acquired' = FALSE
    <3>1. swapchain' \in Nat /\ current' \in Image
      BY <2>2, D3DFramesAssumption DEF LayoutsKnown
    <3> QED BY <1>1, <2>2, <3>1
  <2> QED BY <1>4, <2>1, <2>2 DEF Reset
<1> QED BY <1>2, <1>3, <1>4

\* Every step keeps the layouts of the images known.
LEMMA LayoutsStep == ASSUME LayoutsKnown, [FrameNext]_frameVars PROVE LayoutsKnown'
<1>1. CASE UNCHANGED <<layout, used, current, acquired>> /\ swapchain' \in Nat
  BY <1>1 DEF LayoutsKnown, OldLayout
<1>2. CASE Clear
  <2>1. CASE layout' = layout
    BY <1>1, <1>2, <2>1 DEF Clear, LayoutsKnown
  <2>2. CASE layout' = [layout EXCEPT ![current] = "transfer"]
    <3>1. acquired /\ UNCHANGED <<swapchain, used, current, acquired>>
      BY <1>2 DEF Clear
    <3>2. DOMAIN layout' = Image /\ layout' = [j \in Image |-> layout'[j]]
      BY <2>2 DEF LayoutsKnown
    <3>3. ASSUME NEW j \in Image, j # current PROVE layout'[j] = layout[j]
      BY <2>2, <3>3 DEF LayoutsKnown
    <3>4. \A j \in Image : OldLayout(used, j)' = OldLayout(used, j)
      BY <3>1 DEF OldLayout
    <3>5. \A j \in Image : j = current \/ layout'[j] = OldLayout(used, j)
      BY <3>3 DEF LayoutsKnown
    <3> QED BY <3>1, <3>2, <3>4, <3>5 DEF LayoutsKnown
  <2> QED BY <1>2, <2>1, <2>2 DEF Clear
<1>3. CASE \E t \in Tex : DrawPrimitive(t) \/ UnlockSurface(t) \/ UnlockTexture(t)
  BY <1>1, <1>3 DEF DrawPrimitive, UnlockSurface, UnlockTexture, Upload, Presentation, LayoutsKnown
<1>4. CASE Direct3DCreate8 \/ SetRenderState \/ Execute \/ Resize
  BY <1>1, <1>4 DEF Direct3DCreate8, SetRenderState, Execute, Resize, Presentation, LayoutsKnown
<1>5. CASE CreateDevice \/ Shutdown
  <2>1. swapchain' \in {0, 1} /\ UNCHANGED <<layout, used, current, acquired>>
    BY <1>5 DEF CreateDevice, Shutdown
  <2> QED BY <1>1, <2>1
<1>6. CASE EndScene \/ DrawNothing \/ UNCHANGED frameVars
  BY <1>1, <1>6 DEF EndScene, DrawNothing, frameVars, LayoutsKnown
<1> QED BY <1>2, <1>3, <1>4, <1>5, <1>6, SceneBegun, Shown DEF FrameNext

\* A draw finds its vertices when the GPU runs it, and the set it binds shows
\* its own texture, whatever is drawn, uploaded, shown and reset until then,
\* for every size of the vertex buffer and any textures; of the frames in
\* flight, those whose fence was not signalled already when they were submitted
\* (BeginScene, DrawPrimitive, UnlockRect).
THEOREM DrawsSafe == FrameSpec => []DrawsFindTheirData
<1>1. FrameInit => FramesInv
  BY FramesStart
<1>2. FramesInv /\ [FrameNext]_frameVars => FramesInv'
  BY DrawsStep, FlightStep, SetsStep, LayoutsStep DEF FramesInv
<1>3. FramesInv => DrawsFindTheirData
  <2> SUFFICES ASSUME FramesInv PROVE DrawsFindTheirData
    OBVIOUS
  <2>1. DrawsKeepTheirVertices
    BY DEF FramesInv, DrawsRecorded, FlightKept, DrawsKeepTheirVertices
  <2>2. DrawsSampleTheirTextures
    <3> SUFFICES ASSUME "TextureUnlockRect" \notin frameProgram, NEW i \in DOMAIN draws
                 PROVE  draws[i].set = Default \/ points[draws[i].set] = {draws[i].tex}
      BY DEF DrawsSampleTheirTextures
    <3>1. draws[i] \in Draw
      BY DEF FramesInv, DrawsRecorded
    <3>2. draws[i].tex \in Tex
      BY <3>1 DEF Draw
    <3> QED BY <3>2 DEF FramesInv, SetsOwned
  <2> QED BY <2>1, <2>2 DEF DrawsFindTheirData
<1> QED BY <1>1, <1>2, <1>3, PTL DEF FrameSpec

\* An image acquired again is taken in the layout its last use left it in, so
\* that what was shown on it is kept, for every number of images and whatever
\* resizes and resets came between (BeginScene, _rebuild_swapchain).
THEOREM ContentsKept == FrameSpec => ContentIsKept
<1> DEFINE Preserved == acquired' /\ ~ acquired /\ swapchain' = swapchain
                     => layout[current'] = OldLayout(used, current')
<1>1. FrameInit => FramesInv
  BY FramesStart
<1>2. FramesInv /\ [FrameNext]_frameVars => FramesInv'
  BY DrawsStep, FlightStep, SetsStep, LayoutsStep DEF FramesInv
<1>3. FramesInv /\ [FrameNext]_frameVars => [Preserved]_frameVars
  <2> SUFFICES ASSUME FramesInv, FrameNext, acquired', ~ acquired, swapchain' = swapchain
               PROVE  layout[current'] = OldLayout(used, current')
    OBVIOUS
  <2>1. /\ ~ EndScene /\ ~ DrawNothing
        /\ ~ Direct3DCreate8 /\ ~ CreateDevice /\ ~ SetRenderState /\ ~ Execute /\ ~ Resize
        /\ ~ Clear /\ ~ Present /\ ~ Shutdown
    BY DEF Direct3DCreate8, CreateDevice, SetRenderState, Execute, Resize, Clear, Present,
           Shutdown, EndScene, DrawNothing, frameVars
  <2>2. ~ Reset
    BY DEF Reset
  <2>3. \A t \in Tex : ~ (DrawPrimitive(t) \/ UnlockSurface(t) \/ UnlockTexture(t))
    BY DEF DrawPrimitive, UnlockSurface, UnlockTexture, Upload
  <2>4. BeginScene
    BY <2>1, <2>2, <2>3 DEF FrameNext
  <2>5. swapchain + 1 # swapchain
    BY DEF FramesInv, LayoutsKnown
  <2>6. \E i \in Image : current' = i
    BY <2>4 DEF BeginScene, OpenFrame
  <2> QED BY <2>6 DEF FramesInv, LayoutsKnown
<1> QED BY <1>1, <1>2, <1>3, PTL DEF FrameSpec, ContentIsKept

-----------------------------------------------------------------------------
(***************************************************************************)
(* Searches.  What a search has handed out is the beginning of its list,   *)
(* as long as the search has come, and the list has no name twice: it is   *)
(* made from one that has none.                                            *)
(***************************************************************************)

\* What is kept of a list without repetitions has none.
LEMMA KeptOnce ==
    ASSUME NEW S, NEW s \in Seq(S), IsInjective(s), NEW keep
    PROVE  IsInjective(Kept(s, keep))
<1> DEFINE r == Kept(s, keep)
<1>1. r \in Seq(S) /\ \E g : Selects(g, s, Len(s), keep, r)
  BY KeptElements
<1> HIDE DEF r
<1>2. PICK g : Selects(g, s, Len(s), keep, r)
  BY <1>1
<1>3. /\ DOMAIN r = 1 .. Len(r) /\ DOMAIN s = 1 .. Len(s) /\ Len(r) \in Nat /\ Len(s) \in Nat
      /\ \A i \in 1 .. Len(r) : g[i] \in 1 .. Len(s) /\ r[i] = s[g[i]]
      /\ \A i, j \in 1 .. Len(r) : i < j => g[i] < g[j]
  BY <1>1, <1>2 DEF Selects
<1>4. ASSUME NEW i \in 1 .. Len(r), NEW j \in 1 .. Len(r), r[i] = r[j] PROVE i = j
  <2>1. g[i] = g[j]
    BY <1>3, <1>4 DEF IsInjective
  <2> QED BY <1>3, <2>1
<1> QED BY <1>3, <1>4 DEF IsInjective, r

\* The search of handle h: its list, how far it is, what it gave, and what it
\* owes.
SearchGood(s, idx, some, owed) ==
    /\ s \in Seq(Nat) /\ IsInjective(s) /\ idx \in Nat
    /\ some \in Seq(Nat) /\ Len(some) = (IF idx < Len(s) THEN idx + 1 ELSE Len(s))
    /\ \A i \in 1 .. Len(some) : some[i] = s[i]
    /\ owed \subseteq Range(s)

SearchInv ==
    /\ DOMAIN find_handle_idx = Searches /\ DOMAIN lasting = Searches
    /\ DOMAIN given = Searches /\ given = [h \in Searches |-> given[h]]
    /\ \A h \in Searches : SearchGood(find_handle_map[h], find_handle_idx[h], given[h], lasting[h])

\* A good search repeats no name and, at its end, owes none.
LEMMA GoodIsComplete ==
    ASSUME NEW s, NEW idx, NEW some, NEW owed, SearchGood(s, idx, some, owed)
    PROVE  IsInjective(some) /\ (idx >= Len(s) => owed \subseteq ToSet(some))
<1>1. /\ DOMAIN s = 1 .. Len(s) /\ DOMAIN some = 1 .. Len(some) /\ Len(s) \in Nat /\ Len(some) \in Nat
      /\ idx \in Nat /\ Len(some) = (IF idx < Len(s) THEN idx + 1 ELSE Len(s))
  <2>1. s \in Seq(Nat) /\ some \in Seq(Nat)
    BY DEF SearchGood
  <2>2. DOMAIN s = 1 .. Len(s) /\ DOMAIN some = 1 .. Len(some) /\ Len(s) \in Nat /\ Len(some) \in Nat
    BY <2>1
  <2> QED BY <2>2, Zenon DEF SearchGood
<1> DEFINE n == Len(s)
           m == Len(some)
<1>a. n \in Nat /\ m \in Nat /\ idx \in Nat /\ (idx < n => m = idx + 1) /\ (~ (idx < n) => m = n)
  BY <1>1, Zenon
<1>b. n = Len(s) /\ m = Len(some)
  OBVIOUS
<1> HIDE DEF n, m
<1>c. m <= n /\ (idx >= n => m = n) /\ \A i \in 1 .. m : i \in 1 .. n
  BY <1>a
<1>2. Len(some) <= Len(s) /\ (idx >= Len(s) => Len(some) = Len(s))
  BY <1>b, <1>c
<1>3. \A i \in 1 .. Len(some) : i \in 1 .. Len(s) /\ some[i] = s[i]
  <2>1. \A i \in 1 .. Len(some) : some[i] = s[i]
    BY DEF SearchGood
  <2> QED BY <1>b, <1>c, <2>1
<1>4. IsInjective(some)
  BY <1>1, <1>3 DEF SearchGood, IsInjective
<1>5. ASSUME idx >= Len(s) PROVE Range(s) = ToSet(some)
  BY <1>1, <1>2, <1>3, <1>5 DEF Range, ToSet
<1> QED BY <1>4, <1>5 DEF SearchGood

\* What the search lists: the names there that match, each once.
LEMMA ListingIs ==
    ASSUME NEW p
    PROVE  /\ Listing(p) \in Seq(Nat) /\ IsInjective(Listing(p))
           /\ listed \subseteq FileName => Range(Listing(p)) = listed \cap p
<1>1. Alphabet \in Seq(Nat \ {0}) /\ IsInjective(Alphabet)
  BY FindAssumption
<1>2. Alphabet \in Seq(Nat)
  BY <1>1
<1>3. Range(Alphabet) = FileName
  BY DEF Range, FileName, ToSet
<1> QED BY <1>1, <1>2, <1>3, KeptOnce, KeptRange DEF Listing

\* FindFirstFileA begins a good search.
LEMMA FirstIsGood ==
    ASSUME SearchInv, listed \in SUBSET FileName, NEW p \in Pattern, FindFirstFile(p)
    PROVE  SearchInv'
<1> DEFINE s == Listing(p)
           h == next_find_handle
<1>1. CASE UNCHANGED <<searches, given, lasting>>
  BY <1>1 DEF SearchInv, searches, Searches
<1>2. CASE s # << >> /\ ~ UNCHANGED <<searches, given, lasting>>
  <2>1. /\ find_handle_map' = With(find_handle_map, h, s) /\ find_handle_idx' = With(find_handle_idx, h, 0)
        /\ given' = With(given, h, << s[1] >>) /\ lasting' = With(lasting, h, listed \cap p)
    BY <1>2 DEF FindFirstFile
  <2>2. s \in Seq(Nat) /\ IsInjective(s) /\ Range(s) = listed \cap p
    BY ListingIs
  <2> HIDE DEF s
  <2>3. Len(s) \in Nat \ {0} /\ s[1] \in Nat
    BY <1>2, <2>2
  <2>4. SearchGood(s, 0, << s[1] >>, listed \cap p)
    BY <2>2, <2>3 DEF SearchGood
  <2>5. /\ Searches' = Searches \cup {h} /\ DOMAIN find_handle_idx' = Searches'
        /\ DOMAIN given' = Searches' /\ DOMAIN lasting' = Searches'
        /\ given' = [x \in Searches' |-> given'[x]]
    BY <2>1 DEF With, Searches, SearchInv
  <2>6. ASSUME NEW x \in Searches'
        PROVE  SearchGood(find_handle_map'[x], find_handle_idx'[x], given'[x], lasting'[x])
    <3>1. CASE x = h
      <4>1. /\ find_handle_map'[x] = s /\ find_handle_idx'[x] = 0
            /\ given'[x] = << s[1] >> /\ lasting'[x] = listed \cap p
        BY <2>1, <3>1 DEF With
      <4> QED BY <2>4, <4>1
    <3>2. CASE x # h
      <4>1. x \in Searches
        BY <2>5, <3>2
      <4>2. /\ find_handle_map'[x] = find_handle_map[x] /\ find_handle_idx'[x] = find_handle_idx[x]
            /\ given'[x] = given[x] /\ lasting'[x] = lasting[x]
        BY <2>1, <3>2, <4>1 DEF With, SearchInv, Searches
      <4> QED BY <4>1, <4>2 DEF SearchInv
    <3> QED BY <3>1, <3>2
  <2> QED BY <2>5, <2>6 DEF SearchInv
<1> QED BY <1>1, <1>2 DEF FindFirstFile

\* FindNextFileA hands out the next name, or none past the end.
LEMMA NextIsGood ==
    ASSUME SearchInv, NEW h \in Searches, FindNextFile(h)
    PROVE  SearchInv'
<1> DEFINE s == find_handle_map[h]
           idx == find_handle_idx[h] + 1
           more == IF idx < Len(s) THEN Append(given[h], s[idx + 1]) ELSE given[h]
<1>1. /\ idx <= Len(s) /\ UNCHANGED <<find_handle_map, lasting>>
      /\ find_handle_idx' = [find_handle_idx EXCEPT ![h] = idx]
      /\ given' = [given EXCEPT ![h] = more]
  <2>1. given = [given EXCEPT ![h] = given[h]]
    <3>1. given = [x \in Searches |-> given[x]]
      BY DEF SearchInv
    <3> QED BY <3>1
  <2>2. CASE idx < Len(s)
    BY <2>2 DEF FindNextFile, Names
  <2>3. CASE ~ (idx < Len(s))
    BY <2>1, <2>3 DEF FindNextFile, Names
  <2> QED BY <2>2, <2>3
<1>2. /\ s \in Seq(Nat) /\ IsInjective(s) /\ idx \in Nat \ {0}
      /\ given[h] \in Seq(Nat) /\ lasting[h] \subseteq Range(s) /\ Len(given[h]) \in Nat /\ Len(s) \in Nat
      /\ \A i \in 1 .. Len(given[h]) : given[h][i] = s[i]
      /\ Len(given[h]) = (IF idx - 1 < Len(s) THEN idx ELSE Len(s))
  BY DEF SearchInv, SearchGood
<1>3. SearchGood(s, idx, more, lasting[h])
  <2> DEFINE g == given[h]
         n == Len(s)
         m == Len(g)
  <2>a. n \in Nat /\ m \in Nat /\ idx \in Nat \ {0} /\ idx <= n
    BY <1>1, <1>2
  <2>b. m = (IF idx - 1 < n THEN idx ELSE n)
    BY <1>2
  <2>c. g \in Seq(Nat) /\ (\A i \in 1 .. m : g[i] = s[i]) /\ m = Len(g) /\ n = Len(s)
    BY <1>2
  <2> HIDE DEF s, idx, g, n, m
  <2>d. m = idx
    BY <2>a, <2>b
  <2>1. Len(g) = idx /\ g \in Seq(Nat) /\ \A i \in 1 .. idx : g[i] = s[i]
    BY <2>c, <2>d
  <2>2. CASE idx < Len(s)
    <3>1. idx + 1 \in 1 .. Len(s) /\ s[idx + 1] \in Nat
      BY <1>2, <2>2
    <3>2. more = Append(g, s[idx + 1])
      BY <2>2 DEF g
    <3> DEFINE v == s[idx + 1]
    <3> HIDE DEF more, v
    <3>a. more = Append(g, v) /\ v \in Nat /\ v = s[idx + 1]
      BY <3>1, <3>2 DEF v
    <3>3. /\ more \in Seq(Nat) /\ Len(more) = idx + 1 /\ more[idx + 1] = s[idx + 1]
          /\ \A i \in 1 .. idx : more[i] = g[i]
      BY <1>2, <2>1, <3>a
    <3>4. \A i \in 1 .. idx + 1 : i = idx + 1 \/ i \in 1 .. idx
      BY <1>2
    <3> QED BY <1>2, <2>1, <2>2, <3>3, <3>4 DEF SearchGood
  <2>3. CASE ~ (idx < Len(s))
    <3>1. more = g /\ idx = Len(s)
      BY <1>1, <1>2, <2>3 DEF g
    <3> QED BY <1>2, <2>1, <2>3, <3>1 DEF SearchGood
  <2> QED BY <2>2, <2>3
<1> HIDE DEF more, idx, s
<1>4. /\ Searches' = Searches /\ DOMAIN find_handle_idx' = Searches /\ DOMAIN lasting' = Searches
      /\ DOMAIN given' = Searches /\ given' = [x \in Searches |-> given'[x]]
  BY <1>1 DEF Searches, SearchInv
<1>5. ASSUME NEW x \in Searches
      PROVE  SearchGood(find_handle_map'[x], find_handle_idx'[x], given'[x], lasting'[x])
  <2>1. CASE x = h
    <3>1. find_handle_map'[x] = s /\ find_handle_idx'[x] = idx /\ given'[x] = more /\ lasting'[x] = lasting[h]
      BY <1>1, <2>1 DEF SearchInv, s
    <3> QED BY <1>3, <3>1
  <2>2. CASE x # h
    <3>1. find_handle_map'[x] = find_handle_map[x] /\ find_handle_idx'[x] = find_handle_idx[x] /\ given'[x] = given[x] /\ lasting'[x] = lasting[x]
      BY <1>1, <2>2 DEF SearchInv
    <3> QED BY <3>1 DEF SearchInv
  <2> QED BY <2>1, <2>2
<1> QED BY <1>4, <1>5 DEF SearchInv

\* FindClose ends one search, and a file that goes is owed no more.
LEMMA RestIsGood ==
    ASSUME SearchInv, \/ \E h \in Searches : FindClose(h)
                      \/ \E n \in FileName : FileAppears(n) \/ FileGoes(n)
    PROVE  SearchInv'
<1>1. ASSUME NEW h \in Searches, FindClose(h) PROVE SearchInv'
  <2>1. /\ find_handle_map' = Less(find_handle_map, h) /\ find_handle_idx' = Less(find_handle_idx, h)
        /\ given' = Less(given, h) /\ lasting' = Less(lasting, h)
    BY <1>1 DEF FindClose
  <2>2. /\ Searches' = Searches \ {h} /\ DOMAIN find_handle_idx' = Searches'
        /\ DOMAIN given' = Searches' /\ DOMAIN lasting' = Searches'
        /\ given' = [x \in Searches' |-> given'[x]]
    BY <2>1 DEF Less, Searches, SearchInv
  <2>3. ASSUME NEW x \in Searches'
        PROVE  /\ x \in Searches
               /\ find_handle_map'[x] = find_handle_map[x] /\ find_handle_idx'[x] = find_handle_idx[x]
               /\ given'[x] = given[x] /\ lasting'[x] = lasting[x]
    BY <2>1, <2>2 DEF Less, SearchInv, Searches
  <2> QED BY <2>2, <2>3 DEF SearchInv
<1>2. ASSUME NEW n \in FileName, FileAppears(n) PROVE SearchInv'
  BY <1>2 DEF FileAppears, SearchInv, Searches, searches
<1>3. ASSUME NEW n \in FileName, FileGoes(n) PROVE SearchInv'
  <2>1. /\ lasting' = [h \in Searches |-> lasting[h] \ {n}]
        /\ UNCHANGED <<find_handle_map, find_handle_idx, given>>
    BY <1>3 DEF FileGoes, searches
  <2>2. ASSUME NEW x \in Searches
        PROVE  SearchGood(find_handle_map[x], find_handle_idx[x], given[x], lasting'[x])
    <3>1. lasting'[x] \subseteq lasting[x]
      BY <2>1
    <3> QED BY <3>1 DEF SearchInv, SearchGood
  <2> QED BY <2>1, <2>2 DEF SearchInv, Searches
<1> QED BY <1>1, <1>2, <1>3

\* In a directory or none.
Directory == listed \in SUBSET FileName \/ listed = NoDirectory

\* A search of a directory, of any names and with any others at once, hands
\* out no name twice, and at its end has handed out every one that was there
\* all the while.
THEOREM SearchesComplete == FindSpec => []SearchIsComplete
<1> DEFINE I == SearchInv /\ Directory
<1>1. FindInit => I
  <2>1. ASSUME FindInit PROVE SearchInv
    BY <2>1 DEF FindInit, SearchInv, Searches
  <2>2. ASSUME FindInit PROVE Directory
    BY <2>2 DEF FindInit, Directory
  <2> QED BY <2>1, <2>2
<1>2. ASSUME I, FindNext PROVE I'
  <2>1. Directory'
    BY <1>2 DEF FindNext, FindFirstFile, FindNextFile, FindClose, FileAppears, FileGoes, Directory
  <2>2. ASSUME NEW p \in Pattern, FindFirstFile(p) PROVE SearchInv'
    <3>1. CASE listed = NoDirectory
      BY <1>2, <2>2, <3>1 DEF FindFirstFile, SearchInv, Searches, searches
    <3>2. CASE listed \in SUBSET FileName
      BY <1>2, <2>2, <3>2, FirstIsGood
    <3> QED BY <1>2, <3>1, <3>2 DEF Directory
  <2> QED BY <1>2, <2>1, <2>2, NextIsGood, RestIsGood DEF FindNext
<1>3. ASSUME I, UNCHANGED findVars PROVE I'
  BY <1>3 DEF findVars, searches, SearchInv, Directory, Searches
<1>4. I => SearchIsComplete
  <2> SUFFICES ASSUME SearchInv, NEW h \in Searches
               PROVE  /\ IsInjective(given[h])
                      /\ SearchEnded(h) => lasting[h] \subseteq ToSet(given[h])
    BY DEF SearchIsComplete
  <2>1. SearchGood(find_handle_map[h], find_handle_idx[h], given[h], lasting[h])
    BY DEF SearchInv
  <2> QED BY <2>1, GoodIsComplete DEF SearchEnded
<1> QED BY <1>1, <1>2, <1>3, <1>4, PTL DEF FindSpec
-----------------------------------------------------------------------------
(***************************************************************************)
(* Direct3D's objects, for any heap, sizes, levels and stages.  Every      *)
(* address that was ever handed out is on a free list, is an object, is    *)
(* the data of one, or is loose: taken, and not yet or no longer any of    *)
(* these.  An object's address is given again to objects of its kind only. *)
(***************************************************************************)

Entries == [kind : {"res", "surf", "tex"}, data : Nat, size : Sizes \cup Levels, mips : Seq(Nat)]
Heaps == [next : Nat, free : [Keys -> Seq(Nat)],
          reg : UNION {[A -> Entries] : A \in SUBSET Nat},
          refs : UNION {[A -> Nat \ {0}] : A \in SUBSET Nat}]

OnList(h, a) == \E k \in Keys : \E i \in 1 .. Len(h.free[k]) : h.free[k][i] = a
DataOf(h, a) == \E o \in Alive(h) : h.reg[o].kind # "tex" /\ h.reg[o].data = a

\* No address has two of these uses, nor one twice.
Parted(h, loose) ==
    /\ 0 < h.next /\ h.next <= Limit + 1
    /\ \A a : (OnList(h, a) \/ DataOf(h, a) \/ a \in Alive(h) \/ a \in loose) =>
                  a \in Nat /\ 0 < a /\ a < h.next
    /\ \A a : OnList(h, a) => a \notin loose /\ a \notin Alive(h) /\ ~ DataOf(h, a)
    /\ \A a : DataOf(h, a) => a \notin loose /\ a \notin Alive(h)
    /\ \A a \in Alive(h) : a \notin loose
    /\ \A j, k \in Keys : \A i \in 1 .. Len(h.free[j]), l \in 1 .. Len(h.free[k]) :
          h.free[j][i] = h.free[k][l] => j = k /\ i = l
    /\ \A o, p \in Alive(h) :
          (h.reg[o].kind # "tex" /\ h.reg[p].kind # "tex" /\ h.reg[o].data = h.reg[p].data) => o = p
    /\ \A o \in Alive(h) : h.reg[o].kind = "tex" => h.reg[o].data = 0

SurfKey == <<"surf_obj", 1>>

\* A surface, or a block that was one.
SurfAt(h, a) ==
    \/ a \in Alive(h) /\ h.reg[a].kind = "surf"
    \/ \E i \in 1 .. Len(h.free[SurfKey]) : h.free[SurfKey][i] = a

\* The levels of a texture are surfaces, each another one.
MipsAre(h) ==
    \A x \in Alive(h) :
        /\ h.reg[x].kind # "tex" => h.reg[x].mips = << >>
        /\ h.reg[x].kind = "tex" =>
              /\ \A i \in 1 .. Len(h.reg[x].mips) : SurfAt(h, h.reg[x].mips[i])
              /\ \A i, j \in 1 .. Len(h.reg[x].mips) : h.reg[x].mips[i] = h.reg[x].mips[j] => i = j

Good(h, loose) == h \in Heaps /\ Parted(h, loose) /\ MipsAre(h)

-----------------------------------------------------------------------------
\* What a heap is made of.
LEMMA HeapFields ==
    ASSUME NEW h \in Heaps
    PROVE  /\ h = [next |-> h.next, free |-> h.free, reg |-> h.reg, refs |-> h.refs]
           /\ h.next \in Nat /\ h.free \in [Keys -> Seq(Nat)]
           /\ Alive(h) \in SUBSET Nat /\ h.reg \in [Alive(h) -> Entries]
           /\ DOMAIN h.refs \in SUBSET Nat /\ h.refs \in [DOMAIN h.refs -> Nat \ {0}]
BY DEF Heaps, Alive

\* What makes a heap.
LEMMA HeapMade ==
    ASSUME NEW n \in Nat, NEW free \in [Keys -> Seq(Nat)],
           NEW A \in SUBSET Nat, NEW reg \in [A -> Entries],
           NEW B \in SUBSET Nat, NEW refs \in [B -> Nat \ {0}]
    PROVE  [next |-> n, free |-> free, reg |-> reg, refs |-> refs] \in Heaps
<1>1. reg \in UNION {[X -> Entries] : X \in SUBSET Nat}
  OBVIOUS
<1>2. refs \in UNION {[X -> Nat \ {0}] : X \in SUBSET Nat}
  OBVIOUS
<1> QED BY <1>1, <1>2 DEF Heaps

\* The keys of the free lists have the size of a block.
LEMMA KeysAre ==
    /\ \A k \in Keys : k[2] \in Nat \ {0}
    /\ SurfKey \in Keys /\ <<"res_obj", 1>> \in Keys /\ SurfKey # <<"res_obj", 1>>
    /\ \A s \in Sizes \cup Levels : /\ <<"res_data", s>> \in Keys \ {SurfKey}
                                    /\ <<"surf_data", s>> \in Keys \ {SurfKey}
                                    /\ <<"tex_obj", s>> \in Keys \ {SurfKey}
<1> DEFINE N == Sizes \cup Levels \cup {1}
<1>1. N \subseteq Nat \ {0} /\ 1 \in N /\ Sizes \cup Levels \subseteq N
  BY D3DObjectsAssumption
<1>2. Keys = Kinds \X N
  BY DEF Keys
<1> HIDE DEF N
<1>3. \A k \in Keys : k[2] \in Nat \ {0}
  BY <1>1, <1>2
<1>4. \A c \in Kinds, n \in N : <<c, n>> \in Keys
  BY <1>2
<1>5. {"res_data", "res_obj", "surf_data", "surf_obj", "tex_obj"} = Kinds
  BY DEF Kinds
<1>6. \A c, n : c # "surf_obj" => <<c, n>> # SurfKey
  BY DEF SurfKey
<1>7. SurfKey \in Keys
  BY <1>1, <1>4, <1>5 DEF SurfKey
<1>8. <<"res_obj", 1>> \in Keys /\ <<"res_obj", 1>> # SurfKey
  BY <1>1, <1>4, <1>5, <1>6
<1>9. \A c \in {"res_data", "surf_data", "tex_obj"}, s \in Sizes \cup Levels : <<c, s>> \in Keys \ {SurfKey}
  BY <1>1, <1>4, <1>5, <1>6
<1> QED BY <1>3, <1>7, <1>8, <1>9

\* The first and the last of a list that is not empty.
LEMMA FrontAndLast ==
    ASSUME NEW s \in Seq(Nat), s # << >>
    PROVE  /\ Front(s) \in Seq(Nat) /\ Len(Front(s)) = Len(s) - 1 /\ Len(s) \in Nat \ {0}
           /\ \A i \in 1 .. Len(s) - 1 : Front(s)[i] = s[i]
           /\ Last(s) = s[Len(s)] /\ Last(s) \in Nat
<1>1. Len(s) \in Nat \ {0}
  OBVIOUS
<1> DEFINE t == SubSeq(s, 1, Len(s) - 1)
<1>2. /\ t \in Seq(Nat) /\ Len(t) = IF 1 <= Len(s) - 1 THEN Len(s) - 1 - 1 + 1 ELSE 0
      /\ \A i \in 1 .. Len(s) - 1 - 1 + 1 : t[i] = s[1 + i - 1]
  <2>1. \A i \in 1 .. Len(s) - 1 : s[i] \in Nat
    BY <1>1
  <2>2. 1 \in Int /\ Len(s) - 1 \in Int
    BY <1>1
  <2> DEFINE n == Len(s) - 1
  <2> HIDE DEF n
  <2>3. /\ SubSeq(s, 1, n) \in Seq(Nat) /\ Len(SubSeq(s, 1, n)) = IF 1 <= n THEN n - 1 + 1 ELSE 0
        /\ \A i \in 1 .. n - 1 + 1 : SubSeq(s, 1, n)[i] = s[1 + i - 1]
    BY <2>1, <2>2, SubSeqProperties DEF n
  <2> QED BY <2>3 DEF n
<1>3. Front(s) = t /\ Last(s) = s[Len(s)]
  BY DEF Front, Last
<1> HIDE DEF t
<1>4. Last(s) \in Nat
  BY <1>1, <1>3
<1> QED BY <1>1, <1>2, <1>3, <1>4

-----------------------------------------------------------------------------
\* What the taking of a block a does.
BlockTaken(h, loose, k, q, a) ==
    /\ q \in Heaps /\ Parted(q, loose \cup {a})
    /\ a \in 1 .. Limit /\ a \notin loose /\ a \notin Alive(h)
    /\ q.reg = h.reg /\ q.refs = h.refs
    /\ \A j \in Keys \ {k} : q.free[j] = h.free[j]
    /\ \A i \in 1 .. Len(h.free[k]) :
          h.free[k][i] = a \/ \E j \in 1 .. Len(q.free[k]) : q.free[k][j] = h.free[k][i]

\* A block taken from its free list, or from the end of the heap, is loose.
LEMMA TakeBlock ==
    ASSUME NEW h \in Heaps, NEW loose, Parted(h, loose), NEW k \in Keys, Room(h, k)
    PROVE  BlockTaken(h, loose, k, HeapAlloc(h, k), AllocAddr(h, k))
<1> DEFINE q == HeapAlloc(h, k)
           a == AllocAddr(h, k)
           f == h.free[k]
<1>1. /\ h = [next |-> h.next, free |-> h.free, reg |-> h.reg, refs |-> h.refs]
      /\ h.next \in Nat /\ h.free \in [Keys -> Seq(Nat)] /\ f \in Seq(Nat)
      /\ Alive(h) \in SUBSET Nat /\ h.reg \in [Alive(h) -> Entries]
      /\ DOMAIN h.refs \in SUBSET Nat /\ h.refs \in [DOMAIN h.refs -> Nat \ {0}]
  BY HeapFields
<1>2. k[2] \in Nat \ {0} /\ Limit \in Nat
  BY KeysAre, D3DObjectsAssumption
<1>3. CASE f # << >>
  <2> DEFINE free == [h.free EXCEPT ![k] = Front(@)]
  <2>1. q = [next |-> h.next, free |-> free, reg |-> h.reg, refs |-> h.refs] /\ a = Last(f)
    <3>1. q = [h EXCEPT !.free[k] = Front(@)] /\ a = Last(f)
      BY <1>3 DEF HeapAlloc, AllocAddr
    <3> QED BY <1>1, <3>1
  <2>2. /\ Front(f) \in Seq(Nat) /\ Len(Front(f)) = Len(f) - 1 /\ Len(f) \in Nat \ {0}
        /\ \A i \in 1 .. Len(f) - 1 : Front(f)[i] = f[i]
        /\ Last(f) = f[Len(f)] /\ Last(f) \in Nat
    <3> HIDE DEF f
    <3> QED BY <1>1, <1>3, FrontAndLast
  <2>3. /\ free \in [Keys -> Seq(Nat)] /\ free[k] = Front(f)
        /\ \A j \in Keys \ {k} : free[j] = h.free[j]
    BY <1>1, <2>2
  <2> HIDE DEF q, a, free
  <2>4. q \in Heaps
    BY <1>1, <2>1, <2>3, HeapMade
  <2>5. q.free = free /\ q.reg = h.reg /\ q.refs = h.refs /\ q.next = h.next /\ Alive(q) = Alive(h)
    BY <2>1 DEF Alive
  <2>6. \A j \in Keys : \A i \in 1 .. Len(q.free[j]) :
           i \in 1 .. Len(h.free[j]) /\ q.free[j][i] = h.free[j][i] /\ q.free[j][i] # a
    <3> SUFFICES ASSUME NEW j \in Keys, NEW i \in 1 .. Len(q.free[j])
                 PROVE  i \in 1 .. Len(h.free[j]) /\ q.free[j][i] = h.free[j][i] /\ q.free[j][i] # a
      OBVIOUS
    <3>1. Len(f) \in 1 .. Len(h.free[k]) /\ a = h.free[k][Len(f)]
      BY <2>1, <2>2
    <3>2. i \in 1 .. Len(h.free[j]) /\ q.free[j][i] = h.free[j][i] /\ ~ (j = k /\ i = Len(f))
      <4>1. CASE j = k
        <5>1. q.free[j] = Front(f) /\ h.free[j] = f
          BY <2>3, <2>5, <4>1
        <5> HIDE DEF f
        <5>2. i \in 1 .. Len(f) - 1
          BY <2>2, <5>1
        <5>3. i \in 1 .. Len(f) /\ i # Len(f) /\ Front(f)[i] = f[i]
          BY <2>2, <5>2
        <5> QED BY <5>1, <5>3
      <4>2. CASE j # k
        BY <2>3, <2>5, <4>2
      <4> QED BY <4>1, <4>2
    <3> HIDE DEF f
    <3> QED BY <3>1, <3>2 DEF Parted
  <2>7. OnList(h, a)
    <3>1. Len(f) \in 1 .. Len(h.free[k]) /\ a = h.free[k][Len(f)]
      BY <2>1, <2>2
    <3> QED BY <3>1 DEF OnList
  <2>8. \A x : OnList(q, x) => OnList(h, x) /\ x # a
    BY <2>6 DEF OnList
  <2>9. \A x : DataOf(q, x) <=> DataOf(h, x)
    BY <2>5 DEF DataOf
  <2>10. /\ a \in Nat /\ 0 < a /\ a < h.next
         /\ a \notin loose /\ a \notin Alive(h) /\ ~ DataOf(h, a) /\ h.next <= Limit + 1
    BY <2>7 DEF Parted
  <2>11. \A x : (OnList(q, x) \/ DataOf(q, x) \/ x \in Alive(q) \/ x \in loose \cup {a}) =>
                    x \in Nat /\ 0 < x /\ x < q.next
    BY <2>5, <2>8, <2>9, <2>10 DEF Parted
  <2>12. /\ \A x : OnList(q, x) => x \notin loose \cup {a} /\ x \notin Alive(q) /\ ~ DataOf(q, x)
         /\ \A x : DataOf(q, x) => x \notin loose \cup {a} /\ x \notin Alive(q)
         /\ \A x \in Alive(q) : x \notin loose \cup {a}
    BY <2>5, <2>8, <2>9, <2>10 DEF Parted
  <2>13. \A j, l \in Keys : \A i \in 1 .. Len(q.free[j]), m \in 1 .. Len(q.free[l]) :
            q.free[j][i] = q.free[l][m] => j = l /\ i = m
    BY <2>6 DEF Parted
  <2>14. Parted(q, loose \cup {a})
    BY <2>5, <2>11, <2>12, <2>13 DEF Parted
  <2>15. a \in 1 .. Limit
    BY <1>1, <1>2, <2>10
  <2>16. ASSUME NEW i \in 1 .. Len(h.free[k])
         PROVE  h.free[k][i] = a \/ \E j \in 1 .. Len(q.free[k]) : q.free[k][j] = h.free[k][i]
    <3>1. i \in 1 .. Len(f) /\ h.free[k] = f
      OBVIOUS
    <3> HIDE DEF f
    <3>2. i = Len(f) \/ i \in 1 .. Len(f) - 1
      BY <2>2, <3>1
    <3>3. q.free[k] = Front(f)
      BY <2>3, <2>5
    <3> QED BY <2>1, <2>2, <3>1, <3>2, <3>3
  <2> QED BY <2>3, <2>4, <2>5, <2>10, <2>14, <2>15, <2>16 DEF BlockTaken, q, a
<1>4. CASE f = << >>
  <2>1. q = [next |-> h.next + k[2], free |-> h.free, reg |-> h.reg, refs |-> h.refs] /\ a = h.next
    <3>1. q = [h EXCEPT !.next = @ + k[2]] /\ a = h.next
      BY <1>4 DEF HeapAlloc, AllocAddr
    <3> QED BY <1>1, <3>1
  <2>2. h.next + k[2] <= Limit + 1 /\ h.next + k[2] \in Nat
    BY <1>1, <1>2, <1>4 DEF Room
  <2> HIDE DEF q, a
  <2>3. q \in Heaps
    BY <1>1, <2>1, <2>2, HeapMade
  <2>4. q.free = h.free /\ q.reg = h.reg /\ q.refs = h.refs /\ q.next = h.next + k[2] /\ Alive(q) = Alive(h)
    BY <2>1 DEF Alive
  <2>5. \A x : (OnList(q, x) <=> OnList(h, x)) /\ (DataOf(q, x) <=> DataOf(h, x))
    BY <2>4 DEF OnList, DataOf
  <2>6. 0 < h.next /\ a = h.next /\ a < q.next /\ q.next <= Limit + 1
    BY <1>1, <1>2, <2>1, <2>2, <2>4 DEF Parted
  <2>7. ~ OnList(h, a) /\ ~ DataOf(h, a) /\ a \notin Alive(h) /\ a \notin loose
    BY <1>1, <2>6 DEF Parted
  <2>8. \A x : (OnList(q, x) \/ DataOf(q, x) \/ x \in Alive(q) \/ x \in loose \cup {a}) =>
                    x \in Nat /\ 0 < x /\ x < q.next
    <3>1. \A x : (OnList(h, x) \/ DataOf(h, x) \/ x \in Alive(h) \/ x \in loose) =>
                    x \in Nat /\ 0 < x /\ x < h.next
      BY DEF Parted
    <3> QED BY <1>1, <1>2, <2>4, <2>5, <2>6, <3>1
  <2>9. /\ \A x : OnList(q, x) => x \notin loose \cup {a} /\ x \notin Alive(q) /\ ~ DataOf(q, x)
        /\ \A x : DataOf(q, x) => x \notin loose \cup {a} /\ x \notin Alive(q)
        /\ \A x \in Alive(q) : x \notin loose \cup {a}
    BY <2>4, <2>5, <2>7 DEF Parted
  <2>10. Parted(q, loose \cup {a})
    <3>1. 0 < q.next
      BY <1>1, <1>2, <2>4
    <3> QED BY <2>4, <2>6, <2>8, <2>9, <3>1 DEF Parted
  <2>11. a \in 1 .. Limit
    BY <1>1, <1>2, <2>2, <2>6
  <2>12. \A i \in 1 .. Len(h.free[k]) : \E j \in 1 .. Len(q.free[k]) : q.free[k][j] = h.free[k][i]
    BY <2>4
  <2> QED BY <2>3, <2>4, <2>7, <2>10, <2>11, <2>12 DEF BlockTaken, q, a
<1> QED BY <1>3, <1>4

\* q is h with the loose block a on the free list k.
GivenBack(h, loose, a, k, q) ==
    /\ q \in Heaps /\ Parted(q, loose \ {a})
    /\ q.reg = h.reg /\ q.refs = h.refs
    /\ q.free[k] = Append(h.free[k], a)
    /\ \A j \in Keys \ {k} : q.free[j] = h.free[j]

\* q is h with the object o entered, made of loose blocks.
Entered(h, loose, o, e, q) ==
    /\ q \in Heaps
    /\ Parted(q, loose \ {o, e.data})
    /\ q.free = h.free /\ q.refs = h.refs
    /\ Alive(q) = Alive(h) \cup {o} /\ q.reg[o] = e
    /\ \A x \in Alive(h) : q.reg[x] = h.reg[x]

\* q is h with the object o removed, its blocks loose.
Removed(h, loose, o, e, q) ==
    /\ q \in Heaps
    /\ e.kind # "tex" => Parted(q, loose \cup {o, e.data})
    /\ e.kind = "tex" => Parted(q, loose \cup {o})
    /\ o \notin loose
    /\ e.kind # "tex" => e.data # o /\ e.data \notin loose
    /\ q.free = h.free /\ q.refs = h.refs
    /\ Alive(q) = Alive(h) \ {o}
    /\ \A x \in Alive(q) : q.reg[x] = h.reg[x]

\* A loose block goes to the free list of a key.
LEMMA GiveBlock ==
    ASSUME NEW h \in Heaps, NEW loose, Parted(h, loose), NEW k \in Keys, NEW a \in loose,
           NEW q, q = HeapFree(h, a, k)
    PROVE  GivenBack(h, loose, a, k, q)
<1> DEFINE f == h.free[k]
           free == [h.free EXCEPT ![k] = Append(@, a)]
<1>1. /\ h = [next |-> h.next, free |-> h.free, reg |-> h.reg, refs |-> h.refs]
      /\ h.next \in Nat /\ h.free \in [Keys -> Seq(Nat)] /\ f \in Seq(Nat)
      /\ Alive(h) \in SUBSET Nat /\ h.reg \in [Alive(h) -> Entries]
      /\ DOMAIN h.refs \in SUBSET Nat /\ h.refs \in [DOMAIN h.refs -> Nat \ {0}]
  BY HeapFields
<1>2. a \in Nat /\ 0 < a /\ a < h.next
  BY DEF Parted
<1>3. q = [next |-> h.next, free |-> free, reg |-> h.reg, refs |-> h.refs]
  <2>1. q = [h EXCEPT !.free[k] = Append(@, a)]
    BY DEF HeapFree
  <2> QED BY <1>1, <2>1
<1>4. /\ free \in [Keys -> Seq(Nat)] /\ free[k] = Append(f, a)
      /\ \A j \in Keys \ {k} : free[j] = h.free[j]
  BY <1>1, <1>2
<1> HIDE DEF free
<1>5. q \in Heaps
  <2>1. [next |-> h.next, free |-> free, reg |-> h.reg, refs |-> h.refs] \in Heaps
    BY <1>1, <1>4, HeapMade
  <2> QED BY <1>3, <2>1, Zenon
<1>6. q.free = free /\ q.reg = h.reg /\ q.refs = h.refs /\ q.next = h.next /\ Alive(q) = Alive(h)
  BY <1>3 DEF Alive
<1>7. \A j \in Keys : \A i \in 1 .. Len(q.free[j]) :
         \/ i \in 1 .. Len(h.free[j]) /\ q.free[j][i] = h.free[j][i]
         \/ j = k /\ i = Len(f) + 1 /\ q.free[j][i] = a
  <2> SUFFICES ASSUME NEW j \in Keys, NEW i \in 1 .. Len(q.free[j])
               PROVE  \/ i \in 1 .. Len(h.free[j]) /\ q.free[j][i] = h.free[j][i]
                      \/ j = k /\ i = Len(f) + 1 /\ q.free[j][i] = a
    OBVIOUS
  <2>1. CASE j = k
    <3>1. q.free[j] = Append(f, a) /\ h.free[j] = f
      BY <1>4, <1>6, <2>1
    <3> HIDE DEF f
    <3>2. /\ Len(Append(f, a)) = Len(f) + 1 /\ Append(f, a)[Len(f) + 1] = a
          /\ \A l \in 1 .. Len(f) : Append(f, a)[l] = f[l]
      BY <1>1, <1>2
    <3>3. i \in 1 .. Len(f) \/ i = Len(f) + 1
      BY <1>1, <3>1, <3>2
    <3> QED BY <2>1, <3>1, <3>2, <3>3
  <2>2. CASE j # k
    BY <1>4, <1>6, <2>2
  <2> QED BY <2>1, <2>2
<1>8. \A x : OnList(q, x) => OnList(h, x) \/ x = a
  BY <1>7 DEF OnList
<1>9. \A x : DataOf(q, x) <=> DataOf(h, x)
  BY <1>6 DEF DataOf
<1>10. ~ OnList(h, a) /\ ~ DataOf(h, a) /\ a \notin Alive(h)
  BY DEF Parted
<1>11. \A x : (OnList(q, x) \/ DataOf(q, x) \/ x \in Alive(q) \/ x \in loose \ {a}) =>
                  x \in Nat /\ 0 < x /\ x < q.next
  BY <1>2, <1>6, <1>8, <1>9 DEF Parted
<1>12. /\ \A x : OnList(q, x) => x \notin loose \ {a} /\ x \notin Alive(q) /\ ~ DataOf(q, x)
       /\ \A x : DataOf(q, x) => x \notin loose \ {a} /\ x \notin Alive(q)
       /\ \A x \in Alive(q) : x \notin loose \ {a}
  BY <1>6, <1>8, <1>9, <1>10 DEF Parted
<1>13. \A j, l \in Keys : \A i \in 1 .. Len(q.free[j]), m \in 1 .. Len(q.free[l]) :
          q.free[j][i] = q.free[l][m] => j = l /\ i = m
  <2> SUFFICES ASSUME NEW j \in Keys, NEW l \in Keys, NEW i \in 1 .. Len(q.free[j]),
                      NEW m \in 1 .. Len(q.free[l]), q.free[j][i] = q.free[l][m]
               PROVE  j = l /\ i = m
    OBVIOUS
  <2>1. ASSUME NEW x \in Keys, NEW y \in 1 .. Len(h.free[x]) PROVE h.free[x][y] # a
    BY <1>10, <2>1 DEF OnList
  <2>2. CASE i \in 1 .. Len(h.free[j]) /\ q.free[j][i] = h.free[j][i]
    <3>1. m \in 1 .. Len(h.free[l]) /\ q.free[l][m] = h.free[l][m]
      BY <1>7, <2>1, <2>2
    <3>2. h.free[j][i] = h.free[l][m] /\ i \in 1 .. Len(h.free[j]) /\ m \in 1 .. Len(h.free[l])
      BY <2>2, <3>1
    <3>3. \A x, y \in Keys : \A u \in 1 .. Len(h.free[x]), v \in 1 .. Len(h.free[y]) :
             h.free[x][u] = h.free[y][v] => x = y /\ u = v
      BY DEF Parted
    <3> QED BY <3>2, <3>3
  <2>3. CASE j = k /\ i = Len(f) + 1 /\ q.free[j][i] = a
    <3>1. q.free[l][m] = a
      BY <2>3
    <3>2. ~ (m \in 1 .. Len(h.free[l]) /\ q.free[l][m] = h.free[l][m])
      BY <2>1, <3>1
    <3>3. \/ m \in 1 .. Len(h.free[l]) /\ q.free[l][m] = h.free[l][m]
          \/ l = k /\ m = Len(f) + 1 /\ q.free[l][m] = a
      BY <1>7, Zenon
    <3> QED BY <2>3, <3>2, <3>3
  <2> QED BY <1>7, <2>2, <2>3
<1>14. Parted(q, loose \ {a})
  BY <1>6, <1>11, <1>12, <1>13 DEF Parted
<1> QED BY <1>4, <1>5, <1>6, <1>14 DEF GivenBack

\* A block may be forgotten.
LEMMA PartedLess ==
    ASSUME NEW h, NEW loose, NEW fewer \in SUBSET loose, Parted(h, loose)
    PROVE  Parted(h, fewer)
BY DEF Parted

\* Counts do not matter to it.
LEMMA PartedBy ==
    ASSUME NEW h, NEW q, NEW loose, Parted(h, loose),
           q.next = h.next, q.free = h.free, q.reg = h.reg
    PROVE  Parted(q, loose)
BY DEF Parted, OnList, DataOf, Alive

\* Loose blocks become an object, and the data of one.
LEMMA PartedRegister ==
    ASSUME NEW h \in Heaps, NEW loose, Parted(h, loose), NEW e \in Entries, NEW o \in loose,
           e.kind # "tex" => e.data \in loose /\ e.data # o,
           e.kind = "tex" => e.data = 0,
           NEW q, q = Registered(h, o, e)
    PROVE  Entered(h, loose, o, e, q)
<1> DEFINE reg == [b \in Alive(h) \cup {o} |-> IF b = o THEN e ELSE h.reg[b]]
<1>1. /\ h = [next |-> h.next, free |-> h.free, reg |-> h.reg, refs |-> h.refs]
      /\ h.next \in Nat /\ h.free \in [Keys -> Seq(Nat)]
      /\ Alive(h) \in SUBSET Nat /\ h.reg \in [Alive(h) -> Entries]
      /\ DOMAIN h.refs \in SUBSET Nat /\ h.refs \in [DOMAIN h.refs -> Nat \ {0}]
  BY HeapFields
<1>2. o \in Nat /\ 0 < o /\ o < h.next
  BY DEF Parted
<1>3. q = [next |-> h.next, free |-> h.free, reg |-> reg, refs |-> h.refs]
  <2>1. q = [h EXCEPT !.reg = [b \in DOMAIN @ \cup {o} |-> IF b = o THEN e ELSE @[b]]]
    BY DEF Registered
  <2>2. q = [h EXCEPT !.reg = reg]
    BY <1>1, <2>1 DEF Alive
  <2> HIDE DEF reg
  <2> QED BY <1>1, <2>2
<1>4. /\ Alive(h) \cup {o} \in SUBSET Nat /\ reg \in [Alive(h) \cup {o} -> Entries]
      /\ reg[o] = e /\ \A x \in Alive(h) \ {o} : reg[x] = h.reg[x]
  BY <1>1, <1>2
<1> HIDE DEF reg
<1>5. q \in Heaps
  <2>1. [next |-> h.next, free |-> h.free, reg |-> reg, refs |-> h.refs] \in Heaps
    BY <1>1, <1>4, HeapMade
  <2> QED BY <1>3, <2>1, Zenon
<1>6. q.free = h.free /\ q.reg = reg /\ q.refs = h.refs /\ q.next = h.next /\ Alive(q) = Alive(h) \cup {o}
  BY <1>3, <1>4 DEF Alive
<1>7. o \notin Alive(h) /\ ~ OnList(h, o) /\ ~ DataOf(h, o)
  BY DEF Parted
<1>8. q.reg[o] = e /\ \A x \in Alive(h) : q.reg[x] = h.reg[x]
  BY <1>4, <1>6, <1>7
<1>9. \A x : OnList(q, x) <=> OnList(h, x)
  BY <1>6 DEF OnList
<1>10. \A x : DataOf(q, x) => DataOf(h, x) \/ (e.kind # "tex" /\ x = e.data)
  BY <1>6, <1>8 DEF DataOf
<1>11. e.kind # "tex" => /\ ~ OnList(h, e.data) /\ ~ DataOf(h, e.data) /\ e.data \notin Alive(h)
                         /\ e.data \in Nat /\ 0 < e.data /\ e.data < h.next /\ e.data # o
  BY DEF Parted
<1> DEFINE less == loose \ {o, e.data}
<1>12. \A x : (OnList(q, x) \/ DataOf(q, x) \/ x \in Alive(q) \/ x \in less) =>
                  x \in Nat /\ 0 < x /\ x < q.next
  BY <1>2, <1>6, <1>9, <1>10, <1>11 DEF Parted
<1>13. /\ \A x : OnList(q, x) => x \notin less /\ x \notin Alive(q) /\ ~ DataOf(q, x)
       /\ \A x : DataOf(q, x) => x \notin less /\ x \notin Alive(q)
       /\ \A x \in Alive(q) : x \notin less
  BY <1>6, <1>7, <1>9, <1>10, <1>11 DEF Parted
<1>14. \A x, y \in Alive(q) :
          (q.reg[x].kind # "tex" /\ q.reg[y].kind # "tex" /\ q.reg[x].data = q.reg[y].data) => x = y
  <2> SUFFICES ASSUME NEW x \in Alive(q), NEW y \in Alive(q), q.reg[x].kind # "tex",
                      q.reg[y].kind # "tex", q.reg[x].data = q.reg[y].data, x # y
               PROVE  FALSE
    OBVIOUS
  <2>1. ASSUME NEW z \in Alive(h), q.reg[z].kind # "tex", e.kind # "tex" PROVE q.reg[z].data # e.data
    BY <1>8, <1>11, <2>1 DEF DataOf
  <2>2. CASE x = o \/ y = o
    BY <1>6, <1>8, <2>1, <2>2
  <2>3. CASE x # o /\ y # o
    BY <1>6, <1>8, <2>3 DEF Parted
  <2> QED BY <2>2, <2>3
<1>15. \A x \in Alive(q) : q.reg[x].kind = "tex" => q.reg[x].data = 0
  BY <1>6, <1>8 DEF Parted
<1> HIDE DEF less
<1>16. \A j, k \in Keys : \A i \in 1 .. Len(q.free[j]), l \in 1 .. Len(q.free[k]) :
          q.free[j][i] = q.free[k][l] => j = k /\ i = l
  BY <1>6 DEF Parted
<1>17. 0 < q.next /\ q.next <= Limit + 1
  BY <1>6 DEF Parted
<1>18. Parted(q, less)
  BY <1>12, <1>13, <1>14, <1>15, <1>16, <1>17 DEF Parted
<1> QED BY <1>5, <1>6, <1>8, <1>18 DEF less, Entered

\* An object that is given up leaves its blocks loose.
LEMMA PartedDrop ==
    ASSUME NEW h \in Heaps, NEW loose, Parted(h, loose), NEW o \in Alive(h),
           NEW q, q = [h EXCEPT !.reg = Dropped(@, o)], NEW e, e = h.reg[o]
    PROVE  Removed(h, loose, o, e, q)
<1> DEFINE reg == [b \in Alive(h) \ {o} |-> h.reg[b]]
           more == loose \cup (IF e.kind = "tex" THEN {o} ELSE {o, e.data})
<1>1. /\ h = [next |-> h.next, free |-> h.free, reg |-> h.reg, refs |-> h.refs]
      /\ h.next \in Nat /\ h.free \in [Keys -> Seq(Nat)]
      /\ Alive(h) \in SUBSET Nat /\ h.reg \in [Alive(h) -> Entries]
      /\ DOMAIN h.refs \in SUBSET Nat /\ h.refs \in [DOMAIN h.refs -> Nat \ {0}]
  BY HeapFields
<1>2. q = [next |-> h.next, free |-> h.free, reg |-> reg, refs |-> h.refs]
  <2>1. q = [h EXCEPT !.reg = reg]
    BY DEF Dropped, Alive
  <2> HIDE DEF reg
  <2> QED BY <1>1, <2>1
<1>3. /\ Alive(h) \ {o} \in SUBSET Nat /\ reg \in [Alive(h) \ {o} -> Entries]
      /\ \A x \in Alive(h) \ {o} : reg[x] = h.reg[x]
  BY <1>1
<1> HIDE DEF reg
<1>4. q \in Heaps
  <2>1. [next |-> h.next, free |-> h.free, reg |-> reg, refs |-> h.refs] \in Heaps
    BY <1>1, <1>3, HeapMade
  <2> QED BY <1>2, <2>1, Zenon
<1>5. q.free = h.free /\ q.reg = reg /\ q.refs = h.refs /\ q.next = h.next /\ Alive(q) = Alive(h) \ {o}
  BY <1>2, <1>3 DEF Alive
<1>6. \A x \in Alive(q) : q.reg[x] = h.reg[x]
  BY <1>3, <1>5
<1>7. \A x : OnList(q, x) <=> OnList(h, x)
  BY <1>5 DEF OnList
<1>8. \A x : DataOf(q, x) => DataOf(h, x)
  BY <1>5, <1>6 DEF DataOf
<1>9. e.kind # "tex" => DataOf(h, e.data) /\ ~ DataOf(q, e.data)
  <2>1. ASSUME e.kind # "tex", NEW x \in Alive(q), q.reg[x].kind # "tex", q.reg[x].data = e.data PROVE FALSE
    <3>1. x \in Alive(h) /\ x # o /\ h.reg[x].kind # "tex" /\ h.reg[x].data = h.reg[o].data
      BY <1>5, <1>6, <2>1
    <3> QED BY <2>1, <3>1 DEF Parted
  <2>2. e.kind # "tex" => DataOf(h, e.data)
    BY DEF DataOf
  <2> QED BY <2>1, <2>2 DEF DataOf
<1>10. /\ o \notin loose /\ ~ OnList(h, o) /\ ~ DataOf(h, o)
       /\ e.kind # "tex" => /\ e.data \notin loose /\ ~ OnList(h, e.data) /\ e.data \notin Alive(h)
                            /\ e.data # o
  BY <1>9 DEF Parted
<1>11. \A x \in more : \/ x \in loose \/ x = o
                       \/ (e.kind # "tex" /\ x = e.data)
  OBVIOUS
<1> HIDE DEF more
<1>12. \A x : (OnList(q, x) \/ DataOf(q, x) \/ x \in Alive(q) \/ x \in more) =>
                  x \in Nat /\ 0 < x /\ x < q.next
  BY <1>5, <1>7, <1>8, <1>9, <1>11 DEF Parted
<1>13. /\ \A x : OnList(q, x) => x \notin more /\ x \notin Alive(q) /\ ~ DataOf(q, x)
       /\ \A x : DataOf(q, x) => x \notin more /\ x \notin Alive(q)
       /\ \A x \in Alive(q) : x \notin more
  BY <1>5, <1>7, <1>8, <1>9, <1>10, <1>11 DEF Parted
<1>14. /\ \A x, y \in Alive(q) :
             (q.reg[x].kind # "tex" /\ q.reg[y].kind # "tex" /\ q.reg[x].data = q.reg[y].data) => x = y
       /\ \A x \in Alive(q) : q.reg[x].kind = "tex" => q.reg[x].data = 0
  BY <1>5, <1>6 DEF Parted
<1>15. \A j, k \in Keys : \A i \in 1 .. Len(q.free[j]), l \in 1 .. Len(q.free[k]) :
          q.free[j][i] = q.free[k][l] => j = k /\ i = l
  BY <1>5 DEF Parted
<1>16. 0 < q.next /\ q.next <= Limit + 1
  BY <1>5 DEF Parted
<1>17. Parted(q, more)
  BY <1>12, <1>13, <1>14, <1>15, <1>16 DEF Parted
<1>18. (e.kind # "tex" => more = loose \cup {o, e.data}) /\ (e.kind = "tex" => more = loose \cup {o})
  BY DEF more
<1> QED BY <1>4, <1>5, <1>6, <1>10, <1>17, <1>18 DEF Removed

-----------------------------------------------------------------------------
\* What is or was a surface stays one.
SurfStays(h, q) == \A a : SurfAt(h, a) => SurfAt(q, a)

\* Objects without levels come, objects go.
LEMMA MipsKept ==
    ASSUME NEW h, NEW q, MipsAre(h), SurfStays(h, q),
           \A x \in Alive(q) : \/ x \in Alive(h) /\ q.reg[x] = h.reg[x]
                               \/ q.reg[x].kind # "tex" /\ q.reg[x].mips = << >>
    PROVE  MipsAre(q)
<1> SUFFICES ASSUME NEW x \in Alive(q)
             PROVE  /\ q.reg[x].kind # "tex" => q.reg[x].mips = << >>
                    /\ q.reg[x].kind = "tex" =>
                          /\ \A i \in 1 .. Len(q.reg[x].mips) : SurfAt(q, q.reg[x].mips[i])
                          /\ \A i, j \in 1 .. Len(q.reg[x].mips) : q.reg[x].mips[i] = q.reg[x].mips[j] => i = j
  BY DEF MipsAre
<1>1. CASE x \in Alive(h) /\ q.reg[x] = h.reg[x]
  BY <1>1 DEF MipsAre, SurfStays
<1>2. CASE q.reg[x].kind # "tex" /\ q.reg[x].mips = << >>
  BY <1>2
<1> QED BY <1>1, <1>2

\* Only the counts differ.
LEMMA GoodBy ==
    ASSUME NEW h, NEW q \in Heaps, NEW loose, Good(h, loose),
           q.next = h.next, q.free = h.free, q.reg = h.reg
    PROVE  Good(q, loose) /\ SurfStays(h, q) /\ Alive(q) = Alive(h)
<1>1. Parted(q, loose)
  BY PartedBy DEF Good
<1>2. SurfStays(h, q) /\ Alive(q) = Alive(h)
  BY DEF SurfStays, SurfAt, Alive
<1>3. MipsAre(q)
  BY <1>2, MipsKept DEF Good
<1> QED BY <1>1, <1>2, <1>3 DEF Good

\* A count that is set.
LEMMA CountSet ==
    ASSUME NEW h \in Heaps, NEW a \in Nat, NEW n \in Nat \ {0}
    PROVE  LET q == WithCount(h, a, n)
           IN  /\ q \in Heaps /\ q.next = h.next /\ q.free = h.free /\ q.reg = h.reg
               /\ Count(q, a) = n /\ \A x : x # a => Count(q, x) = Count(h, x)
<1> DEFINE q == WithCount(h, a, n)
           refs == [b \in DOMAIN h.refs \cup {a} |-> IF b = a THEN n ELSE h.refs[b]]
<1>1. /\ h = [next |-> h.next, free |-> h.free, reg |-> h.reg, refs |-> h.refs]
      /\ h.next \in Nat /\ h.free \in [Keys -> Seq(Nat)]
      /\ Alive(h) \in SUBSET Nat /\ h.reg \in [Alive(h) -> Entries]
      /\ DOMAIN h.refs \in SUBSET Nat /\ h.refs \in [DOMAIN h.refs -> Nat \ {0}]
  BY HeapFields
<1>2. q = [next |-> h.next, free |-> h.free, reg |-> h.reg, refs |-> refs]
  <2>1. q = [h EXCEPT !.refs = refs]
    BY DEF WithCount
  <2> HIDE DEF refs
  <2> QED BY <1>1, <2>1
<1>3. DOMAIN h.refs \cup {a} \in SUBSET Nat /\ refs \in [DOMAIN h.refs \cup {a} -> Nat \ {0}]
  BY <1>1
<1>4. q \in Heaps
  <2> HIDE DEF refs, q
  <2> QED BY <1>1, <1>2, <1>3, HeapMade
<1>5. q.next = h.next /\ q.free = h.free /\ q.reg = h.reg /\ q.refs = refs
  <2> HIDE DEF refs, q
  <2> QED BY <1>2
<1>6. Count(q, a) = n /\ \A x : x # a => Count(q, x) = Count(h, x)
  <2> HIDE DEF q
  <2> QED BY <1>5 DEF Count
<1> QED BY <1>4, <1>5, <1>6

\* A count that is forgotten and so 1 again.
LEMMA CountForgotten ==
    ASSUME NEW h \in Heaps, NEW a
    PROVE  LET q == [h EXCEPT !.refs = Dropped(@, a)]
           IN  /\ q \in Heaps /\ q.next = h.next /\ q.free = h.free /\ q.reg = h.reg
               /\ Count(q, a) = 1 /\ \A x : x # a => Count(q, x) = Count(h, x)
<1> DEFINE q == [h EXCEPT !.refs = Dropped(@, a)]
           refs == [b \in DOMAIN h.refs \ {a} |-> h.refs[b]]
<1>1. /\ h = [next |-> h.next, free |-> h.free, reg |-> h.reg, refs |-> h.refs]
      /\ h.next \in Nat /\ h.free \in [Keys -> Seq(Nat)]
      /\ Alive(h) \in SUBSET Nat /\ h.reg \in [Alive(h) -> Entries]
      /\ DOMAIN h.refs \in SUBSET Nat /\ h.refs \in [DOMAIN h.refs -> Nat \ {0}]
  BY HeapFields
<1>2. q = [next |-> h.next, free |-> h.free, reg |-> h.reg, refs |-> refs]
  <2>1. q = [h EXCEPT !.refs = refs]
    BY DEF Dropped
  <2> HIDE DEF refs
  <2> QED BY <1>1, <2>1
<1>3. DOMAIN h.refs \ {a} \in SUBSET Nat /\ refs \in [DOMAIN h.refs \ {a} -> Nat \ {0}]
  BY <1>1
<1>4. q \in Heaps
  <2> HIDE DEF refs, q
  <2> QED BY <1>1, <1>2, <1>3, HeapMade
<1>5. q.next = h.next /\ q.free = h.free /\ q.reg = h.reg /\ q.refs = refs
  <2> HIDE DEF refs, q
  <2> QED BY <1>2
<1>6. Count(q, a) = 1 /\ \A x : x # a => Count(q, x) = Count(h, x)
  <2> HIDE DEF q
  <2> QED BY <1>5 DEF Count
<1> QED BY <1>4, <1>5, <1>6

\* A count is at least 1.
LEMMA CountIs ==
    ASSUME NEW h \in Heaps, NEW a
    PROVE  Count(h, a) \in Nat \ {0}
<1>1. h.refs \in [DOMAIN h.refs -> Nat \ {0}]
  BY HeapFields
<1> QED BY <1>1 DEF Count

-----------------------------------------------------------------------------
Rounds == [h : Heaps, ok : BOOLEAN, made : Seq(Nat)]

\* What a buffer or a surface that was made changes.
Made(h, q, o, kind) ==
    /\ o \in 1 .. Limit /\ o \notin Alive(h) /\ Alive(q) = Alive(h) \cup {o}
    /\ q.reg[o].kind = kind /\ q.reg[o].mips = << >>
    /\ \A x \in Alive(h) : q.reg[x] = h.reg[x]

\* What the making of one does to a round, and its failure.
LeafMaking(r, q, loose, kind) ==
    /\ q \in Rounds /\ Good(q.h, loose) /\ SurfStays(r.h, q.h) /\ q.h.refs = r.h.refs
    /\ ~ q.ok => q.h.reg = r.h.reg /\ q.made = r.made
    /\ q.ok => \E o \in Nat : /\ Made(r.h, q.h, o, kind) /\ o \notin loose
                              /\ q.made = Append(r.made, o)

\* A buffer or a surface is made, or the heap is exhausted.
LEMMA LeafMade ==
    ASSUME NEW r \in Rounds, NEW loose, Good(r.h, loose),
           NEW kind \in {"res", "surf"}, NEW size \in Sizes
    PROVE  LeafMaking(r, AllocObject(r, kind, size), loose, kind)
<1> DEFINE dk == IF kind = "res" THEN <<"res_data", size>> ELSE <<"surf_data", size>>
           ok == IF kind = "res" THEN <<"res_obj", 1>> ELSE <<"surf_obj", 1>>
           h == r.h
           h1 == HeapAlloc(h, dk)
           d == AllocAddr(h, dk)
           h2 == HeapAlloc(h1, ok)
           o == AllocAddr(h1, ok)
           e == [kind |-> kind, data |-> d, size |-> size, mips |-> << >>]
           h3 == Registered(h2, o, e)
           q == AllocObject(r, kind, size)
<1>1. q = IF ~ r.ok \/ ~ Room(h, dk) THEN [h |-> h, ok |-> FALSE, made |-> r.made]
          ELSE IF ~ Room(h1, ok) THEN [h |-> h1, ok |-> FALSE, made |-> r.made]
          ELSE [h |-> h3, ok |-> TRUE, made |-> Append(r.made, o)]
  BY DEF AllocObject
<1>2. dk \in Keys \ {SurfKey} /\ ok \in Keys /\ (kind = "surf" <=> ok = SurfKey)
  BY KeysAre DEF SurfKey
<1>3. h \in Heaps /\ Parted(h, loose) /\ MipsAre(h) /\ r.made \in Seq(Nat) /\ r.ok \in BOOLEAN
  BY DEF Good, Rounds
<1> HIDE DEF q, dk, ok, h, h1, d, h2, o, e, h3
<1>4. CASE ~ r.ok \/ ~ Room(h, dk)
  <2>1. q = [h |-> h, ok |-> FALSE, made |-> r.made]
    BY <1>1, <1>4
  <2>2. q \in Rounds /\ q.h = h /\ ~ q.ok /\ q.made = r.made
    BY <1>3, <2>1 DEF Rounds
  <2> QED BY <1>3, <2>2 DEF LeafMaking, Good, SurfStays, q, h
<1>5. CASE r.ok /\ Room(h, dk)
  <2>1. /\ h1 \in Heaps /\ Parted(h1, loose \cup {d})
        /\ d \in 1 .. Limit /\ d \notin loose /\ d \notin Alive(h)
        /\ h1.reg = h.reg /\ h1.refs = h.refs
        /\ \A j \in Keys \ {dk} : h1.free[j] = h.free[j]
    <3>1. dk \in Keys /\ h1 = HeapAlloc(h, dk) /\ d = AllocAddr(h, dk)
      BY <1>2 DEF h1, d
    <3>2. BlockTaken(h, loose, dk, h1, d)
      BY <1>3, <1>5, <3>1, TakeBlock
    <3> QED BY <3>2 DEF BlockTaken
  <2>2. h1.free[SurfKey] = h.free[SurfKey] /\ Alive(h1) = Alive(h)
    BY <1>2, <2>1, KeysAre DEF Alive
  <2>3. SurfStays(h, h1)
    BY <2>1, <2>2 DEF SurfStays, SurfAt
  <2>4. MipsAre(h1)
    BY <1>3, <2>1, <2>2, <2>3, MipsKept
  <2>5. CASE ~ Room(h1, ok)
    <3>1. q = [h |-> h1, ok |-> FALSE, made |-> r.made]
      BY <1>1, <1>5, <2>5
    <3>2. q \in Rounds /\ q.h = h1 /\ ~ q.ok /\ q.made = r.made
      BY <1>3, <2>1, <3>1 DEF Rounds
    <3>3. Parted(h1, loose)
      BY <2>1, PartedLess
    <3> QED BY <2>1, <2>3, <2>4, <3>2, <3>3 DEF LeafMaking, Good, q, h
  <2>6. CASE Room(h1, ok)
    <3>1. q = [h |-> h3, ok |-> TRUE, made |-> Append(r.made, o)]
      BY <1>1, <1>5, <2>6
    <3>2. /\ h2 \in Heaps /\ Parted(h2, (loose \cup {d}) \cup {o})
          /\ o \in 1 .. Limit /\ o \notin loose \cup {d} /\ o \notin Alive(h1)
          /\ h2.reg = h1.reg /\ h2.refs = h1.refs
          /\ \A j \in Keys \ {ok} : h2.free[j] = h1.free[j]
          /\ \A i \in 1 .. Len(h1.free[ok]) :
                h1.free[ok][i] = o \/ \E j \in 1 .. Len(h2.free[ok]) : h2.free[ok][j] = h1.free[ok][i]
      <4> DEFINE rest == loose \cup {d}
      <4>1. Parted(h1, rest) /\ h2 = HeapAlloc(h1, ok) /\ o = AllocAddr(h1, ok)
        BY <2>1 DEF h2, o
      <4> HIDE DEF rest
      <4>2. BlockTaken(h1, rest, ok, h2, o)
        BY <1>2, <2>1, <2>6, <4>1, TakeBlock
      <4> QED BY <4>2 DEF BlockTaken, rest
    <3>3. e \in Entries /\ e.kind = kind /\ e.kind # "tex" /\ e.data = d /\ e.mips = << >>
      BY <2>1 DEF e, Entries
    <3> DEFINE all == (loose \cup {d}) \cup {o}
    <3>4. o \in all /\ e.data \in all /\ e.data # o
      BY <3>2, <3>3
    <3>5. Parted(h2, all)
      BY <3>2
    <3> HIDE DEF all
    <3>6. /\ h3 \in Heaps /\ Parted(h3, all \ {o, e.data})
          /\ h3.free = h2.free /\ h3.refs = h2.refs
          /\ Alive(h3) = Alive(h2) \cup {o} /\ h3.reg[o] = e
          /\ \A x \in Alive(h2) : h3.reg[x] = h2.reg[x]
      <4>1. h3 = Registered(h2, o, e)
        BY DEF h3
      <4>2. h2 \in Heaps /\ e \in Entries /\ o \in all
        BY <3>2, <3>3, <3>4
      <4>3. e.kind # "tex" => e.data \in all /\ e.data # o
        BY <3>4
      <4>4. e.kind = "tex" => e.data = 0
        BY <3>3
      <4>5. Entered(h2, all, o, e, h3)
        BY <3>5, <4>1, <4>2, <4>3, <4>4, PartedRegister
      <4> QED BY <4>5 DEF Entered
    <3>7. all \ {o, e.data} = loose
      BY <2>1, <3>2, <3>3 DEF all
    <3>8. Alive(h2) = Alive(h) /\ h2.reg = h.reg /\ h3.refs = h.refs
      BY <2>1, <3>2, <3>6 DEF Alive
    <3>9. Made(h, h3, o, kind)
      BY <2>1, <2>2, <3>2, <3>3, <3>6, <3>8 DEF Made
    <3>10. SurfStays(h, h3)
      <4> SUFFICES ASSUME NEW a, SurfAt(h, a) PROVE SurfAt(h3, a)
        BY DEF SurfStays
      <4>1. CASE a \in Alive(h) /\ h.reg[a].kind = "surf"
        BY <3>9, <4>1 DEF SurfAt, Made
      <4>2. ASSUME NEW i \in 1 .. Len(h.free[SurfKey]), h.free[SurfKey][i] = a PROVE SurfAt(h3, a)
        <5>1. i \in 1 .. Len(h1.free[SurfKey]) /\ h1.free[SurfKey][i] = a
          BY <2>2, <4>2
        <5>2. CASE ok = SurfKey
          <6>1. a = o \/ \E j \in 1 .. Len(h2.free[SurfKey]) : h2.free[SurfKey][j] = a
            BY <3>2, <5>1, <5>2
          <6>2. a = o => SurfAt(h3, a)
            BY <1>2, <3>9, <5>2 DEF SurfAt, Made
          <6> QED BY <3>6, <6>1, <6>2 DEF SurfAt
        <5>3. CASE ok # SurfKey
          <6>1. h3.free[SurfKey] = h1.free[SurfKey]
            BY <3>2, <3>6, <5>3, KeysAre
          <6> QED BY <5>1, <6>1 DEF SurfAt
        <5> QED BY <5>2, <5>3
      <4> QED BY <4>1, <4>2 DEF SurfAt
    <3>11. MipsAre(h3)
      <4>1. \A x \in Alive(h3) : \/ x \in Alive(h) /\ h3.reg[x] = h.reg[x]
                                 \/ h3.reg[x].kind # "tex" /\ h3.reg[x].mips = << >>
        BY <3>3, <3>9 DEF Made
      <4> QED BY <1>3, <3>10, <4>1, MipsKept
    <3>12. Good(h3, loose)
      BY <3>6, <3>7, <3>11 DEF Good
    <3>13. o \in Nat /\ o \notin loose
      BY <3>2
    <3>14. q \in Rounds /\ q.h = h3 /\ q.ok /\ q.made = Append(r.made, o)
      BY <1>3, <3>1, <3>6, <3>13 DEF Rounds
    <3> QED BY <3>8, <3>9, <3>10, <3>12, <3>13, <3>14 DEF LeafMaking, q, h
  <2> QED BY <2>5, <2>6
<1> QED BY <1>3, <1>4, <1>5

\* A buffer or a surface that is freed: both blocks go back.
LEMMA LeafFreed ==
    ASSUME NEW h, NEW loose, Good(h, loose), NEW a, a \in Alive(h) => h.reg[a].kind # "tex"
    PROVE  LET q == FreeLeaf(h, a)
           IN  /\ Good(q, loose) /\ SurfStays(h, q) /\ q.refs = h.refs
               /\ Alive(q) = Alive(h) \ {a} /\ \A x \in Alive(q) : q.reg[x] = h.reg[x]
<1>1. CASE a \notin Alive(h)
  <2>1. FreeLeaf(h, a) = h
    BY <1>1 DEF FreeLeaf
  <2> QED BY <1>1, <2>1 DEF SurfStays
<1>2. CASE a \in Alive(h)
  <2> DEFINE e == h.reg[a]
             dk == <<IF e.kind = "res" THEN "res_data" ELSE "surf_data", e.size>>
             ok == <<IF e.kind = "res" THEN "res_obj" ELSE "surf_obj", 1>>
             h1 == [h EXCEPT !.reg = Dropped(@, a)]
             h2 == HeapFree(h1, e.data, dk)
             h3 == HeapFree(h2, a, ok)
  <2>1. FreeLeaf(h, a) = h3
    BY <1>2 DEF FreeLeaf
  <2>2. h \in Heaps /\ Parted(h, loose) /\ MipsAre(h)
    BY DEF Good
  <2>3. e \in Entries
    BY <1>2, <2>2, HeapFields
  <2>4. e.kind \in {"res", "surf"} /\ e.size \in Sizes \cup Levels
    BY <1>2, <2>3 DEF Entries
  <2>5. dk \in Keys \ {SurfKey} /\ ok \in Keys /\ (e.kind = "surf" <=> ok = SurfKey)
    <3> HIDE DEF e
    <3> QED BY <2>4, KeysAre DEF SurfKey
  <2>6. /\ h1 \in Heaps
        /\ e.kind # "tex" => Parted(h1, loose \cup {a, e.data})
        /\ a \notin loose
        /\ e.kind # "tex" => e.data # a /\ e.data \notin loose
        /\ h1.free = h.free /\ h1.refs = h.refs
        /\ Alive(h1) = Alive(h) \ {a}
        /\ \A x \in Alive(h1) : h1.reg[x] = h.reg[x]
    <3> HIDE DEF h1, e
    <3>1. h1 = [h EXCEPT !.reg = Dropped(@, a)] /\ e = h.reg[a]
      BY DEF h1, e
    <3>2. Removed(h, loose, a, e, h1)
      BY <1>2, <2>2, <3>1, PartedDrop
    <3> QED BY <3>2 DEF Removed
  <2> DEFINE d == e.data
             all == loose \cup {a, d}
  <2>7. /\ Parted(h1, all) /\ a \notin loose /\ d \notin loose /\ d # a
        /\ d \in all /\ a \in all \ {d} /\ (all \ {d}) \ {a} = loose
    BY <2>4, <2>6
  <2> HIDE DEF e, dk, ok, h1, h2, h3, d, all
  <2>8. /\ h2 \in Heaps /\ Parted(h2, all \ {d})
        /\ h2.reg = h1.reg /\ h2.refs = h1.refs
        /\ \A j \in Keys \ {dk} : h2.free[j] = h1.free[j]
    <3>1. h2 = HeapFree(h1, d, dk)
      BY DEF h2, d
    <3>2. GivenBack(h1, all, d, dk, h2)
      BY <2>5, <2>6, <2>7, <3>1, GiveBlock
    <3> QED BY <3>2 DEF GivenBack
  <2>9. /\ h3 \in Heaps /\ Parted(h3, (all \ {d}) \ {a})
        /\ h3.reg = h2.reg /\ h3.refs = h2.refs
        /\ h3.free[ok] = Append(h2.free[ok], a)
        /\ \A j \in Keys \ {ok} : h3.free[j] = h2.free[j]
    <3> DEFINE rest == all \ {d}
    <3>1. Parted(h2, rest) /\ a \in rest /\ h3 = HeapFree(h2, a, ok)
      BY <2>7, <2>8 DEF h3
    <3> HIDE DEF rest
    <3>2. /\ h3 \in Heaps /\ Parted(h3, rest \ {a})
          /\ h3.reg = h2.reg /\ h3.refs = h2.refs
          /\ h3.free[ok] = Append(h2.free[ok], a)
          /\ \A j \in Keys \ {ok} : h3.free[j] = h2.free[j]
      <4>1. h2 \in Heaps /\ ok \in Keys
        BY <2>5, <2>8
      <4>2. GivenBack(h2, rest, a, ok, h3)
        BY <3>1, <4>1, GiveBlock
      <4> QED BY <4>2 DEF GivenBack
    <3> QED BY <3>2 DEF rest
  <2>10. /\ Alive(h3) = Alive(h) \ {a} /\ \A x \in Alive(h3) : h3.reg[x] = h.reg[x]
         /\ h3.refs = h.refs /\ h2.free[SurfKey] = h.free[SurfKey]
    BY <2>5, <2>6, <2>8, <2>9, KeysAre DEF Alive
  <2>11. /\ h.free[SurfKey] \in Seq(Nat) /\ a \in Nat
    BY <1>2, <2>2, HeapFields, KeysAre
  <2>12. SurfStays(h, h3)
    <3> SUFFICES ASSUME NEW x, SurfAt(h, x) PROVE SurfAt(h3, x)
      BY DEF SurfStays
    <3> DEFINE f == h.free[SurfKey]
    <3>1. CASE ok = SurfKey
      <4>1. h3.free[SurfKey] = Append(f, a)
        BY <2>9, <2>10, <3>1
      <4>2. f \in Seq(Nat)
        BY <2>11
      <4> HIDE DEF f
      <4>3. /\ Len(Append(f, a)) = Len(f) + 1 /\ Append(f, a)[Len(f) + 1] = a /\ Len(f) \in Nat
            /\ \A i \in 1 .. Len(f) : Append(f, a)[i] = f[i]
        BY <2>11, <4>2
      <4>4. x = a => SurfAt(h3, x)
        BY <4>1, <4>3 DEF SurfAt
      <4>5. (\E i \in 1 .. Len(f) : f[i] = x) => SurfAt(h3, x)
        BY <4>1, <4>3 DEF SurfAt
      <4>6. (x \in Alive(h) /\ h.reg[x].kind = "surf" /\ x # a) => SurfAt(h3, x)
        BY <2>10 DEF SurfAt
      <4> QED BY <4>4, <4>5, <4>6 DEF SurfAt, f
    <3>2. CASE ok # SurfKey
      <4>1. h3.free[SurfKey] = f /\ e.kind # "surf"
        BY <2>5, <2>9, <2>10, <3>2, KeysAre
      <4>2. (x \in Alive(h) /\ h.reg[x].kind = "surf") => SurfAt(h3, x)
        BY <2>10, <4>1 DEF SurfAt, e
      <4>3. (\E i \in 1 .. Len(f) : f[i] = x) => SurfAt(h3, x)
        BY <4>1 DEF SurfAt
      <4> QED BY <4>2, <4>3 DEF SurfAt
    <3> QED BY <3>1, <3>2
  <2>13. MipsAre(h3)
    BY <2>2, <2>10, <2>12, MipsKept
  <2>14. Good(h3, loose)
    BY <2>7, <2>9, <2>13 DEF Good
  <2> QED BY <2>1, <2>10, <2>12, <2>14
<1> QED BY <1>1, <1>2

\* A reference less to a buffer or a surface.
LEMMA LeafReleased ==
    ASSUME NEW h, NEW loose, Good(h, loose), NEW a \in Nat, a \in Alive(h) => h.reg[a].kind # "tex"
    PROVE  LET q == DecLeaf(h, a)
           IN  /\ Good(q, loose) /\ SurfStays(h, q)
               /\ Alive(q) = (IF Count(h, a) > 1 THEN Alive(h) ELSE Alive(h) \ {a})
               /\ \A x \in Alive(q) : q.reg[x] = h.reg[x]
               /\ \A x : x # a => Count(q, x) = Count(h, x)
               /\ Count(h, a) > 1 => Count(q, a) = Count(h, a) - 1
<1>1. h \in Heaps /\ Count(h, a) \in Nat \ {0}
  BY CountIs DEF Good
<1>2. CASE Count(h, a) > 1
  <2> DEFINE n == Count(h, a) - 1
             q == WithCount(h, a, n)
  <2>1. n \in Nat \ {0} /\ DecLeaf(h, a) = q
    BY <1>1, <1>2 DEF DecLeaf
  <2>2. n = Count(h, a) - 1
    OBVIOUS
  <2> HIDE DEF n
  <2>3. /\ q \in Heaps /\ q.next = h.next /\ q.free = h.free /\ q.reg = h.reg
        /\ Count(q, a) = n /\ \A x : x # a => Count(q, x) = Count(h, x)
    BY <1>1, <2>1, CountSet
  <2> HIDE DEF q
  <2>4. Good(q, loose) /\ SurfStays(h, q) /\ Alive(q) = Alive(h)
    BY <2>3, GoodBy
  <2> QED BY <1>2, <2>1, <2>2, <2>3, <2>4
<1>3. CASE ~ (Count(h, a) > 1)
  <2> DEFINE h1 == [h EXCEPT !.refs = Dropped(@, a)]
             q == FreeLeaf(h1, a)
  <2>1. DecLeaf(h, a) = q
    BY <1>3 DEF DecLeaf
  <2>2. /\ h1 \in Heaps /\ h1.next = h.next /\ h1.free = h.free /\ h1.reg = h.reg
        /\ Count(h1, a) = 1 /\ \A x : x # a => Count(h1, x) = Count(h, x)
    BY <1>1, CountForgotten
  <2> HIDE DEF h1
  <2>3. Good(h1, loose) /\ SurfStays(h, h1) /\ Alive(h1) = Alive(h)
    BY <2>2, GoodBy
  <2>4. /\ Good(q, loose) /\ SurfStays(h1, q) /\ q.refs = h1.refs
        /\ Alive(q) = Alive(h1) \ {a} /\ \A x \in Alive(q) : q.reg[x] = h1.reg[x]
    BY <2>2, <2>3, LeafFreed
  <2> HIDE DEF q
  <2>5. \A x : x # a => Count(q, x) = Count(h, x)
    BY <2>2, <2>4 DEF Count
  <2>6. SurfStays(h, q)
    BY <2>3, <2>4 DEF SurfStays
  <2> QED BY <1>3, <2>1, <2>2, <2>3, <2>4, <2>5, <2>6
<1> QED BY <1>2, <1>3

\* A surface that is alive is not a texture.
LEMMA SurfIsLeaf ==
    ASSUME NEW h, NEW loose, Good(h, loose), NEW a, SurfAt(h, a)
    PROVE  a \in 1 .. Limit /\ (a \in Alive(h) => h.reg[a].kind = "surf")
<1>1. Parted(h, loose) /\ h.next \in Nat /\ Limit \in Nat
  BY HeapFields, D3DObjectsAssumption DEF Good
<1>2. CASE a \in Alive(h) /\ h.reg[a].kind = "surf"
  <2>1. a \in Nat /\ 0 < a /\ a < h.next /\ h.next <= Limit + 1
    BY <1>1, <1>2 DEF Parted
  <2> QED BY <1>1, <1>2, <2>1
<1>3. CASE OnList(h, a)
  <2>1. a \in Nat /\ 0 < a /\ a < h.next /\ h.next <= Limit + 1 /\ a \notin Alive(h)
    BY <1>1, <1>3 DEF Parted
  <2> QED BY <1>1, <2>1
<1>4. SurfAt(h, a) => (a \in Alive(h) /\ h.reg[a].kind = "surf") \/ OnList(h, a)
  BY KeysAre DEF SurfAt, OnList
<1> QED BY <1>2, <1>3, <1>4

-----------------------------------------------------------------------------
\* The initial intervals of the indices of a list.
LEMMA InitialIntervals ==
    ASSUME NEW N \in Nat, NEW i \in 1 .. N
    PROVE  /\ 1 .. i \in SUBSET (1 .. N) /\ 1 .. i # {} /\ Max(1 .. i) = i
           /\ (1 .. i) \ {i} = 1 .. i - 1 /\ i \in 0 .. N /\ i - 1 \in 0 .. N
<1>1. Max(1 .. i) = i
  <2>1. 1 .. i \in SUBSET Int /\ i \in 1 .. i /\ \A x \in 1 .. i : x <= i
    OBVIOUS
  <2> QED BY <2>1, LargestIsMax
<1> QED BY <1>1

\* A texture releases its levels one after the other, g is the heap in between.
Releases(g, h, mips) ==
    /\ g[0] = h
    /\ \A i \in 1 .. Len(mips) : g[i] = DecLeaf(g[i - 1], mips[i])
    /\ \A i \in 0 .. Len(mips) : /\ Good(g[i], {}) /\ SurfStays(h, g[i])

\* The release of the levels one after the other, by the heaps in between.
LEMMA ReleasesExist ==
    ASSUME NEW h, Good(h, {}), NEW mips \in Seq(Nat), \A i \in 1 .. Len(mips) : SurfAt(h, mips[i])
    PROVE  \E g : Releases(g, h, mips) /\ FoldLeft(DecLeaf, h, mips) = g[Len(mips)]
<1> DEFINE N == Len(mips)
           V == {v \in Heaps : Good(v, {}) /\ SurfStays(h, v)}
           G == [x \in V \X Nat |-> IF x[2] \in 1 .. N THEN DecLeaf(x[1], mips[x[2]]) ELSE x[1]]
           Folds(it) == it = [T \in SUBSET (1 .. N) |->
                                IF T = {} THEN h ELSE DecLeaf(it[T \ {Max(T)}], mips[Max(T)])]
           fold == CHOOSE it : Folds(it)
<1>1. N \in Nat /\ DOMAIN mips = 1 .. N /\ \A i \in 1 .. N : mips[i] \in Nat
  OBVIOUS
<1>2. ASSUME NEW v \in V, NEW i \in 1 .. N PROVE DecLeaf(v, mips[i]) \in V
  <2>1. Good(v, {}) /\ SurfStays(h, v) /\ mips[i] \in Nat /\ SurfAt(v, mips[i])
    BY <1>1 DEF SurfStays
  <2>2. mips[i] \in Alive(v) => v.reg[mips[i]].kind # "tex"
    BY <2>1, SurfIsLeaf
  <2>3. Good(DecLeaf(v, mips[i]), {}) /\ SurfStays(v, DecLeaf(v, mips[i]))
    BY <2>1, <2>2, LeafReleased
  <2> QED BY <2>1, <2>3 DEF SurfStays, Good
<1>3. h \in V
  BY DEF Good, SurfStays
<1> HIDE DEF V
<1>4. G \in [V \X Nat -> V]
  <2>1. ASSUME NEW x \in V \X Nat
        PROVE  (IF x[2] \in 1 .. N THEN DecLeaf(x[1], mips[x[2]]) ELSE x[1]) \in V
    BY <1>2
  <2> QED BY <2>1
<1>5. \A T \in SUBSET (1 .. N) : T # {} => Max(T) \in T /\ T \ {Max(T)} \in SUBSET (1 .. N)
  BY <1>1, LargestOf
<1>6. FoldLeft(DecLeaf, h, mips) = fold[1 .. N]
  BY <1>1 DEF FoldLeft, MapThenFoldSet
<1>7. \E it : Folds(it)
  <2>1. PICK it : FoldsBy(it, V, h, G, N)
    <3> HIDE DEF G, N
    <3> QED BY <1>1, <1>3, <1>4, FoldExists
  <2>2. it \in [SUBSET (1 .. N) -> V]
    BY <2>1 DEF FoldsBy
  <2>3. ASSUME NEW T \in SUBSET (1 .. N)
        PROVE  it[T] = IF T = {} THEN h ELSE DecLeaf(it[T \ {Max(T)}], mips[Max(T)])
    <3>1. CASE T # {}
      <4>1. Max(T) \in 1 .. N /\ it[T \ {Max(T)}] \in V
        BY <1>5, <2>2, <3>1
      <4> DEFINE x == <<it[T \ {Max(T)}], Max(T)>>
      <4>2. x \in V \X Nat /\ x[1] = it[T \ {Max(T)}] /\ x[2] = Max(T)
        BY <1>1, <4>1
      <4> HIDE DEF x
      <4>3. G[x] = DecLeaf(x[1], mips[x[2]])
        BY <4>1, <4>2
      <4>4. it[T] = G[x]
        BY <2>1, <3>1 DEF FoldsBy, x
      <4> HIDE DEF G
      <4> QED BY <3>1, <4>2, <4>3, <4>4
    <3>2. CASE T = {}
      BY <2>1, <3>2 DEF FoldsBy
    <3> QED BY <3>1, <3>2
  <2>4. it = [T \in SUBSET (1 .. N) |-> it[T]]
    BY <2>2
  <2>5. Folds(it)
    BY <2>3, <2>4, Zenon
  <2> QED BY <2>5
<1>8. Folds(fold)
  BY <1>7
<1> HIDE DEF fold
<1>9. \A T \in SUBSET (1 .. N) :
         fold[T] = IF T = {} THEN h ELSE DecLeaf(fold[T \ {Max(T)}], mips[Max(T)])
  BY <1>8, Zenon
<1> HIDE DEF Folds, G
<1> DEFINE g == [i \in 0 .. N |-> fold[1 .. i]]
<1>10. g[0] = h
  <2>1. 1 .. 0 = {} /\ 0 \in 0 .. N
    BY <1>1
  <2> QED BY <1>9, <2>1
<1>11. ASSUME NEW i \in 1 .. N PROVE g[i] = DecLeaf(g[i - 1], mips[i])
  <2>1. /\ 1 .. i \in SUBSET (1 .. N) /\ 1 .. i # {} /\ Max(1 .. i) = i
        /\ (1 .. i) \ {i} = 1 .. i - 1 /\ i \in 0 .. N /\ i - 1 \in 0 .. N
    <3> HIDE DEF N
    <3> QED BY <1>1, InitialIntervals
  <2>2. fold[1 .. i] = DecLeaf(fold[1 .. i - 1], mips[i])
    BY <1>9, <2>1
  <2> QED BY <2>1, <2>2
<1>12. g[N] = fold[1 .. N]
  BY <1>1
<1> HIDE DEF g, N
<1>13. \A i \in 0 .. N : g[i] \in V
  <2> DEFINE S == {n \in Nat : n <= N => g[n] \in V}
  <2>1. 0 \in S
    BY <1>3, <1>10
  <2>2. ASSUME NEW n \in S PROVE n + 1 \in S
    <3>1. CASE n + 1 <= N
      <4>1. n + 1 \in 1 .. N /\ (n + 1) - 1 = n /\ n <= N
        BY <1>1, <3>1
      <4>2. g[n + 1] = DecLeaf(g[n], mips[n + 1])
        BY <1>11, <4>1
      <4> QED BY <1>2, <4>1, <4>2
    <3> QED BY <3>1
  <2>3. S = Nat
    <3>1. S \in SUBSET Nat
      OBVIOUS
    <3> HIDE DEF S
    <3> QED BY <2>1, <2>2, <3>1, Induction
  <2> QED BY <1>1, <2>3
<1>14. Releases(g, h, mips)
  BY <1>10, <1>11, <1>13 DEF Releases, N, V
<1> QED BY <1>6, <1>12, <1>14 DEF N

\* A texture that is freed, before its levels are released.
TexFreed(h, a) == HeapFree([h EXCEPT !.reg = Dropped(@, a)], a, <<"tex_obj", h.reg[a].size>>)

\* The block of a texture goes back first; only then are its levels released.
LEMMA TextureFreed ==
    ASSUME NEW h, Good(h, {}), NEW a \in Alive(h), h.reg[a].kind = "tex"
    PROVE  LET q == TexFreed(h, a)
           IN  /\ Good(q, {}) /\ SurfStays(h, q) /\ q.refs = h.refs
               /\ Alive(q) = Alive(h) \ {a} /\ \A x \in Alive(q) : q.reg[x] = h.reg[x]
               /\ FreeObject(h, a) = FoldLeft(DecLeaf, q, h.reg[a].mips)
               /\ h.reg[a].mips \in Seq(Nat)
               /\ \A i \in 1 .. Len(h.reg[a].mips) : SurfAt(q, h.reg[a].mips[i])
<1> DEFINE e == h.reg[a]
           k == <<"tex_obj", e.size>>
           h1 == [h EXCEPT !.reg = Dropped(@, a)]
           q == HeapFree(h1, a, k)
<1>1. h \in Heaps /\ Parted(h, {}) /\ MipsAre(h)
  BY DEF Good
<1>2. e \in Entries
  BY <1>1, HeapFields
<1>3. e.size \in Sizes \cup Levels /\ e.mips \in Seq(Nat)
  BY <1>2 DEF Entries
<1>4. k \in Keys \ {SurfKey}
  <2> HIDE DEF e
  <2> QED BY <1>3, KeysAre
<1>5. /\ h1 \in Heaps
      /\ e.kind = "tex" => Parted(h1, {} \cup {a})
      /\ h1.free = h.free /\ h1.refs = h.refs
      /\ Alive(h1) = Alive(h) \ {a}
      /\ \A x \in Alive(h1) : h1.reg[x] = h.reg[x]
  <2> HIDE DEF h1, e
  <2>1. h1 = [h EXCEPT !.reg = Dropped(@, a)] /\ e = h.reg[a]
    BY DEF h1, e
  <2>2. Removed(h, {}, a, e, h1)
    BY <1>1, <2>1, PartedDrop
  <2> QED BY <2>2 DEF Removed
<1>6. Parted(h1, {a})
  BY <1>5
<1> HIDE DEF k, h1, q
<1>7. /\ q \in Heaps /\ Parted(q, {a} \ {a})
      /\ q.reg = h1.reg /\ q.refs = h1.refs
      /\ \A j \in Keys \ {k} : q.free[j] = h1.free[j]
  <2>1. q = HeapFree(h1, a, k) /\ a \in {a}
    BY DEF q
  <2>2. h1 \in Heaps /\ k \in Keys
    BY <1>4, <1>5
  <2>3. GivenBack(h1, {a}, a, k, q)
    BY <1>6, <2>1, <2>2, GiveBlock
  <2> QED BY <2>3 DEF GivenBack
<1>8. /\ Alive(q) = Alive(h) \ {a} /\ (\A x \in Alive(q) : q.reg[x] = h.reg[x])
      /\ q.refs = h.refs /\ q.free[SurfKey] = h.free[SurfKey]
  BY <1>4, <1>5, <1>7, KeysAre DEF Alive
<1>9. SurfStays(h, q)
  BY <1>8 DEF SurfStays, SurfAt
<1>10. MipsAre(q)
  BY <1>1, <1>8, <1>9, MipsKept
<1>11. Good(q, {})
  <2>1. {a} \ {a} = {}
    OBVIOUS
  <2> QED BY <1>7, <1>10, <2>1 DEF Good
<1>12. \A i \in 1 .. Len(e.mips) : SurfAt(q, e.mips[i])
  BY <1>1, <1>9 DEF MipsAre, SurfStays
<1>13. TexFreed(h, a) = q
  BY DEF TexFreed, q, h1, k
<1>14. FreeObject(h, a) = FoldLeft(DecLeaf, q, e.mips)
  BY DEF FreeObject, q, h1, k
<1> HIDE DEF e
<1> QED BY <1>3, <1>8, <1>9, <1>11, <1>12, <1>13, <1>14 DEF e

\* Whatever is freed, the heap stays good.
LEMMA ObjectFreed ==
    ASSUME NEW h, Good(h, {}), NEW a
    PROVE  Good(FreeObject(h, a), {})
<1>1. CASE a \in Alive(h) /\ h.reg[a].kind = "tex"
  <2> DEFINE q == TexFreed(h, a)
             mips == h.reg[a].mips
  <2>1. /\ Good(q, {}) /\ FreeObject(h, a) = FoldLeft(DecLeaf, q, mips)
        /\ mips \in Seq(Nat) /\ \A i \in 1 .. Len(mips) : SurfAt(q, mips[i])
    BY <1>1, TextureFreed
  <2> HIDE DEF q, mips
  <2>2. PICK g : Releases(g, q, mips) /\ FoldLeft(DecLeaf, q, mips) = g[Len(mips)]
    BY <2>1, ReleasesExist
  <2>3. Len(mips) \in 0 .. Len(mips)
    BY <2>1
  <2> QED BY <2>1, <2>2, <2>3 DEF Releases
<1>2. CASE ~ (a \in Alive(h) /\ h.reg[a].kind = "tex")
  <2>1. FreeObject(h, a) = FreeLeaf(h, a)
    BY <1>2 DEF FreeObject
  <2> QED BY <1>2, <2>1, LeafFreed
<1> QED BY <1>1, <1>2

\* Whatever is released, the heap stays good.
LEMMA Released ==
    ASSUME NEW h, Good(h, {}), NEW a \in Nat
    PROVE  Good(DecRef(h, a), {})
<1>1. h \in Heaps /\ Count(h, a) \in Nat \ {0}
  BY CountIs DEF Good
<1>2. CASE Count(h, a) > 1
  <2> DEFINE n == Count(h, a) - 1
             q == WithCount(h, a, n)
  <2>1. n \in Nat \ {0} /\ DecRef(h, a) = q
    BY <1>1, <1>2 DEF DecRef
  <2> HIDE DEF n
  <2>2. q \in Heaps /\ q.next = h.next /\ q.free = h.free /\ q.reg = h.reg
    BY <1>1, <2>1, CountSet
  <2> QED BY <2>1, <2>2, GoodBy
<1>3. CASE ~ (Count(h, a) > 1)
  <2> DEFINE h1 == [h EXCEPT !.refs = Dropped(@, a)]
  <2>1. DecRef(h, a) = FreeObject(h1, a)
    BY <1>3 DEF DecRef
  <2>2. h1 \in Heaps /\ h1.next = h.next /\ h1.free = h.free /\ h1.reg = h.reg
    BY <1>1, CountForgotten
  <2> HIDE DEF h1
  <2>3. Good(h1, {})
    BY <2>2, GoodBy
  <2> QED BY <2>1, <2>3, ObjectFreed
<1> QED BY <1>2, <1>3

\* One reference more.
LEMMA Referenced ==
    ASSUME NEW h, NEW loose, Good(h, loose), NEW a \in Nat
    PROVE  /\ Good(AddRef(h, a), loose) /\ Alive(AddRef(h, a)) = Alive(h) /\ AddRef(h, a).reg = h.reg
           /\ Count(AddRef(h, a), a) = Count(h, a) + 1
           /\ \A x : x # a => Count(AddRef(h, a), x) = Count(h, x)
<1> DEFINE n == Count(h, a) + 1
           q == WithCount(h, a, n)
<1>1. h \in Heaps /\ n \in Nat \ {0} /\ AddRef(h, a) = q /\ n = Count(h, a) + 1
  BY CountIs DEF Good, AddRef
<1> HIDE DEF n
<1>2. /\ q \in Heaps /\ q.next = h.next /\ q.free = h.free /\ q.reg = h.reg
      /\ Count(q, a) = n /\ \A x : x # a => Count(q, x) = Count(h, x)
  BY <1>1, CountSet
<1> HIDE DEF q
<1> QED BY <1>1, <1>2, GoodBy

-----------------------------------------------------------------------------
\* Objects more: of those that are new only o has levels, which are new too.
Grown(h, q, o) ==
    /\ Alive(h) \subseteq Alive(q) /\ \A x \in Alive(h) : q.reg[x] = h.reg[x]
    /\ \A x \in Alive(q) \ Alive(h) : x # o => q.reg[x].mips = << >>
    /\ o \in Alive(q) => /\ o \notin Alive(h)
                         /\ \A i \in 1 .. Len(q.reg[o].mips) : q.reg[o].mips[i] \in (Alive(q) \ Alive(h)) \ {o}

\* While the levels of a texture are made, its own block o is loose.
MipRounds(h, o) ==
    {r \in Rounds :
        /\ Good(r.h, {o}) /\ SurfStays(h, r.h) /\ r.h.refs = h.refs
        /\ Alive(h) \subseteq Alive(r.h) /\ \A x \in Alive(h) : r.h.reg[x] = h.reg[x]
        /\ \A x \in Alive(r.h) \ Alive(h) : r.h.reg[x].mips = << >>
        /\ \A i \in 1 .. Len(r.made) : r.made[i] \in Alive(r.h) \ Alive(h) /\ r.h.reg[r.made[i]].kind = "surf"
        /\ \A i, j \in 1 .. Len(r.made) : r.made[i] = r.made[j] => i = j}

\* One level more.
LEMMA MipMade ==
    ASSUME NEW h, NEW o, NEW r \in MipRounds(h, o), NEW size \in Sizes
    PROVE  AllocObject(r, "surf", size) \in MipRounds(h, o)
<1> DEFINE q == AllocObject(r, "surf", size)
<1>1. /\ r \in Rounds /\ Good(r.h, {o}) /\ SurfStays(h, r.h) /\ r.h.refs = h.refs
      /\ Alive(h) \subseteq Alive(r.h) /\ \A x \in Alive(h) : r.h.reg[x] = h.reg[x]
      /\ \A x \in Alive(r.h) \ Alive(h) : r.h.reg[x].mips = << >>
      /\ \A i \in 1 .. Len(r.made) : r.made[i] \in Alive(r.h) \ Alive(h) /\ r.h.reg[r.made[i]].kind = "surf"
      /\ \A i, j \in 1 .. Len(r.made) : r.made[i] = r.made[j] => i = j
  BY DEF MipRounds
<1>2. /\ q \in Rounds /\ Good(q.h, {o}) /\ SurfStays(r.h, q.h) /\ q.h.refs = r.h.refs
      /\ ~ q.ok => q.h.reg = r.h.reg /\ q.made = r.made
      /\ q.ok => \E a \in Nat : /\ Made(r.h, q.h, a, "surf") /\ a \notin {o}
                                /\ q.made = Append(r.made, a)
  BY <1>1, LeafMade DEF LeafMaking
<1> HIDE DEF q
<1>3. SurfStays(h, q.h) /\ q.h.refs = h.refs
  BY <1>1, <1>2 DEF SurfStays
<1>4. CASE ~ q.ok
  <2>1. q.h.reg = r.h.reg /\ q.made = r.made /\ Alive(q.h) = Alive(r.h)
    BY <1>2, <1>4 DEF Alive
  <2> QED BY <1>1, <1>2, <1>3, <2>1 DEF MipRounds, q
<1>5. CASE q.ok
  <2>1. PICK a \in Nat : Made(r.h, q.h, a, "surf") /\ q.made = Append(r.made, a)
    BY <1>2, <1>5
  <2> DEFINE s == r.made
             t == q.made
             n == Len(s)
  <2>2. s \in Seq(Nat)
    BY <1>1 DEF Rounds
  <2>3. /\ n \in Nat /\ Len(t) = n + 1 /\ t[n + 1] = a
        /\ \A i \in 1 .. n : t[i] = s[i]
    <3>1. t = Append(s, a)
      BY <2>1
    <3> HIDE DEF s, t
    <3> QED BY <2>2, <3>1
  <2>4. \A i \in 1 .. n : s[i] \in Alive(r.h) \ Alive(h) /\ r.h.reg[s[i]].kind = "surf"
    BY <1>1
  <2>5. \A i, j \in 1 .. n : s[i] = s[j] => i = j
    BY <1>1
  <2> HIDE DEF s, t, n
  <2>6. \A i \in 1 .. n + 1 : i \in 1 .. n \/ i = n + 1
    BY <2>3
  <2>7. /\ a \notin Alive(r.h) /\ Alive(q.h) = Alive(r.h) \cup {a}
        /\ q.h.reg[a].kind = "surf" /\ q.h.reg[a].mips = << >>
        /\ \A x \in Alive(r.h) : q.h.reg[x] = r.h.reg[x]
    BY <2>1 DEF Made
  <2>8. \A i \in 1 .. n + 1 : t[i] \in Alive(q.h) \ Alive(h) /\ q.h.reg[t[i]].kind = "surf"
    BY <1>1, <2>3, <2>4, <2>6, <2>7
  <2>9. ASSUME NEW i \in 1 .. n + 1, NEW j \in 1 .. n + 1, t[i] = t[j] PROVE i = j
    <3>1. CASE i \in 1 .. n /\ j \in 1 .. n
      BY <2>3, <2>5, <2>9, <3>1
    <3>2. CASE i = n + 1 /\ j = n + 1
      BY <3>2
    <3>3. CASE i \in 1 .. n /\ j = n + 1
      BY <2>3, <2>4, <2>7, <2>9, <3>3
    <3>4. CASE i = n + 1 /\ j \in 1 .. n
      BY <2>3, <2>4, <2>7, <2>9, <3>4
    <3> QED BY <2>6, <3>1, <3>2, <3>3, <3>4
  <2>10. /\ Alive(h) \subseteq Alive(q.h) /\ \A x \in Alive(h) : q.h.reg[x] = h.reg[x]
         /\ \A x \in Alive(q.h) \ Alive(h) : q.h.reg[x].mips = << >>
    BY <1>1, <2>7
  <2>11. q \in MipRounds(h, o)
    BY <1>2, <1>3, <2>3, <2>8, <2>9, <2>10 DEF MipRounds, t
  <2> QED BY <2>11 DEF q
<1> QED BY <1>4, <1>5

\* All levels.
LEMMA MipsMade ==
    ASSUME NEW h, NEW o, NEW b \in MipRounds(h, o), NEW size \in Sizes, NEW N \in Nat
    PROVE  FoldLeft(LAMBDA r, i : AllocObject(r, "surf", size), b, [i \in 1 .. N |-> i]) \in MipRounds(h, o)
<1> DEFINE V == MipRounds(h, o)
           G == [x \in V \X Nat |-> AllocObject(x[1], "surf", size)]
           Folds(it) == it = [T \in SUBSET (1 .. N) |->
                                IF T = {} THEN b ELSE AllocObject(it[T \ {Max(T)}], "surf", size)]
           fold == CHOOSE it : Folds(it)
           s == [i \in 1 .. N |-> i]
<1>1. DOMAIN s = 1 .. N
  OBVIOUS
<1>2. \A v \in V : AllocObject(v, "surf", size) \in V
  BY MipMade
<1>3. b \in V
  OBVIOUS
<1>4. FoldLeft(LAMBDA r, i : AllocObject(r, "surf", size), b, s) = fold[1 .. N]
  <2> HIDE DEF s
  <2> QED BY <1>1 DEF FoldLeft, MapThenFoldSet
<1> HIDE DEF V
<1>5. G \in [V \X Nat -> V]
  <2>1. ASSUME NEW x \in V \X Nat PROVE AllocObject(x[1], "surf", size) \in V
    BY <1>2
  <2> QED BY <2>1
<1>6. \A T \in SUBSET (1 .. N) : T # {} => Max(T) \in T /\ T \ {Max(T)} \in SUBSET (1 .. N)
  BY LargestOf
<1>7. \E it : Folds(it)
  <2>1. PICK it : FoldsBy(it, V, b, G, N)
    <3> HIDE DEF G
    <3> QED BY <1>3, <1>5, FoldExists
  <2>2. it \in [SUBSET (1 .. N) -> V]
    BY <2>1 DEF FoldsBy
  <2>3. ASSUME NEW T \in SUBSET (1 .. N)
        PROVE  it[T] = IF T = {} THEN b ELSE AllocObject(it[T \ {Max(T)}], "surf", size)
    <3>1. CASE T # {}
      <4>1. Max(T) \in 1 .. N /\ it[T \ {Max(T)}] \in V
        BY <1>6, <2>2, <3>1
      <4> DEFINE x == <<it[T \ {Max(T)}], Max(T)>>
      <4>2. x \in V \X Nat /\ x[1] = it[T \ {Max(T)}]
        BY <4>1
      <4> HIDE DEF x
      <4>3. G[x] = AllocObject(x[1], "surf", size)
        BY <4>2
      <4>4. it[T] = G[x]
        BY <2>1, <3>1 DEF FoldsBy, x
      <4> HIDE DEF G
      <4> QED BY <3>1, <4>2, <4>3, <4>4
    <3>2. CASE T = {}
      BY <2>1, <3>2 DEF FoldsBy
    <3> QED BY <3>1, <3>2
  <2>4. it = [T \in SUBSET (1 .. N) |-> it[T]]
    BY <2>2
  <2>5. Folds(it)
    BY <2>3, <2>4, Zenon
  <2> QED BY <2>5
<1>8. Folds(fold)
  BY <1>7
<1> HIDE DEF fold
<1>9. \A T \in SUBSET (1 .. N) :
         fold[T] = IF T = {} THEN b ELSE AllocObject(fold[T \ {Max(T)}], "surf", size)
  BY <1>8, Zenon
<1> HIDE DEF Folds, G, s
<1>10. fold[1 .. 0] = b
  <2>1. 1 .. 0 = {}
    OBVIOUS
  <2> QED BY <1>9, <2>1
<1>11. ASSUME NEW i \in 1 .. N PROVE fold[1 .. i] = AllocObject(fold[1 .. i - 1], "surf", size)
  <2>1. 1 .. i \in SUBSET (1 .. N) /\ 1 .. i # {} /\ Max(1 .. i) = i /\ (1 .. i) \ {i} = 1 .. i - 1
    BY InitialIntervals
  <2>2. fold[1 .. i] = AllocObject(fold[(1 .. i) \ {Max(1 .. i)}], "surf", size)
    BY <1>9, <2>1
  <2> QED BY <2>1, <2>2
<1> DEFINE S == {n \in Nat : n <= N => fold[1 .. n] \in V}
<1>12. 0 \in S
  BY <1>3, <1>10
<1>13. ASSUME NEW n \in S PROVE n + 1 \in S
  <2>1. CASE n + 1 <= N
    <3>1. n + 1 \in 1 .. N /\ (n + 1) - 1 = n /\ n <= N
      BY <2>1
    <3>2. fold[1 .. n + 1] = AllocObject(fold[1 .. n], "surf", size)
      BY <1>11, <3>1
    <3> QED BY <1>2, <3>1, <3>2
  <2> QED BY <2>1
<1>14. S = Nat
  <2>1. S \in SUBSET Nat
    OBVIOUS
  <2> HIDE DEF S
  <2> QED BY <1>12, <1>13, <2>1, Induction
<1>15. fold[1 .. N] \in V
  BY <1>14
<1> QED BY <1>4, <1>15 DEF V, s

\* A texture is made with its levels, or the heap is exhausted.
LEMMA TextureMade ==
    ASSUME NEW h, Good(h, {}), NEW size \in Sizes, NEW n \in Levels
    PROVE  LET q == AllocTexture(h, size, n)
           IN  /\ q.ok \in BOOLEAN /\ Good(q.h, {}) /\ q.h.refs = h.refs
               /\ ~ q.ok => Grown(h, q.h, 0)
               /\ q.ok => \E o \in 1 .. Limit :
                             Grown(h, q.h, o) /\ o \in Alive(q.h) /\ q.made = <<o>>
<1> DEFINE key == <<"tex_obj", n>>
           o == AllocAddr(h, key)
           h1 == HeapAlloc(h, key)
           m == FoldLeft(LAMBDA r, i : AllocObject(r, "surf", size), Start(h1), [i \in 1 .. n |-> i])
           e == [kind |-> "tex", data |-> 0, size |-> n, mips |-> m.made]
           h2 == Registered(m.h, o, e)
           q == AllocTexture(h, size, n)
<1>1. q = IF ~ Room(h, key) THEN [Start(h) EXCEPT !.ok = FALSE]
          ELSE IF ~ m.ok THEN m
          ELSE [m EXCEPT !.made = <<o>>, !.h = h2]
  BY DEF AllocTexture
<1>2. n \in Nat /\ n \in Sizes \cup Levels /\ key \in Keys \ {SurfKey} /\ SurfKey \in Keys
  BY KeysAre, D3DObjectsAssumption
<1>3. h \in Heaps /\ Parted(h, {}) /\ MipsAre(h)
  BY DEF Good
<1> HIDE DEF q, key, o, h1, m, e, h2
<1>4. CASE ~ Room(h, key)
  <2>1. q = [h |-> h, ok |-> FALSE, made |-> << >>]
    BY <1>1, <1>4 DEF Start
  <2>2. Grown(h, h, 0)
    <3>1. 0 \notin Alive(h)
      BY <1>3 DEF Parted
    <3> QED BY <3>1 DEF Grown
  <2> QED BY <2>1, <2>2 DEF q
<1>5. CASE Room(h, key)
  <2>1. /\ h1 \in Heaps /\ Parted(h1, {} \cup {o})
        /\ o \in 1 .. Limit /\ o \notin Alive(h)
        /\ h1.reg = h.reg /\ h1.refs = h.refs
        /\ \A j \in Keys \ {key} : h1.free[j] = h.free[j]
    <3>1. key \in Keys /\ h1 = HeapAlloc(h, key) /\ o = AllocAddr(h, key)
      BY <1>2 DEF h1, o
    <3>2. BlockTaken(h, {}, key, h1, o)
      BY <1>3, <1>5, <3>1, TakeBlock
    <3> QED BY <3>2 DEF BlockTaken
  <2>2. {} \cup {o} = {o}
    OBVIOUS
  <2>3. h1.free[SurfKey] = h.free[SurfKey] /\ Alive(h1) = Alive(h)
    BY <1>2, <2>1 DEF Alive
  <2>4. SurfStays(h, h1)
    BY <2>1, <2>3 DEF SurfStays, SurfAt
  <2>5. Good(h1, {o})
    BY <1>3, <2>1, <2>2, <2>3, <2>4, MipsKept DEF Good
  <2>6. Start(h1) \in MipRounds(h, o)
    <3>1. Start(h1).h = h1 /\ Start(h1).made = << >> /\ Start(h1) \in Rounds
      BY <2>1 DEF Start, Rounds
    <3> QED BY <2>1, <2>3, <2>4, <2>5, <3>1 DEF MipRounds
  <2>7. m \in MipRounds(h, o)
    BY <1>2, <2>6, MipsMade DEF m
  <2>8. /\ m \in Rounds /\ Good(m.h, {o}) /\ SurfStays(h, m.h) /\ m.h.refs = h.refs
        /\ Alive(h) \subseteq Alive(m.h) /\ \A x \in Alive(h) : m.h.reg[x] = h.reg[x]
        /\ \A x \in Alive(m.h) \ Alive(h) : m.h.reg[x].mips = << >>
        /\ \A i \in 1 .. Len(m.made) : m.made[i] \in Alive(m.h) \ Alive(h) /\ m.h.reg[m.made[i]].kind = "surf"
        /\ \A i, j \in 1 .. Len(m.made) : m.made[i] = m.made[j] => i = j
    BY <2>7 DEF MipRounds
  <2>9. /\ m.h \in Heaps /\ Parted(m.h, {o}) /\ MipsAre(m.h) /\ m.made \in Seq(Nat) /\ m.ok \in BOOLEAN
        /\ m = [h |-> m.h, ok |-> m.ok, made |-> m.made]
    BY <2>8 DEF Good, Rounds
  <2>10. o \notin Alive(m.h)
    BY <2>9 DEF Parted
  <2>11. CASE ~ m.ok
    <3>1. q = m
      BY <1>1, <1>5, <2>11
    <3>2. Good(m.h, {})
      BY <2>8, PartedLess DEF Good
    <3>3. Grown(h, m.h, 0)
      <4>1. 0 \notin Alive(m.h)
        BY <2>9 DEF Parted
      <4> QED BY <2>8, <4>1 DEF Grown
    <3> QED BY <2>8, <2>9, <2>11, <3>1, <3>2, <3>3 DEF q
  <2>12. CASE m.ok
    <3>1. q = [h |-> h2, ok |-> TRUE, made |-> <<o>>]
      <4>1. q = [m EXCEPT !.made = <<o>>, !.h = h2]
        BY <1>1, <1>5, <2>12
      <4> QED BY <2>9, <2>12, <4>1
    <3>2. e \in Entries /\ e.kind = "tex" /\ e.data = 0 /\ e.mips = m.made
      BY <1>2, <2>9 DEF e, Entries
    <3>3. /\ h2 \in Heaps /\ Parted(h2, {o} \ {o, e.data})
          /\ h2.free = m.h.free /\ h2.refs = m.h.refs
          /\ Alive(h2) = Alive(m.h) \cup {o} /\ h2.reg[o] = e
          /\ \A x \in Alive(m.h) : h2.reg[x] = m.h.reg[x]
      <4>1. o \in {o}
        OBVIOUS
      <4>2. h2 = Registered(m.h, o, e)
        BY DEF h2
      <4>3. Entered(m.h, {o}, o, e, h2)
        BY <2>9, <3>2, <4>1, <4>2, PartedRegister
      <4> QED BY <4>3 DEF Entered
    <3>4. {o} \ {o, e.data} = {}
      OBVIOUS
    <3>5. SurfStays(m.h, h2)
      BY <3>3 DEF SurfStays, SurfAt
    <3>6. MipsAre(h2)
      <4> SUFFICES ASSUME NEW x \in Alive(h2)
                   PROVE  /\ h2.reg[x].kind # "tex" => h2.reg[x].mips = << >>
                          /\ h2.reg[x].kind = "tex" =>
                                /\ \A i \in 1 .. Len(h2.reg[x].mips) : SurfAt(h2, h2.reg[x].mips[i])
                                /\ \A i, j \in 1 .. Len(h2.reg[x].mips) :
                                      h2.reg[x].mips[i] = h2.reg[x].mips[j] => i = j
        BY DEF MipsAre
      <4>1. CASE x = o
        <5>1. \A i \in 1 .. Len(m.made) : SurfAt(h2, m.made[i])
          BY <2>8, <3>3 DEF SurfAt
        <5> QED BY <2>8, <3>2, <3>3, <4>1, <5>1
      <4>2. CASE x # o
        <5>1. x \in Alive(m.h) /\ h2.reg[x] = m.h.reg[x]
          BY <3>3, <4>2
        <5> QED BY <2>9, <3>5, <5>1 DEF MipsAre, SurfStays
      <4> QED BY <4>1, <4>2
    <3>7. Good(h2, {})
      BY <3>3, <3>4, <3>6 DEF Good
    <3>8. Grown(h, h2, o)
      BY <2>1, <2>8, <2>10, <3>2, <3>3 DEF Grown
    <3> QED BY <2>1, <2>8, <3>1, <3>3, <3>7, <3>8 DEF q
  <2> QED BY <2>9, <2>11, <2>12
<1> QED BY <1>4, <1>5

-----------------------------------------------------------------------------
(***************************************************************************)
(* Who uses an object: U counts the uses the guest and the stages make of  *)
(* each address, and the textures that have it as a level come on top.     *)
(***************************************************************************)

Uses == [Addr -> Nat]
More(U, a) == [U EXCEPT ![a] = @ + 1]
Fewer(U, a) == [U EXCEPT ![a] = @ - 1]

TexOf(h, a) == {x \in Alive(h) : \E i \in DOMAIN h.reg[x].mips : h.reg[x].mips[i] = a}
Needed(h, U, a) == U[a] + Cardinality(TexOf(h, a))

\* What is used is alive, and its count covers the uses.
CountedAt(h, U, a) == Needed(h, U, a) > 0 => a \in Alive(h) /\ Count(h, a) >= Needed(h, U, a)
Counted(h, U) == \A a \in Addr : CountedAt(h, U, a)

\* The levels of an object are numbered from 1 and have addresses of the heap.
LEMMA MipsIndexed ==
    ASSUME NEW h, NEW loose, Good(h, loose), NEW x \in Alive(h)
    PROVE  /\ h.reg[x].mips \in Seq(Nat) /\ DOMAIN h.reg[x].mips = 1 .. Len(h.reg[x].mips)
           /\ \A i \in 1 .. Len(h.reg[x].mips) : h.reg[x].mips[i] \in Addr
<1>1. h \in Heaps /\ MipsAre(h)
  BY DEF Good
<1>2. h.reg[x] \in Entries
  BY <1>1, HeapFields
<1> DEFINE s == h.reg[x].mips
<1>3. s \in Seq(Nat)
  BY <1>2 DEF Entries
<1>4. \A i \in 1 .. Len(s) : SurfAt(h, s[i])
  <2>1. CASE h.reg[x].kind = "tex"
    BY <1>1, <2>1 DEF MipsAre
  <2>2. CASE h.reg[x].kind # "tex"
    <3>1. s = << >>
      BY <1>1, <2>2 DEF MipsAre
    <3> HIDE DEF s
    <3> QED BY <3>1
  <2> QED BY <2>1, <2>2
<1> HIDE DEF s
<1>5. \A i \in 1 .. Len(s) : s[i] \in Addr
  BY <1>4, SurfIsLeaf DEF Addr
<1>6. DOMAIN s = 1 .. Len(s)
  BY <1>3
<1> QED BY <1>3, <1>5, <1>6 DEF s

\* Objects are finitely many.
LEMMA TexOfIs ==
    ASSUME NEW h, NEW loose, Good(h, loose), NEW a
    PROVE  /\ IsFiniteSet(TexOf(h, a)) /\ Cardinality(TexOf(h, a)) \in Nat
           /\ Cardinality(TexOf(h, a)) = 0 <=> TexOf(h, a) = {}
<1>1. h \in Heaps /\ Parted(h, loose) /\ h.next \in Nat /\ Limit \in Nat
  BY HeapFields, D3DObjectsAssumption DEF Good
<1>2. TexOf(h, a) \subseteq 1 .. Limit
  <2>1. h.next <= Limit + 1 /\ \A x \in Alive(h) : x \in Nat /\ 0 < x /\ x < h.next
    BY <1>1 DEF Parted
  <2> QED BY <1>1, <2>1 DEF TexOf
<1>3. IsFiniteSet(1 .. Limit)
  <2>1. 1 \in Int /\ Limit \in Int
    BY <1>1
  <2> QED BY <2>1, FS_Interval, Zenon
<1>4. IsFiniteSet(TexOf(h, a))
  BY <1>2, <1>3, FS_Subset, Zenon
<1> QED BY <1>4, FS_CardinalityType, FS_EmptySet

\* Fewer objects, fewer textures a surface is a level of.
LEMMA TexOfFewer ==
    ASSUME NEW h, NEW q, Alive(q) \subseteq Alive(h), \A x \in Alive(q) : q.reg[x] = h.reg[x]
    PROVE  \A a : TexOf(q, a) \subseteq TexOf(h, a)
BY DEF TexOf

\* An address whose uses do not grow, that stays alive and keeps its count.
LEMMA CountedStays ==
    ASSUME NEW h, Good(h, {}), NEW q, Good(q, {}), NEW U \in Uses, NEW V \in Uses, NEW a \in Addr,
           CountedAt(h, U, a), TexOf(q, a) \subseteq TexOf(h, a), V[a] <= U[a],
           a \in Alive(h) => a \in Alive(q), Count(q, a) >= Count(h, a)
    PROVE  CountedAt(q, V, a)
<1> DEFINE m == Cardinality(TexOf(h, a))
           n == Cardinality(TexOf(q, a))
<1>1. m \in Nat /\ n \in Nat /\ IsFiniteSet(TexOf(h, a))
  BY TexOfIs
<1>2. n <= m
  BY <1>1, FS_Subset
<1>3. U[a] \in Nat /\ V[a] \in Nat
  BY DEF Uses
<1>4. Count(h, a) \in Nat /\ Count(q, a) \in Nat
  BY CountIs DEF Good
<1>5. Needed(h, U, a) = U[a] + m /\ Needed(q, V, a) = V[a] + n
  BY DEF Needed
<1> HIDE DEF m, n
<1> QED BY <1>1, <1>2, <1>3, <1>4, <1>5 DEF CountedAt

\* An address nothing uses needs no count.
LEMMA UnusedIs ==
    ASSUME NEW h, Good(h, {}), NEW U \in Uses, NEW a \in Addr
    PROVE  /\ Needed(h, U, a) \in Nat
           /\ Needed(h, U, a) = 0 <=> U[a] = 0 /\ TexOf(h, a) = {}
           /\ Needed(h, U, a) = 0 => CountedAt(h, U, a)
<1>1. /\ Cardinality(TexOf(h, a)) \in Nat /\ U[a] \in Nat
      /\ Cardinality(TexOf(h, a)) = 0 <=> TexOf(h, a) = {}
  BY TexOfIs DEF Uses
<1>2. Needed(h, U, a) \in Nat /\ (Needed(h, U, a) = 0 <=> U[a] = 0 /\ TexOf(h, a) = {})
  BY <1>1 DEF Needed
<1> QED BY <1>2 DEF CountedAt

\* One use more or less.
LEMMA UsesChange ==
    ASSUME NEW U \in Uses, NEW a \in Addr
    PROVE  /\ More(U, a) \in Uses /\ More(U, a)[a] = U[a] + 1
           /\ \A x \in Addr \ {a} : More(U, a)[x] = U[x] /\ Fewer(U, a)[x] = U[x]
           /\ U[a] >= 1 => Fewer(U, a) \in Uses
           /\ Fewer(U, a)[a] = U[a] - 1 /\ U[a] \in Nat
BY DEF Uses, More, Fewer

\* A reference more covers a use more.
LEMMA CountedReferenced ==
    ASSUME NEW h, Good(h, {}), NEW U \in Uses, Counted(h, U), NEW a \in Addr, a \in Alive(h)
    PROVE  Counted(AddRef(h, a), More(U, a))
<1> DEFINE q == AddRef(h, a)
           V == More(U, a)
<1>1. a \in Nat
  BY DEF Addr
<1>2. /\ Good(q, {}) /\ Alive(q) = Alive(h) /\ q.reg = h.reg
      /\ Count(q, a) = Count(h, a) + 1
      /\ \A x : x # a => Count(q, x) = Count(h, x)
  BY <1>1, Referenced
<1>3. V \in Uses /\ V[a] = U[a] + 1 /\ \A x \in Addr \ {a} : V[x] = U[x]
  BY UsesChange
<1> HIDE DEF q, V
<1>4. \A x : TexOf(q, x) = TexOf(h, x)
  BY <1>2 DEF TexOf
<1> SUFFICES ASSUME NEW x \in Addr PROVE CountedAt(q, V, x)
  BY DEF Counted, q, V
<1>5. CASE x # a
  <2>1. V[x] <= U[x] /\ Count(q, x) >= Count(h, x)
    <3>1. U[x] \in Nat /\ Count(h, x) \in Nat
      BY CountIs DEF Uses, Good
    <3> QED BY <1>2, <1>3, <1>5, <3>1
  <2>2. CountedAt(h, U, x)
    BY DEF Counted
  <2> QED BY <1>2, <1>3, <1>4, <2>1, <2>2, CountedStays
<1>6. CASE x = a
  <2>1. CountedAt(h, U, a) /\ Count(h, a) \in Nat \ {0} /\ Needed(h, U, a) \in Nat
    BY CountIs, UnusedIs DEF Counted, Good
  <2>2. Needed(q, V, a) = Needed(h, U, a) + 1
    <3>1. U[a] \in Nat /\ Cardinality(TexOf(h, a)) \in Nat
      BY TexOfIs DEF Uses
    <3> QED BY <1>3, <1>4, <3>1 DEF Needed
  <2> QED BY <1>2, <1>6, <2>1, <2>2 DEF CountedAt
<1> QED BY <1>5, <1>6

\* Fewer uses are covered too.
LEMMA CountedLess ==
    ASSUME NEW h, Good(h, {}), NEW U \in Uses, NEW V \in Uses, Counted(h, U),
           \A x \in Addr : V[x] <= U[x]
    PROVE  Counted(h, V)
<1> SUFFICES ASSUME NEW x \in Addr PROVE CountedAt(h, V, x)
  BY DEF Counted
<1>1. CountedAt(h, U, x) /\ V[x] <= U[x] /\ Count(h, x) >= Count(h, x)
  <2>1. Count(h, x) \in Nat
    BY CountIs DEF Good
  <2> QED BY <2>1 DEF Counted
<1> QED BY <1>1, CountedStays

\* A use less and a reference less of a buffer or a surface.
LEMMA LeafCounted ==
    ASSUME NEW h, Good(h, {}), NEW U \in Uses, Counted(h, U), NEW a \in Addr, U[a] >= 1,
           a \in Alive(h) => h.reg[a].kind # "tex"
    PROVE  Counted(DecLeaf(h, a), Fewer(U, a))
<1> DEFINE q == DecLeaf(h, a)
           V == Fewer(U, a)
<1>1. a \in Nat
  BY DEF Addr
<1>2. /\ Good(q, {})
      /\ Alive(q) = (IF Count(h, a) > 1 THEN Alive(h) ELSE Alive(h) \ {a})
      /\ \A x \in Alive(q) : q.reg[x] = h.reg[x]
      /\ \A x : x # a => Count(q, x) = Count(h, x)
      /\ Count(h, a) > 1 => Count(q, a) = Count(h, a) - 1
  BY <1>1, LeafReleased
<1>3. V \in Uses /\ V[a] = U[a] - 1 /\ U[a] \in Nat /\ \A x \in Addr \ {a} : V[x] = U[x]
  BY UsesChange
<1> HIDE DEF q, V
<1>4. \A x : TexOf(q, x) \subseteq TexOf(h, x)
  BY <1>2, TexOfFewer
<1> SUFFICES ASSUME NEW x \in Addr PROVE CountedAt(q, V, x)
  BY DEF Counted, q, V
<1>5. CASE x # a
  <2>1. V[x] <= U[x] /\ Count(q, x) >= Count(h, x)
    <3>1. U[x] \in Nat /\ Count(h, x) \in Nat
      BY CountIs DEF Uses, Good
    <3> QED BY <1>2, <1>3, <1>5, <3>1
  <2>2. CountedAt(h, U, x) /\ (x \in Alive(h) => x \in Alive(q))
    BY <1>2, <1>5 DEF Counted
  <2> QED BY <1>2, <1>3, <1>4, <2>1, <2>2, CountedStays
<1>6. CASE x = a
  <2> DEFINE m == Cardinality(TexOf(h, a))
             n == Cardinality(TexOf(q, a))
  <2>1. /\ m \in Nat /\ n \in Nat /\ IsFiniteSet(TexOf(h, a))
        /\ (m = 0 <=> TexOf(h, a) = {}) /\ (n = 0 <=> TexOf(q, a) = {})
    BY <1>2, TexOfIs
  <2>2. n <= m
    BY <1>4, <2>1, FS_Subset
  <2>3. Needed(h, U, a) = U[a] + m /\ Needed(q, V, a) = V[a] + n
    BY DEF Needed
  <2> HIDE DEF m, n
  <2>4. Count(h, a) \in Nat \ {0}
    BY CountIs DEF Good
  <2>5. a \in Alive(h) /\ Count(h, a) >= U[a] + m
    BY <1>3, <2>1, <2>3 DEF Counted, CountedAt
  <2>6. CASE Count(h, a) > 1
    BY <1>2, <1>3, <1>6, <2>1, <2>2, <2>3, <2>4, <2>5, <2>6 DEF CountedAt
  <2>7. CASE ~ (Count(h, a) > 1)
    <3>1. U[a] = 1 /\ m = 0 /\ n = 0
      BY <1>3, <2>1, <2>2, <2>4, <2>5, <2>7
    <3> QED BY <1>3, <1>6, <2>3, <3>1 DEF CountedAt
  <2> QED BY <2>6, <2>7
<1> QED BY <1>5, <1>6

-----------------------------------------------------------------------------
\* The uses while a texture releases its levels: those from i + 1 on remain.
Left(V, s, i) == [x \in Addr |-> V[x] + (IF \E j \in i + 1 .. Len(s) : s[j] = x THEN 1 ELSE 0)]

\* A texture nothing uses has its levels released when it is freed.
LEMMA TextureGone ==
    ASSUME NEW h, Good(h, {}), NEW V \in Uses, Counted(h, V), NEW a \in Addr, Needed(h, V, a) = 0,
           a \in Alive(h), h.reg[a].kind = "tex"
    PROVE  Counted(FreeObject(h, a), V)
<1> DEFINE q == TexFreed(h, a)
           s == h.reg[a].mips
           N == Len(s)
<1>1. /\ Good(q, {}) /\ q.refs = h.refs
      /\ Alive(q) = Alive(h) \ {a} /\ \A x \in Alive(q) : q.reg[x] = h.reg[x]
      /\ FreeObject(h, a) = FoldLeft(DecLeaf, q, s)
      /\ s \in Seq(Nat) /\ \A i \in 1 .. Len(s) : SurfAt(q, s[i])
  BY TextureFreed
<1>2. \A i, j \in 1 .. Len(s) : s[i] = s[j] => i = j
  BY DEF Good, MipsAre
<1>3. \A i \in 1 .. Len(s) : s[i] \in Addr
  BY MipsIndexed
<1>4. DOMAIN s = 1 .. Len(s)
  BY MipsIndexed
<1>5. TexOf(h, a) = {} /\ V[a] = 0
  BY UnusedIs
<1>6. \A x : (\E i \in 1 .. Len(s) : s[i] = x) <=> a \in TexOf(h, x)
  <2>1. \A x : a \in TexOf(h, x) <=> \E i \in DOMAIN s : s[i] = x
    BY DEF TexOf
  <2> HIDE DEF s
  <2> QED BY <1>4, <2>1
<1> HIDE DEF q, s
<1>7. \A x : TexOf(q, x) = TexOf(h, x) \ {a}
  BY <1>1 DEF TexOf
<1>8. N \in Nat
  BY <1>1
<1>9. \A i \in Nat : Left(V, s, i) \in Uses
  BY DEF Left, Uses
<1>10. Counted(q, Left(V, s, 0))
  <2> SUFFICES ASSUME NEW x \in Addr PROVE CountedAt(q, Left(V, s, 0), x)
    BY DEF Counted
  <2> DEFINE U == Left(V, s, 0)
  <2>1. U[x] = V[x] + (IF \E j \in 1 .. Len(s) : s[j] = x THEN 1 ELSE 0)
    <3>1. 0 + 1 = 1
      OBVIOUS
    <3> QED BY <3>1 DEF Left
  <2>2. U \in Uses /\ V[x] \in Nat
    <3>1. U \in Uses
      BY <1>9
    <3>2. V[x] \in Nat
      <4> HIDE DEF U
      <4> QED BY DEF Uses
    <3> QED BY <3>1, <3>2
  <2> HIDE DEF U
  <2>3. CountedAt(h, V, x) /\ Count(q, x) = Count(h, x) /\ Count(h, x) \in Nat
    BY <1>1, CountIs DEF Counted, Count, Good
  <2>4. CASE x = a
    <3>1. TexOf(q, x) = {} /\ U[x] = 0
      BY <1>5, <1>6, <1>7, <2>1, <2>4
    <3>2. Needed(q, U, x) = 0
      BY <1>1, <2>2, <3>1, UnusedIs
    <3> QED BY <3>2 DEF CountedAt, U
  <2>5. CASE x # a /\ a \notin TexOf(h, x)
    <3>1. U[x] = V[x]
      BY <1>6, <2>1, <2>2, <2>5
    <3>2. TexOf(q, x) \subseteq TexOf(h, x) /\ U[x] <= V[x] /\ Count(q, x) >= Count(h, x)
          /\ (x \in Alive(h) => x \in Alive(q))
      BY <1>1, <1>7, <2>2, <2>3, <2>5, <3>1
    <3>3. CountedAt(q, U, x)
      BY <1>1, <2>2, <2>3, <3>2, CountedStays
    <3> QED BY <3>3 DEF U
  <2>6. CASE x # a /\ a \in TexOf(h, x)
    <3>1. U[x] = V[x] + 1
      BY <1>6, <2>1, <2>6
    <3>2. IsFiniteSet(TexOf(h, x)) /\ Cardinality(TexOf(h, x)) \in Nat
      BY TexOfIs
    <3>3. Cardinality(TexOf(q, x)) = Cardinality(TexOf(h, x)) - 1
      BY <1>7, <2>6, <3>2, FS_RemoveElement
    <3>4. Needed(q, U, x) = Needed(h, V, x)
      BY <2>2, <3>1, <3>2, <3>3 DEF Needed
    <3>5. x \in Alive(h) => x \in Alive(q)
      BY <1>1, <2>6
    <3> QED BY <2>3, <3>4, <3>5 DEF CountedAt, U
  <2> QED BY <2>4, <2>5, <2>6
<1>11. PICK g : Releases(g, q, s) /\ FoldLeft(DecLeaf, q, s) = g[Len(s)]
  BY <1>1, ReleasesExist
<1>12. /\ g[0] = q /\ \A i \in 1 .. N : g[i] = DecLeaf(g[i - 1], s[i])
       /\ \A i \in 0 .. N : Good(g[i], {}) /\ SurfStays(q, g[i])
  BY <1>11 DEF Releases
<1> HIDE DEF N
<1>13. ASSUME NEW n \in Nat, n + 1 <= N, Counted(g[n], Left(V, s, n))
       PROVE  Counted(g[n + 1], Left(V, s, n + 1))
  <2>1. n + 1 \in 1 .. N /\ (n + 1) - 1 = n /\ n \in 0 .. N
    BY <1>8, <1>13
  <2>2. g[n + 1] = DecLeaf(g[n], s[n + 1]) /\ Good(g[n], {}) /\ SurfStays(q, g[n])
    BY <1>12, <2>1
  <2> DEFINE b == s[n + 1]
             U == Left(V, s, n)
             W == Left(V, s, n + 1)
  <2>3. b \in Addr /\ SurfAt(g[n], b)
    BY <1>1, <1>3, <2>1, <2>2 DEF SurfStays, N
  <2>4. b \in Alive(g[n]) => g[n].reg[b].kind # "tex"
    BY <2>2, <2>3, SurfIsLeaf
  <2>5. /\ \A x \in Addr : U[x] = V[x] + (IF \E j \in n + 1 .. N : s[j] = x THEN 1 ELSE 0)
        /\ \A x \in Addr : W[x] = V[x] + (IF \E j \in (n + 1) + 1 .. N : s[j] = x THEN 1 ELSE 0)
        /\ U \in Uses /\ W \in Uses /\ \A x \in Addr : V[x] \in Nat
    BY <1>9 DEF Left, Uses, N
  <2>6. \A j \in n + 1 .. N : j \in 1 .. N /\ (j = n + 1 \/ j \in (n + 1) + 1 .. N)
    BY <1>8
  <2>7. \A j \in (n + 1) + 1 .. N : j \in n + 1 .. N /\ j # n + 1
    BY <1>8
  <2>8. n + 1 \in n + 1 .. N
    BY <1>8, <1>13
  <2>9. \A j \in n + 1 .. N : s[j] = b => j = n + 1
    BY <1>2, <2>1, <2>6 DEF N
  <2>10. U[b] = V[b] + 1 /\ W[b] = V[b]
    <3>1. \E j \in n + 1 .. N : s[j] = b
      BY <2>8
    <3>2. ~ \E j \in (n + 1) + 1 .. N : s[j] = b
      BY <2>7, <2>9
    <3> HIDE DEF U, W, b
    <3> QED BY <2>3, <2>5, <3>1, <3>2
  <2>11. \A x \in Addr \ {b} : W[x] = U[x]
    <3> SUFFICES ASSUME NEW x \in Addr \ {b} PROVE W[x] = U[x]
      OBVIOUS
    <3>1. (\E j \in n + 1 .. N : s[j] = x) <=> (\E j \in (n + 1) + 1 .. N : s[j] = x)
      BY <2>6, <2>7
    <3> HIDE DEF U, W, b
    <3> QED BY <2>5, <3>1
  <2> HIDE DEF b, U, W
  <2>12. U[b] >= 1
    BY <2>3, <2>5, <2>10
  <2>13. Counted(DecLeaf(g[n], b), Fewer(U, b))
    BY <1>13, <2>2, <2>3, <2>4, <2>5, <2>12, LeafCounted DEF U
  <2>14. Fewer(U, b) = W
    <3>1. /\ \A x \in Addr \ {b} : Fewer(U, b)[x] = U[x]
          /\ Fewer(U, b) \in Uses /\ Fewer(U, b)[b] = U[b] - 1
      BY <2>3, <2>5, <2>12, UsesChange
    <3>2. \A x \in Addr : Fewer(U, b)[x] = W[x]
      <4> SUFFICES ASSUME NEW x \in Addr PROVE Fewer(U, b)[x] = W[x]
        OBVIOUS
      <4>1. CASE x = b
        BY <2>5, <2>10, <3>1, <4>1
      <4>2. CASE x # b
        BY <2>11, <3>1, <4>2
      <4> QED BY <4>1, <4>2
    <3> QED BY <2>5, <3>1, <3>2 DEF Uses
  <2> QED BY <2>2, <2>13, <2>14 DEF b, W
<1>14. Counted(g[N], Left(V, s, N))
  <2> DEFINE S == {n \in Nat : n <= N => Counted(g[n], Left(V, s, n))}
  <2>1. 0 \in S
    BY <1>10, <1>12
  <2>2. ASSUME NEW n \in S PROVE n + 1 \in S
    <3>1. CASE n + 1 <= N
      <4>1. n \in Nat /\ n <= N
        BY <1>8, <3>1
      <4> QED BY <1>13, <3>1, <4>1
    <3> QED BY <3>1
  <2>3. S = Nat
    <3>1. S \in SUBSET Nat
      OBVIOUS
    <3> HIDE DEF S
    <3> QED BY <2>1, <2>2, <3>1, Induction
  <2> QED BY <1>8, <2>3
<1>15. Left(V, s, N) = V
  <2>1. \A x \in Addr : Left(V, s, N)[x] = V[x]
    <3> SUFFICES ASSUME NEW x \in Addr PROVE Left(V, s, N)[x] = V[x]
      OBVIOUS
    <3>1. ~ \E j \in N + 1 .. Len(s) : s[j] = x
      BY <1>8 DEF N
    <3>2. V[x] \in Nat
      BY DEF Uses
    <3> QED BY <3>1, <3>2 DEF Left
  <2>2. Left(V, s, N) \in Uses
    BY <1>8, <1>9
  <2> QED BY <2>1, <2>2 DEF Uses
<1> QED BY <1>1, <1>11, <1>14, <1>15 DEF N

\* A use less and a reference less.
LEMMA CountedReleased ==
    ASSUME NEW h, Good(h, {}), NEW U \in Uses, Counted(h, U), NEW a \in Addr, U[a] >= 1
    PROVE  Counted(DecRef(h, a), Fewer(U, a))
<1>1. CASE a \in Alive(h) => h.reg[a].kind # "tex"
  <2>1. DecRef(h, a) = DecLeaf(h, a)
    <3> DEFINE h1 == [h EXCEPT !.refs = Dropped(@, a)]
    <3>1. h1.reg = h.reg /\ Alive(h1) = Alive(h)
      BY CountForgotten DEF Good, Alive
    <3> HIDE DEF h1
    <3>2. FreeObject(h1, a) = FreeLeaf(h1, a)
      BY <1>1, <3>1 DEF FreeObject
    <3> QED BY <3>2 DEF DecRef, DecLeaf, h1
  <2> QED BY <1>1, <2>1, LeafCounted
<1>2. CASE a \in Alive(h) /\ h.reg[a].kind = "tex"
  <2> DEFINE V == Fewer(U, a)
  <2>1. V \in Uses /\ V[a] = U[a] - 1 /\ U[a] \in Nat /\ \A x \in Addr \ {a} : V[x] = U[x]
    BY UsesChange
  <2>2. a \in Nat /\ h \in Heaps /\ Count(h, a) \in Nat \ {0}
    BY CountIs DEF Addr, Good
  <2> HIDE DEF V
  <2>3. CASE Count(h, a) > 1
    <3> DEFINE n == Count(h, a) - 1
               q == WithCount(h, a, n)
    <3>1. n \in Nat \ {0} /\ DecRef(h, a) = q /\ n = Count(h, a) - 1
      BY <2>2, <2>3 DEF DecRef
    <3> HIDE DEF n
    <3>2. /\ q \in Heaps /\ q.next = h.next /\ q.free = h.free /\ q.reg = h.reg
          /\ Count(q, a) = n /\ \A x : x # a => Count(q, x) = Count(h, x)
      BY <2>2, <3>1, CountSet
    <3> HIDE DEF q
    <3>3. Good(q, {}) /\ Alive(q) = Alive(h)
      BY <3>2, GoodBy
    <3>4. \A x : TexOf(q, x) = TexOf(h, x)
      BY <3>2, <3>3 DEF TexOf
    <3>5. ASSUME NEW x \in Addr, x # a PROVE CountedAt(q, V, x)
      <4>1. V[x] <= U[x] /\ Count(q, x) >= Count(h, x)
        <5>1. U[x] \in Nat /\ Count(h, x) \in Nat
          BY <2>2, CountIs DEF Uses
        <5> QED BY <2>1, <3>2, <3>5, <5>1
      <4>2. CountedAt(h, U, x)
        BY DEF Counted
      <4> QED BY <2>1, <3>3, <3>4, <4>1, <4>2, CountedStays
    <3>6. CountedAt(q, V, a)
      <4>1. CountedAt(h, U, a) /\ Cardinality(TexOf(h, a)) \in Nat
        BY TexOfIs DEF Counted
      <4> QED BY <2>1, <2>2, <3>1, <3>2, <3>3, <3>4, <4>1 DEF CountedAt, Needed
    <3>7. Counted(q, V)
      BY <3>5, <3>6 DEF Counted
    <3> QED BY <3>1, <3>7 DEF V
  <2>4. CASE ~ (Count(h, a) > 1)
    <3> DEFINE h1 == [h EXCEPT !.refs = Dropped(@, a)]
    <3>1. DecRef(h, a) = FreeObject(h1, a)
      BY <2>4 DEF DecRef
    <3>2. /\ h1 \in Heaps /\ h1.next = h.next /\ h1.free = h.free /\ h1.reg = h.reg
          /\ \A x : x # a => Count(h1, x) = Count(h, x)
      BY <2>2, CountForgotten
    <3> HIDE DEF h1
    <3>3. Good(h1, {}) /\ Alive(h1) = Alive(h)
      BY <3>2, GoodBy
    <3>4. \A x : TexOf(h1, x) = TexOf(h, x)
      BY <3>2, <3>3 DEF TexOf
    <3>5. Needed(h1, V, a) = 0
      <4>1. CountedAt(h, U, a) /\ Cardinality(TexOf(h, a)) \in Nat
        BY TexOfIs DEF Counted
      <4> QED BY <2>1, <2>2, <2>4, <3>4, <4>1 DEF CountedAt, Needed
    <3>6. ASSUME NEW x \in Addr, x # a PROVE CountedAt(h1, V, x)
      <4>1. V[x] <= U[x] /\ Count(h1, x) >= Count(h, x)
        <5>1. U[x] \in Nat /\ Count(h, x) \in Nat
          BY <2>2, CountIs DEF Uses
        <5> QED BY <2>1, <3>2, <3>6, <5>1
      <4>2. CountedAt(h, U, x)
        BY DEF Counted
      <4> QED BY <2>1, <3>3, <3>4, <4>1, <4>2, CountedStays
    <3>7. Counted(h1, V)
      BY <3>5, <3>6 DEF Counted, CountedAt
    <3>8. Counted(FreeObject(h1, a), V)
      BY <1>2, <2>1, <3>2, <3>3, <3>5, <3>7, TextureGone
    <3> QED BY <3>1, <3>8 DEF V
  <2> QED BY <2>3, <2>4
<1> QED BY <1>1, <1>2

\* New objects are used by nothing old, and a new texture by its caller only.
LEMMA CountedGrown ==
    ASSUME NEW h, Good(h, {}), NEW q, Good(q, {}), NEW U \in Uses, Counted(h, U), NEW o,
           Grown(h, q, o), \A x \in Alive(h) : Count(q, x) = Count(h, x)
    PROVE  /\ Counted(q, U)
           /\ o \in Addr /\ o \in Alive(q) => Counted(q, More(U, o))
<1>1. \A x \in Alive(h) : TexOf(q, x) = TexOf(h, x)
  <2> SUFFICES ASSUME NEW x \in Alive(h) PROVE TexOf(q, x) = TexOf(h, x)
    OBVIOUS
  <2>1. ASSUME NEW y \in Alive(q) \ Alive(h), NEW i \in DOMAIN q.reg[y].mips PROVE q.reg[y].mips[i] # x
    <3>1. i \in 1 .. Len(q.reg[y].mips)
      BY MipsIndexed
    <3>2. CASE y # o
      BY <3>1, <3>2 DEF Grown
    <3>3. CASE y = o
      BY <3>1, <3>3 DEF Grown
    <3> QED BY <3>2, <3>3
  <2> QED BY <2>1 DEF TexOf, Grown
<1>2. \A x \in Addr \ Alive(h) : U[x] = 0 /\ TexOf(h, x) = {}
  BY UnusedIs DEF Counted, CountedAt
<1>3. ASSUME NEW x \in Addr, x \notin Alive(h)
      PROVE  /\ TexOf(q, x) \subseteq {o}
             /\ TexOf(q, x) # {} => x \in Alive(q) /\ x # o
  <2>1. ASSUME NEW y \in TexOf(q, x) PROVE y = o /\ x \in Alive(q) /\ x # o
    <3>1. y \in Alive(q)
      BY <2>1 DEF TexOf
    <3>2. PICK i \in 1 .. Len(q.reg[y].mips) : q.reg[y].mips[i] = x
      BY <2>1, <3>1, MipsIndexed DEF TexOf
    <3>3. y \notin Alive(h)
      <4>1. CASE y \in Alive(h)
        <5>1. q.reg[y] = h.reg[y]
          BY <4>1 DEF Grown
        <5>2. i \in DOMAIN h.reg[y].mips
          BY <3>2, <4>1, <5>1, MipsIndexed
        <5>3. y \in TexOf(h, x)
          BY <3>2, <4>1, <5>1, <5>2 DEF TexOf
        <5> QED BY <1>2, <1>3, <5>3
      <4> QED BY <4>1
    <3>4. y = o
      <4>1. CASE y # o
        <5>1. q.reg[y].mips = << >>
          BY <3>1, <3>3, <4>1 DEF Grown
        <5> QED BY <3>2, <5>1
      <4> QED BY <4>1
    <3>5. x \in Alive(q) /\ x # o
      BY <3>1, <3>2, <3>4 DEF Grown
    <3> QED BY <3>4, <3>5
  <2> QED BY <2>1
<1>4. ASSUME NEW V \in Uses, NEW x \in Addr, V[x] = U[x] PROVE CountedAt(q, V, x)
  <2>1. CASE x \in Alive(h)
    <3>1. /\ TexOf(q, x) \subseteq TexOf(h, x) /\ V[x] <= U[x] /\ Count(q, x) >= Count(h, x)
          /\ x \in Alive(q) /\ CountedAt(h, U, x)
      <4>1. U[x] \in Nat /\ Count(h, x) \in Nat
        BY CountIs DEF Uses, Good
      <4> QED BY <1>1, <1>4, <2>1, <4>1 DEF Grown, Counted
    <3> QED BY <3>1, CountedStays
  <2>2. CASE x \notin Alive(h) /\ TexOf(q, x) = {}
    <3>1. Needed(q, V, x) = 0
      BY <1>2, <1>4, <2>2, UnusedIs
    <3> QED BY <3>1 DEF CountedAt
  <2>3. CASE x \notin Alive(h) /\ TexOf(q, x) # {}
    <3>1. TexOf(q, x) = {o} /\ x \in Alive(q)
      BY <1>3, <2>3
    <3>2. Cardinality(TexOf(q, x)) = 1
      BY <3>1, FS_Singleton
    <3>3. Needed(q, V, x) = 1
      BY <1>2, <1>4, <2>3, <3>2 DEF Needed
    <3>4. Count(q, x) \in Nat \ {0}
      BY CountIs DEF Good
    <3> QED BY <3>1, <3>3, <3>4 DEF CountedAt
  <2> QED BY <2>1, <2>2, <2>3
<1>5. Counted(q, U)
  BY <1>4 DEF Counted
<1>6. ASSUME o \in Addr, o \in Alive(q) PROVE Counted(q, More(U, o))
  <2> DEFINE V == More(U, o)
  <2>1. V \in Uses /\ V[o] = U[o] + 1 /\ \A x \in Addr \ {o} : V[x] = U[x]
    BY <1>6, UsesChange
  <2> HIDE DEF V
  <2>2. o \notin Alive(h)
    BY <1>6 DEF Grown
  <2>3. TexOf(q, o) = {} /\ U[o] = 0
    BY <1>2, <1>3, <1>6, <2>2
  <2>4. Needed(q, V, o) = 1
    <3>1. Cardinality(TexOf(q, o)) = 0
      BY <2>3, FS_EmptySet
    <3> QED BY <2>1, <2>3, <3>1 DEF Needed
  <2>5. CountedAt(q, V, o)
    <3>1. Count(q, o) \in Nat \ {0}
      BY CountIs DEF Good
    <3> QED BY <1>6, <2>4, <3>1 DEF CountedAt
  <2>6. \A x \in Addr : CountedAt(q, V, x)
    BY <1>4, <2>1, <2>5
  <2> QED BY <2>6 DEF Counted, V
<1> QED BY <1>5, <1>6

-----------------------------------------------------------------------------
\* What the creation of one object does to the heap, or its exhaustion.
Creation(h, q) ==
    /\ q.ok \in BOOLEAN /\ Good(q.h, {}) /\ q.h.refs = h.refs
    /\ ~ q.ok => Grown(h, q.h, 0)
    /\ q.ok => \E o \in 1 .. Limit : Grown(h, q.h, o) /\ o \in Alive(q.h) /\ q.made = <<o>>

\* A buffer or a surface for the guest.
LEMMA LeafCreated ==
    ASSUME NEW h, Good(h, {}), NEW kind \in {"res", "surf"}, NEW size \in Sizes
    PROVE  Creation(h, AllocObject(Start(h), kind, size))
<1> DEFINE r == Start(h)
           q == AllocObject(r, kind, size)
<1>1. r \in Rounds /\ r.h = h /\ r.made = << >>
  BY DEF Start, Rounds, Good
<1> HIDE DEF r
<1>2. /\ q \in Rounds /\ Good(q.h, {}) /\ SurfStays(r.h, q.h) /\ q.h.refs = r.h.refs
      /\ ~ q.ok => q.h.reg = r.h.reg /\ q.made = r.made
      /\ q.ok => \E o \in Nat : /\ Made(r.h, q.h, o, kind) /\ o \notin {}
                                /\ q.made = Append(r.made, o)
  <2>1. Good(r.h, {})
    BY <1>1
  <2>2. LeafMaking(r, q, {}, kind)
    BY <1>1, <2>1, LeafMade
  <2> HIDE DEF q
  <2> QED BY <2>2 DEF LeafMaking
<1> HIDE DEF q
<1>3. q.ok \in BOOLEAN
  BY <1>2 DEF Rounds
<1>4. ASSUME ~ q.ok PROVE Grown(h, q.h, 0)
  <2>1. q.h.reg = h.reg /\ Alive(q.h) = Alive(h)
    BY <1>1, <1>2, <1>4 DEF Alive
  <2>2. 0 \notin Alive(h)
    BY DEF Good, Parted
  <2> QED BY <2>1, <2>2 DEF Grown
<1>5. ASSUME q.ok
      PROVE  \E o \in 1 .. Limit : Grown(h, q.h, o) /\ o \in Alive(q.h) /\ q.made = <<o>>
  <2>1. PICK o \in Nat : Made(h, q.h, o, kind) /\ q.made = Append(<< >>, o)
    BY <1>1, <1>2, <1>5
  <2>2. Append(<< >>, o) = <<o>>
    OBVIOUS
  <2>3. Grown(h, q.h, o)
    BY <2>1 DEF Made, Grown
  <2> QED BY <2>1, <2>2, <2>3 DEF Made
<1> QED BY <1>1, <1>2, <1>3, <1>4, <1>5 DEF Creation, q, r

\* A texture for the guest.
LEMMA TextureCreated ==
    ASSUME NEW h, Good(h, {}), NEW size \in Sizes, NEW n \in Levels
    PROVE  Creation(h, AllocTexture(h, size, n))
BY TextureMade DEF Creation

\* Counts do not change when the table of them does not.
LEMMA CountedCreated ==
    ASSUME NEW h, Good(h, {}), NEW U \in Uses, Counted(h, U), NEW q, Creation(h, q)
    PROVE  /\ q.ok => Counted(q.h, More(U, Last(q.made)))
           /\ ~ q.ok => Counted(q.h, U)
<1>1. \A x \in Alive(h) : Count(q.h, x) = Count(h, x)
  BY DEF Creation, Count
<1>2. Good(q.h, {})
  BY DEF Creation
<1>3. ASSUME q.ok PROVE Counted(q.h, More(U, Last(q.made)))
  <2>1. PICK o \in 1 .. Limit : Grown(h, q.h, o) /\ o \in Alive(q.h) /\ q.made = <<o>>
    BY <1>3 DEF Creation
  <2>2. Last(q.made) = o /\ o \in Addr
    BY <2>1 DEF Last, Addr
  <2> QED BY <1>1, <1>2, <2>1, <2>2, CountedGrown
<1>4. ASSUME ~ q.ok PROVE Counted(q.h, U)
  BY <1>1, <1>2, <1>4, CountedGrown DEF Creation
<1> QED BY <1>3, <1>4

\* A surface made for the device and the caller has a count of its own.
LEMMA TargetCreated ==
    ASSUME NEW h, Good(h, {}), NEW q, Creation(h, q), q.ok, NEW n \in Nat \ {0}
    PROVE  LET o == Last(q.made)
               w == WithCount(q.h, o, n)
           IN  /\ o \in Addr /\ Good(w, {})
               /\ \A U \in Uses : Counted(h, U) => Counted(w, More(U, o))
<1>1. PICK o \in 1 .. Limit : Grown(h, q.h, o) /\ o \in Alive(q.h) /\ q.made = <<o>>
  BY DEF Creation
<1>2. Last(q.made) = o /\ o \in Addr /\ o \in Nat
  BY <1>1 DEF Last, Addr
<1> DEFINE w == WithCount(q.h, o, n)
<1>3. Good(q.h, {}) /\ q.h.refs = h.refs /\ q.h \in Heaps
  BY DEF Creation, Good
<1>4. /\ w \in Heaps /\ w.next = q.h.next /\ w.free = q.h.free /\ w.reg = q.h.reg
      /\ \A x : x # o => Count(w, x) = Count(q.h, x)
  BY <1>2, <1>3, CountSet
<1> HIDE DEF w
<1>5. Good(w, {}) /\ Alive(w) = Alive(q.h)
  BY <1>3, <1>4, GoodBy
<1>6. Grown(h, w, o)
  BY <1>1, <1>4, <1>5 DEF Grown
<1>7. \A x \in Alive(h) : Count(w, x) = Count(h, x)
  <2>1. o \notin Alive(h)
    BY <1>1 DEF Grown
  <2>2. \A x : Count(q.h, x) = Count(h, x)
    BY <1>3 DEF Count
  <2> QED BY <1>4, <2>1, <2>2
<1>8. \A U \in Uses : Counted(h, U) => Counted(w, More(U, o))
  BY <1>1, <1>2, <1>5, <1>6, <1>7, CountedGrown
<1> QED BY <1>2, <1>5, <1>8 DEF w

-----------------------------------------------------------------------------
\* The uses of an address: what the guest holds and the stages it is bound to.
UseBy(hd, bd) == [a \in Addr |-> hd[a] + Cardinality({s \in Stage : bd[s] = a})]
Bindings == [Stage -> Addr \cup {0}]

\* The stages are finitely many.
LEMMA StagesOf ==
    ASSUME NEW bd, NEW a
    PROVE  /\ IsFiniteSet({s \in Stage : bd[s] = a})
           /\ Cardinality({s \in Stage : bd[s] = a}) \in Nat
<1>1. {s \in Stage : bd[s] = a} \subseteq Stage /\ IsFiniteSet(Stage)
  BY D3DObjectsAssumption
<1>2. IsFiniteSet({s \in Stage : bd[s] = a})
  BY <1>1, FS_Subset, Zenon
<1> QED BY <1>2, FS_CardinalityType

\* How often each address is bound.
BoundTo(bd) == [a \in Addr |-> Cardinality({s \in Stage : bd[s] = a})]

\* The two parts of the uses.
LEMMA UseParts ==
    ASSUME NEW bd
    PROVE  /\ BoundTo(bd) \in Uses
           /\ \A f : UseBy(f, bd) = [x \in Addr |-> f[x] + BoundTo(bd)[x]]
<1>1. \A a \in Addr : Cardinality({s \in Stage : bd[s] = a}) \in Nat
  BY StagesOf, Zenon
<1>2. BoundTo(bd) \in Uses
  <2> DEFINE n(a) == Cardinality({s \in Stage : bd[s] = a})
  <2>1. BoundTo(bd) = [a \in Addr |-> n(a)] /\ \A a \in Addr : n(a) \in Nat
    BY <1>1 DEF BoundTo
  <2> HIDE DEF n
  <2> QED BY <2>1 DEF Uses
<1>3. \A a \in Addr : BoundTo(bd)[a] = Cardinality({s \in Stage : bd[s] = a})
  BY DEF BoundTo
<1>4. \A f : UseBy(f, bd) = [x \in Addr |-> f[x] + BoundTo(bd)[x]]
  BY <1>3 DEF UseBy
<1> QED BY <1>2, <1>4

\* Uses are numbers; what the guest holds and what is bound is used.
LEMMA UseIs ==
    ASSUME NEW hd \in Uses, NEW bd \in Bindings
    PROVE  /\ UseBy(hd, bd) \in Uses
           /\ \A a \in Addr : UseBy(hd, bd)[a] >= hd[a]
           /\ \A s \in Stage : bd[s] # 0 => bd[s] \in Addr /\ UseBy(hd, bd)[bd[s]] >= 1
<1> DEFINE c == BoundTo(bd)
           u == UseBy(hd, bd)
<1>1. c \in Uses /\ u = [x \in Addr |-> hd[x] + c[x]]
  BY UseParts
<1>2. \A a \in Addr : c[a] = Cardinality({s \in Stage : bd[s] = a})
  BY DEF BoundTo
<1> HIDE DEF c, u
<1>3. \A a \in Addr : hd[a] \in Nat /\ c[a] \in Nat /\ u[a] = hd[a] + c[a]
  BY <1>1 DEF Uses
<1>4. u \in Uses /\ \A a \in Addr : u[a] >= hd[a]
  BY <1>1, <1>3 DEF Uses
<1>5. ASSUME NEW s \in Stage, bd[s] # 0 PROVE bd[s] \in Addr /\ u[bd[s]] >= 1
  <2>1. bd[s] \in Addr
    BY <1>5 DEF Bindings
  <2> DEFINE a == bd[s]
             T == {t \in Stage : bd[t] = a}
  <2>2. a \in Addr /\ s \in T
    BY <2>1
  <2>3. IsFiniteSet(T) /\ Cardinality(T) \in Nat
    BY StagesOf, Zenon
  <2>4. c[a] = Cardinality(T)
    BY <1>2, <2>1
  <2> HIDE DEF T, a
  <2>5. Cardinality(T) # 0
    BY <2>2, <2>3, FS_EmptySet
  <2>6. u[a] >= 1
    <3> DEFINE k == Cardinality(T)
    <3>1. k \in Nat /\ k # 0 /\ c[a] = k
      BY <2>3, <2>4, <2>5
    <3> HIDE DEF k
    <3> QED BY <1>3, <2>2, <3>1
  <2> QED BY <2>1, <2>6 DEF a
<1> QED BY <1>4, <1>5 DEF u

\* The guest is given a reference, or gives one back.
LEMMA UseGiven ==
    ASSUME NEW hd \in Uses, NEW bd \in Bindings, NEW a \in Addr
    PROVE  /\ [hd EXCEPT ![a] = @ + 1] \in Uses
           /\ UseBy([hd EXCEPT ![a] = @ + 1], bd) = More(UseBy(hd, bd), a)
           /\ hd[a] > 0 => /\ [hd EXCEPT ![a] = @ - 1] \in Uses
                           /\ UseBy([hd EXCEPT ![a] = @ - 1], bd) = Fewer(UseBy(hd, bd), a)
<1> DEFINE c == BoundTo(bd)
           u == UseBy(hd, bd)
<1>1. c \in Uses
  BY UseParts
<1>2. \A f : UseBy(f, bd) = [x \in Addr |-> f[x] + c[x]]
  BY UseParts
<1>3. u = [x \in Addr |-> hd[x] + c[x]]
  BY <1>2
<1> HIDE DEF c, u
<1>4. \A x \in Addr : hd[x] \in Nat /\ c[x] \in Nat
  BY <1>1 DEF Uses
<1>5. [hd EXCEPT ![a] = @ + 1] \in Uses
  BY DEF Uses
<1>6. UseBy([hd EXCEPT ![a] = @ + 1], bd) = More(u, a)
  <2> DEFINE f == [hd EXCEPT ![a] = @ + 1]
  <2>1. \A x \in Addr : f[x] = IF x = a THEN hd[x] + 1 ELSE hd[x]
    BY DEF Uses
  <2>2. UseBy(f, bd) = [x \in Addr |-> f[x] + c[x]]
    BY <1>2
  <2> HIDE DEF f
  <2>3. \A x \in Addr : f[x] + c[x] = IF x = a THEN u[x] + 1 ELSE u[x]
    BY <1>3, <1>4, <2>1
  <2>4. More(u, a) = [x \in Addr |-> IF x = a THEN u[x] + 1 ELSE u[x]]
    BY <1>3 DEF More
  <2>5. UseBy(f, bd) = More(u, a)
    BY <2>2, <2>3, <2>4
  <2> QED BY <2>5 DEF f
<1>7. ASSUME hd[a] > 0
      PROVE  /\ [hd EXCEPT ![a] = @ - 1] \in Uses
             /\ UseBy([hd EXCEPT ![a] = @ - 1], bd) = Fewer(u, a)
  <2> DEFINE f == [hd EXCEPT ![a] = @ - 1]
  <2>1. \A x \in Addr : f[x] = IF x = a THEN hd[x] - 1 ELSE hd[x]
    BY DEF Uses
  <2>2. UseBy(f, bd) = [x \in Addr |-> f[x] + c[x]]
    BY <1>2
  <2>3. f \in Uses
    BY <1>4, <1>7 DEF Uses
  <2> HIDE DEF f
  <2>4. \A x \in Addr : f[x] + c[x] = IF x = a THEN u[x] - 1 ELSE u[x]
    BY <1>3, <1>4, <2>1
  <2>5. Fewer(u, a) = [x \in Addr |-> IF x = a THEN u[x] - 1 ELSE u[x]]
    BY <1>3 DEF Fewer
  <2>6. UseBy(f, bd) = Fewer(u, a)
    BY <2>2, <2>4, <2>5
  <2> QED BY <2>3, <2>6 DEF f
<1> QED BY <1>5, <1>6, <1>7 DEF u

\* A stage is bound to another address.
LEMMA UseRebound ==
    ASSUME NEW hd \in Uses, NEW bd \in Bindings, NEW s \in Stage, NEW a \in Addr \cup {0}, a # bd[s]
    PROVE  LET bd2 == [bd EXCEPT ![s] = a]
           IN  /\ bd2 \in Bindings
               /\ \A x \in Addr : UseBy(hd, bd2)[x] =
                     IF x = bd[s] THEN UseBy(hd, bd)[x] - 1
                     ELSE IF x = a THEN UseBy(hd, bd)[x] + 1
                     ELSE UseBy(hd, bd)[x]
<1> DEFINE bd2 == [bd EXCEPT ![s] = a]
<1>1. bd2 \in Bindings /\ bd2[s] = a /\ \A t \in Stage \ {s} : bd2[t] = bd[t]
  BY DEF Bindings
<1> HIDE DEF bd2
<1> SUFFICES ASSUME NEW x \in Addr
             PROVE  UseBy(hd, bd2)[x] =
                       IF x = bd[s] THEN UseBy(hd, bd)[x] - 1
                       ELSE IF x = a THEN UseBy(hd, bd)[x] + 1
                       ELSE UseBy(hd, bd)[x]
  BY <1>1 DEF bd2
<1> DEFINE T == {t \in Stage : bd[t] = x}
           T2 == {t \in Stage : bd2[t] = x}
<1>2. UseBy(hd, bd2)[x] = hd[x] + Cardinality(T2) /\ UseBy(hd, bd)[x] = hd[x] + Cardinality(T)
  BY DEF UseBy
<1>3. IsFiniteSet(T) /\ Cardinality(T) \in Nat /\ hd[x] \in Nat
  BY StagesOf DEF Uses
<1>4. CASE x = bd[s]
  <2>1. T2 = T \ {s} /\ s \in T
    BY <1>1, <1>4
  <2> HIDE DEF T, T2
  <2>2. Cardinality(T2) = Cardinality(T) - 1
    BY <1>3, <2>1, FS_RemoveElement
  <2> QED BY <1>2, <1>3, <1>4, <2>2
<1>5. CASE x # bd[s] /\ x = a
  <2>1. T2 = T \cup {s} /\ s \notin T
    BY <1>1, <1>5
  <2> HIDE DEF T, T2
  <2>2. Cardinality(T2) = Cardinality(T) + 1
    BY <1>3, <2>1, FS_AddElement
  <2> QED BY <1>2, <1>3, <1>5, <2>2
<1>6. CASE x # bd[s] /\ x # a
  <2>1. T2 = T
    BY <1>1, <1>6
  <2> QED BY <1>2, <1>6, <2>1
<1> QED BY <1>4, <1>5, <1>6

\* The texture of a stage: what was bound is released, what is bound referenced.
LEMMA ReboundCounted ==
    ASSUME NEW h, Good(h, {}), NEW hd \in Uses, NEW bd \in Bindings, NEW s \in Stage,
           NEW a \in Addr \cup {0}, a # 0 => hd[a] > 0 /\ a \in Alive(h)
    PROVE  LET q == Rebound(h, bd[s], a)
               bd2 == [bd EXCEPT ![s] = a]
           IN  /\ bd2 \in Bindings /\ Good(q, {})
               /\ Counted(h, UseBy(hd, bd)) => Counted(q, UseBy(hd, bd2))
<1> DEFINE p == bd[s]
           h1 == IF p # 0 /\ p # a THEN DecRef(h, p) ELSE h
           q == Rebound(h, p, a)
           bd2 == [bd EXCEPT ![s] = a]
           U == UseBy(hd, bd)
           V == UseBy(hd, bd2)
<1>1. bd2 \in Bindings /\ p \in Addr \cup {0}
  BY DEF Bindings
<1>2. q = IF a = 0 THEN h1 ELSE AddRef(h1, a)
  BY DEF Rebound
<1>3. p \in Nat /\ a \in Nat
  BY <1>1 DEF Addr
<1>4. /\ U \in Uses /\ V \in Uses /\ (\A x \in Addr : U[x] >= hd[x])
      /\ (p # 0 => p \in Addr /\ U[p] >= 1)
  BY <1>1, UseIs
<1>5. a # p => \A x \in Addr : V[x] = IF x = p THEN U[x] - 1 ELSE IF x = a THEN U[x] + 1 ELSE U[x]
  BY UseRebound
<1>6. a = p => V = U
  BY DEF Bindings
<1> HIDE DEF q, bd2, U, V
<1>7. Good(h1, {})
  <2> HIDE DEF p
  <2> QED BY <1>3, Released
<1>8. Good(q, {})
  <2> HIDE DEF h1
  <2> QED BY <1>2, <1>3, <1>7, Referenced
<1>9. \A x \in Addr : U[x] \in Nat /\ V[x] \in Nat
  BY <1>4 DEF Uses
<1>10. ASSUME Counted(h, U) PROVE Counted(q, V)
  <2> DEFINE W == IF p # 0 /\ p # a THEN Fewer(U, p) ELSE U
  <2>1. Counted(h1, W) /\ W \in Uses
    <3>1. CASE p # 0 /\ p # a
      <4>1. p \in Addr /\ U[p] >= 1
        BY <1>4, <3>1
      <4> HIDE DEF p
      <4>2. Counted(DecRef(h, p), Fewer(U, p)) /\ Fewer(U, p) \in Uses
        BY <1>4, <1>10, <4>1, CountedReleased, UsesChange
      <4> QED BY <3>1, <4>2
    <3>2. CASE ~ (p # 0 /\ p # a)
      BY <1>4, <1>10, <3>2
    <3> QED BY <3>1, <3>2
  <2>2. \A x \in Addr : W[x] = IF p # a /\ x = p THEN U[x] - 1 ELSE U[x]
    <3> SUFFICES ASSUME NEW x \in Addr PROVE W[x] = IF p # a /\ x = p THEN U[x] - 1 ELSE U[x]
      OBVIOUS
    <3>1. x # 0
      BY DEF Addr
    <3>2. CASE p # 0 /\ p # a
      <4>1. p \in Addr /\ W = Fewer(U, p)
        BY <1>4, <3>2
      <4> HIDE DEF W, p
      <4> QED BY <1>4, <3>2, <4>1, UsesChange
    <3>3. CASE ~ (p # 0 /\ p # a)
      BY <3>1, <3>3
    <3> QED BY <3>2, <3>3
  <2> HIDE DEF W, h1
  <2>3. CASE a = 0
    <3>1. \A x \in Addr : V[x] <= W[x]
      <4> SUFFICES ASSUME NEW x \in Addr PROVE V[x] <= W[x]
        OBVIOUS
      <4>1. x # 0
        BY DEF Addr
      <4>2. V[x] = IF p # a /\ x = p THEN U[x] - 1 ELSE U[x]
        BY <1>5, <1>6, <2>3, <4>1
      <4>3. V[x] = W[x]
        BY <2>2, <4>2
      <4> QED BY <1>9, <4>3
    <3> QED BY <1>2, <1>4, <1>7, <2>1, <2>3, <3>1, CountedLess
  <2>4. CASE a # 0
    <3>1. a \in Addr /\ hd[a] > 0 /\ hd[a] \in Nat
      BY <2>4 DEF Uses
    <3>2. U[a] >= 1 /\ W[a] = U[a]
      <4>1. W[a] = U[a]
        BY <2>2, <3>1
      <4>2. U[a] >= hd[a] /\ U[a] \in Nat
        BY <1>4, <1>9, <3>1
      <4> QED BY <3>1, <4>1, <4>2
    <3>3. a \in Alive(h1)
      <4>1. Needed(h1, W, a) > 0
        <5>1. Cardinality(TexOf(h1, a)) \in Nat
          BY <1>7, TexOfIs
        <5> QED BY <1>9, <3>1, <3>2, <5>1 DEF Needed
      <4> QED BY <2>1, <3>1, <4>1 DEF Counted, CountedAt
    <3>4. Counted(AddRef(h1, a), More(W, a)) /\ Good(AddRef(h1, a), {})
      BY <1>3, <1>7, <2>1, <3>1, <3>3, CountedReferenced, Referenced
    <3>5. More(W, a) \in Uses /\ More(W, a)[a] = W[a] + 1 /\ \A x \in Addr \ {a} : More(W, a)[x] = W[x]
      BY <2>1, <3>1, UsesChange
    <3>6. \A x \in Addr : V[x] <= More(W, a)[x]
      <4> SUFFICES ASSUME NEW x \in Addr PROVE V[x] <= More(W, a)[x]
        OBVIOUS
      <4>1. V[x] = (IF p # a /\ x = p THEN U[x] - 1 ELSE IF p # a /\ x = a THEN U[x] + 1 ELSE U[x])
        BY <1>5, <1>6
      <4>2. CASE x = a
        <5>1. V[x] <= U[x] + 1 /\ More(W, a)[x] = U[x] + 1
          BY <1>9, <3>2, <3>5, <4>1, <4>2
        <5> QED BY <1>9, <5>1
      <4>3. CASE x # a
        <5>1. V[x] = W[x] /\ More(W, a)[x] = W[x]
          BY <2>2, <3>5, <4>1, <4>3
        <5> QED BY <1>9, <5>1
      <4> QED BY <4>2, <4>3
    <3> QED BY <1>2, <1>4, <2>4, <3>4, <3>5, <3>6, CountedLess
  <2> QED BY <2>3, <2>4
<1> QED BY <1>1, <1>8, <1>10 DEF q, bd2, U, V

-----------------------------------------------------------------------------
\* The inductive invariant: a good heap, and, unless the handlers that return
\* a surface without a reference of its own are called, counts that cover all uses.
ObjInv ==
    /\ held \in Uses /\ bound \in Bindings /\ extent \in Sizes
    /\ target \in [{"back", "depth"} -> Addr \cup {0}]
    /\ Good(heap, {})
    /\ "GetRenderTarget" \notin objProgram => Counted(heap, UseBy(held, bound))

\* Nothing is used, nothing was ever handed out.
LEMMA ObjStart ==
    ASSUME ObjInit
    PROVE  ObjInv
<1>1. /\ heap = [next |-> 1, free |-> [k \in Keys |-> << >>],
                 reg |-> [a \in {} |-> 0], refs |-> [a \in {} |-> 0]]
      /\ bound = [s \in Stage |-> 0] /\ target = [t \in {"back", "depth"} |-> 0]
      /\ extent \in Sizes /\ held = [a \in Addr |-> 0]
  BY DEF ObjInit
<1>2. held \in Uses /\ bound \in Bindings /\ target \in [{"back", "depth"} -> Addr \cup {0}]
  BY <1>1 DEF Uses, Bindings
<1> DEFINE free == [k \in Keys |-> << >>]
           none == [a \in {} |-> 0]
<1>3. free \in [Keys -> Seq(Nat)] /\ \A k \in Keys : Len(free[k]) = 0
  <2>1. << >> \in Seq(Nat) /\ Len(<< >>) = 0
    OBVIOUS
  <2> QED BY <2>1
<1>4. {} \in SUBSET Nat /\ none \in [{} -> Entries] /\ none \in [{} -> Nat \ {0}] /\ DOMAIN none = {}
  OBVIOUS
<1>5. heap = [next |-> 1, free |-> free, reg |-> none, refs |-> none]
  BY <1>1
<1> HIDE DEF free, none
<1>6. heap \in Heaps
  BY <1>3, <1>4, <1>5, HeapMade
<1>7. heap.next = 1 /\ heap.free = free /\ Alive(heap) = {}
  BY <1>4, <1>5 DEF Alive
<1>8. /\ \A a : ~ OnList(heap, a) /\ ~ DataOf(heap, a)
      /\ \A k \in Keys : 1 .. Len(heap.free[k]) = {}
  BY <1>3, <1>7 DEF OnList, DataOf
<1>9. 0 < heap.next /\ heap.next <= Limit + 1
  BY <1>7, D3DObjectsAssumption
<1>10. Parted(heap, {})
  BY <1>7, <1>8, <1>9 DEF Parted
<1>11. Good(heap, {})
  BY <1>6, <1>7, <1>10 DEF Good, MipsAre
<1>12. Counted(heap, UseBy(held, bound))
  <2> SUFFICES ASSUME NEW a \in Addr PROVE CountedAt(heap, UseBy(held, bound), a)
    BY DEF Counted
  <2>1. {s \in Stage : bound[s] = a} = {}
    BY <1>1 DEF Addr
  <2>2. UseBy(held, bound)[a] = 0
    <3>1. Cardinality({s \in Stage : bound[s] = a}) = 0
      BY <2>1, FS_EmptySet, Zenon
    <3>2. UseBy(held, bound)[a] = held[a] + Cardinality({s \in Stage : bound[s] = a}) /\ held[a] = 0
      BY <1>1 DEF UseBy
    <3> QED BY <3>1, <3>2
  <2>3. TexOf(heap, a) = {}
    BY <1>7 DEF TexOf
  <2>4. UseBy(held, bound) \in Uses
    BY <1>2, UseIs
  <2> QED BY <1>11, <2>2, <2>3, <2>4, UnusedIs
<1> QED BY <1>1, <1>2, <1>11, <1>12 DEF ObjInv

\* A set with one element at most, by its elements.
LEMMA OneAtMost ==
    ASSUME NEW S, \A x, y \in S : x = y
    PROVE  Cardinality(S) \in {0, 1} /\ (S = {} => Cardinality(S) = 0)
<1>1. CASE S = {}
  BY <1>1, FS_EmptySet
<1>2. CASE S # {}
  <2>1. PICK x \in S : S = {x}
    BY <1>2
  <2>2. Cardinality(S) = 1
    BY <2>1, FS_Singleton
  <2> QED BY <1>2, <2>2
<1> QED BY <1>1, <1>2

\* The invariant is what a run checks.
LEMMA ObjectsAre ==
    ASSUME ObjInv
    PROVE  ObjectsAreKept
<1>1. UsersAreCounted
  <2> SUFFICES ASSUME "GetRenderTarget" \notin objProgram, NEW a \in Addr, Users(a) > 0
               PROVE  Covered(a)
    BY DEF UsersAreCounted
  <2>1. Users(a) = Needed(heap, UseBy(held, bound), a)
    BY DEF Users, Needed, UseBy, TexOf
  <2> QED BY <2>1 DEF ObjInv, Counted, CountedAt, Covered
<1>2. FreeBlocksUnused
  <2>1. heap \in Heaps /\ Parted(heap, {}) /\ heap.free \in [Keys -> Seq(Nat)]
    BY HeapFields DEF ObjInv, Good
  <2> SUFFICES ASSUME NEW a \in Addr
               PROVE  Cardinality({at \in Keys \X (1 .. Limit) :
                                       /\ at[2] \in DOMAIN heap.free[at[1]]
                                       /\ heap.free[at[1]][at[2]] = a})
                      + (Cardinality({o \in Alive(heap) : o = a})
                         + Cardinality({o \in Alive(heap) : heap.reg[o].data = a})) <= 1
    BY DEF FreeBlocksUnused
  <2> DEFINE L == {at \in Keys \X (1 .. Limit) :
                      /\ at[2] \in DOMAIN heap.free[at[1]]
                      /\ heap.free[at[1]][at[2]] = a}
             O == {o \in Alive(heap) : o = a}
             D == {o \in Alive(heap) : heap.reg[o].data = a}
  <2>2. \A k \in Keys : DOMAIN heap.free[k] = 1 .. Len(heap.free[k])
    BY <2>1
  <2>3. \A at \in L : /\ at[1] \in Keys /\ at[2] \in 1 .. Len(heap.free[at[1]])
                      /\ heap.free[at[1]][at[2]] = a /\ at = <<at[1], at[2]>>
    BY <2>2
  <2>4. \A o \in D : o \in Alive(heap) /\ heap.reg[o].kind # "tex" /\ heap.reg[o].data = a
    BY <2>1 DEF Parted, Addr
  <2>5. \A o \in O : o \in Alive(heap) /\ o = a
    OBVIOUS
  <2> HIDE DEF L, O, D
  <2>6. \A x, y \in L : x = y
    <3> SUFFICES ASSUME NEW x \in L, NEW y \in L PROVE x = y
      OBVIOUS
    <3>1. \A j, k \in Keys : \A i \in 1 .. Len(heap.free[j]), l \in 1 .. Len(heap.free[k]) :
             heap.free[j][i] = heap.free[k][l] => j = k /\ i = l
      BY <2>1 DEF Parted
    <3> DEFINE j == x[1]  k == y[1]  i == x[2]  l == y[2]
    <3>2. /\ j \in Keys /\ k \in Keys /\ i \in 1 .. Len(heap.free[j]) /\ l \in 1 .. Len(heap.free[k])
          /\ heap.free[j][i] = a /\ heap.free[k][l] = a
      BY <2>3
    <3> HIDE DEF j, k, i, l
    <3>3. j = k /\ i = l
      BY <3>1, <3>2
    <3>4. x[1] = y[1] /\ x[2] = y[2]
      BY <3>3 DEF j, k, i, l
    <3> QED BY <2>3, <3>4
  <2>7. \A x, y \in O : x = y
    BY <2>5
  <2>8. \A x, y \in D : x = y
    BY <2>1, <2>4 DEF Parted
  <2>9. L # {} => OnList(heap, a)
    BY <2>3 DEF OnList
  <2>10. D # {} => DataOf(heap, a)
    BY <2>4 DEF DataOf
  <2>11. O # {} => a \in Alive(heap)
    BY <2>5
  <2>12. /\ L # {} => O = {} /\ D = {}
         /\ D # {} => O = {}
    BY <2>1, <2>9, <2>10, <2>11 DEF Parted
  <2>13. /\ Cardinality(L) \in {0, 1} /\ (L = {} => Cardinality(L) = 0)
         /\ Cardinality(O) \in {0, 1} /\ (O = {} => Cardinality(O) = 0)
         /\ Cardinality(D) \in {0, 1} /\ (D = {} => Cardinality(D) = 0)
    BY <2>6, <2>7, <2>8, OneAtMost, Zenon
  <2>14. Cardinality(L) + (Cardinality(O) + Cardinality(D)) <= 1
    BY <2>12, <2>13
  <2> QED BY <2>14 DEF L, O, D
<1> QED BY <1>1, <1>2 DEF ObjectsAreKept

-----------------------------------------------------------------------------
\* One reference more, to an object in use, for the guest.
LEMMA ReferenceGiven ==
    ASSUME ObjInv, NEW a \in Addr, heap' = AddRef(heap, a), Given(a),
           "GetRenderTarget" \notin objProgram => a \in Alive(heap),
           UNCHANGED <<bound, target, extent, objProgram>>
    PROVE  ObjInv'
<1>1. held \in Uses /\ bound \in Bindings /\ Good(heap, {}) /\ a \in Nat
  BY DEF ObjInv, Addr
<1>2. held' \in Uses /\ UseBy(held', bound) = More(UseBy(held, bound), a) /\ UseBy(held, bound) \in Uses
  BY <1>1, UseGiven, UseIs DEF Given
<1>3. Good(heap', {})
  BY <1>1, Referenced
<1>4. ASSUME "GetRenderTarget" \notin objProgram PROVE Counted(heap', UseBy(held', bound))
  BY <1>1, <1>2, <1>4, CountedReferenced DEF ObjInv
<1> QED BY <1>2, <1>3, <1>4 DEF ObjInv

\* The Create calls.
LEMMA ObjectCreated ==
    ASSUME ObjInv, NEW r, Creation(heap, r), Created(r)
    PROVE  ObjInv'
<1>1. held \in Uses /\ bound \in Bindings /\ Good(heap, {}) /\ UseBy(held, bound) \in Uses
  BY UseIs DEF ObjInv
<1>2. heap' = r.h /\ UNCHANGED <<bound, target, extent, objProgram>>
  BY DEF Created, NotRead
<1>3. Good(heap', {})
  BY <1>2 DEF Creation
<1>4. CASE r.ok
  <2>1. PICK o \in 1 .. Limit : r.made = <<o>>
    BY <1>4 DEF Creation
  <2>2. Last(r.made) = o /\ o \in Addr
    BY <2>1 DEF Last, Addr
  <2>3. held' = [held EXCEPT ![o] = @ + 1]
    BY <1>4, <2>2 DEF Created, Given
  <2>4. held' \in Uses /\ UseBy(held', bound) = More(UseBy(held, bound), o)
    BY <1>1, <2>2, <2>3, UseGiven
  <2>5. ASSUME "GetRenderTarget" \notin objProgram PROVE Counted(heap', UseBy(held', bound))
    BY <1>1, <1>2, <1>4, <2>2, <2>4, <2>5, CountedCreated DEF ObjInv
  <2> QED BY <1>2, <1>3, <2>4, <2>5 DEF ObjInv
<1>5. CASE ~ r.ok
  <2>1. held' = held
    BY <1>5 DEF Created
  <2>2. ASSUME "GetRenderTarget" \notin objProgram PROVE Counted(heap', UseBy(held, bound))
    BY <1>1, <1>2, <1>5, <2>2, CountedCreated DEF ObjInv
  <2> QED BY <1>2, <1>3, <2>1, <2>2 DEF ObjInv
<1> QED BY <1>4, <1>5

\* The guest gives a reference back; the last one frees the object.
LEMMA ReleaseKeeps ==
    ASSUME ObjInv, NEW a \in Addr, Release(a)
    PROVE  ObjInv'
<1>1. held \in Uses /\ bound \in Bindings /\ Good(heap, {}) /\ a \in Nat /\ UseBy(held, bound) \in Uses
  BY UseIs DEF ObjInv, Addr
<1>2. /\ held[a] > 0 /\ heap' = DecRef(heap, a) /\ held' = [held EXCEPT ![a] = @ - 1]
      /\ UNCHANGED <<bound, target, extent, objProgram>>
  BY DEF Release, NotRead
<1>3. held' \in Uses /\ UseBy(held', bound) = Fewer(UseBy(held, bound), a)
  BY <1>1, <1>2, UseGiven
<1>4. Good(heap', {})
  BY <1>1, <1>2, Released
<1>5. ASSUME "GetRenderTarget" \notin objProgram PROVE Counted(heap', UseBy(held', bound))
  <2>1. UseBy(held, bound)[a] >= 1
    <3>1. UseBy(held, bound)[a] >= held[a] /\ held[a] \in Nat /\ UseBy(held, bound)[a] \in Nat
      BY <1>1, UseIs DEF Uses
    <3> QED BY <1>2, <3>1
  <2> QED BY <1>1, <1>2, <1>3, <1>5, <2>1, CountedReleased DEF ObjInv
<1> QED BY <1>2, <1>3, <1>4, <1>5 DEF ObjInv

\* The guest is given a level, which has a reference of the texture already.
LEMMA LevelKeeps ==
    ASSUME ObjInv, NEW a \in Addr, NEW level \in Levels, GetSurfaceLevel(a, level)
    PROVE  ObjInv'
<1> DEFINE mips == heap.reg[a].mips
           m == mips[level]
<1>1. /\ a \in Alive(heap) /\ UNCHANGED <<bound, target, extent, objProgram>>
      /\ IF level > Len(mips) THEN UNCHANGED <<heap, held>>
         ELSE heap' = AddRef(heap, m) /\ Given(m)
  BY DEF GetSurfaceLevel, Owned, NotRead
<1>2. Good(heap, {}) /\ held \in Uses /\ bound \in Bindings /\ UseBy(held, bound) \in Uses
  BY UseIs DEF ObjInv
<1>3. /\ mips \in Seq(Nat) /\ DOMAIN mips = 1 .. Len(mips)
      /\ \A i \in 1 .. Len(mips) : mips[i] \in Addr
  BY <1>1, <1>2, MipsIndexed
<1>4. CASE level > Len(mips)
  BY <1>1, <1>4 DEF ObjInv
<1>5. CASE ~ (level > Len(mips))
  <2>1. level \in DOMAIN mips
    <3>1. level \in Nat \ {0}
      BY D3DObjectsAssumption
    <3> HIDE DEF mips
    <3> QED BY <1>3, <1>5, <3>1
  <2>2. m \in Addr /\ a \in TexOf(heap, m)
    BY <1>1, <1>3, <2>1 DEF TexOf
  <2> HIDE DEF m
  <2>3. ASSUME "GetRenderTarget" \notin objProgram PROVE m \in Alive(heap)
    <3>1. Needed(heap, UseBy(held, bound), m) > 0
      BY <1>2, <2>2, UnusedIs
    <3> QED BY <2>2, <2>3, <3>1 DEF ObjInv, Counted, CountedAt
  <2>4. heap' = AddRef(heap, m) /\ Given(m)
    BY <1>1, <1>5 DEF m
  <2> QED BY <1>1, <2>2, <2>3, <2>4, ReferenceGiven
<1> QED BY <1>4, <1>5

\* A stage takes a reference of its texture and gives back that of the one before.
LEMMA SetTextureKeeps ==
    ASSUME ObjInv, NEW s \in Stage, NEW a \in Addr \cup {0}, SetTexture(s, a)
    PROVE  ObjInv'
<1>1. held \in Uses /\ bound \in Bindings /\ Good(heap, {})
  BY DEF ObjInv
<1>2. /\ a # 0 => held[a] > 0 /\ a \in Alive(heap)
      /\ heap' = Rebound(heap, bound[s], a) /\ bound' = [bound EXCEPT ![s] = a]
      /\ UNCHANGED <<target, held, extent, objProgram>>
  BY DEF SetTexture, Owned, NotRead
<1>3. /\ bound' \in Bindings /\ Good(heap', {})
      /\ Counted(heap, UseBy(held, bound)) => Counted(heap', UseBy(held, bound'))
  BY <1>1, <1>2, ReboundCounted
<1> QED BY <1>2, <1>3 DEF ObjInv

\* The guest is given the texture of a stage, in use by the stage.
LEMMA GetTextureKeeps ==
    ASSUME ObjInv, NEW s \in Stage, GetTexture(s)
    PROVE  ObjInv'
<1> DEFINE a == bound[s]
<1>1. /\ a # 0 /\ heap' = AddRef(heap, a) /\ Given(a)
      /\ UNCHANGED <<bound, target, extent, objProgram>>
  BY DEF GetTexture, NotRead
<1>2. Good(heap, {}) /\ held \in Uses /\ bound \in Bindings /\ UseBy(held, bound) \in Uses
  BY UseIs DEF ObjInv
<1>3. a \in Addr /\ UseBy(held, bound)[a] >= 1
  BY <1>1, <1>2, UseIs
<1> HIDE DEF a
<1>4. ASSUME "GetRenderTarget" \notin objProgram PROVE a \in Alive(heap)
  <2>1. Needed(heap, UseBy(held, bound), a) > 0
    <3>1. UseBy(held, bound)[a] # 0 /\ Needed(heap, UseBy(held, bound), a) \in Nat
      BY <1>2, <1>3, UnusedIs
    <3> QED BY <1>2, <1>3, <3>1, UnusedIs
  <2> QED BY <1>3, <1>4, <2>1 DEF ObjInv, Counted, CountedAt
<1> QED BY <1>1, <1>3, <1>4, ReferenceGiven

\* The guest is given the back buffer, made on the first call.
LEMMA BackBufferKeeps ==
    ASSUME ObjInv, GetBackBuffer
    PROVE  ObjInv'
<1> DEFINE a == target["back"]
           r == AllocObject(Start(heap), "surf", extent)
           o == Last(r.made)
<1>1. /\ UNCHANGED <<bound, extent, objProgram>>
      /\ IF a # 0 /\ a \in Alive(heap)
         THEN heap' = AddRef(heap, a) /\ Given(a) /\ UNCHANGED target
         ELSE IF r.ok
         THEN heap' = WithCount(r.h, o, 2) /\ Given(o) /\ target' = [target EXCEPT !["back"] = o]
         ELSE heap' = r.h /\ UNCHANGED <<target, held>>
  BY DEF GetBackBuffer, NotRead
<1>2. /\ Good(heap, {}) /\ held \in Uses /\ bound \in Bindings /\ UseBy(held, bound) \in Uses
      /\ extent \in Sizes /\ target \in [{"back", "depth"} -> Addr \cup {0}] /\ a \in Addr \cup {0}
  BY UseIs DEF ObjInv
<1>3. Creation(heap, r)
  BY <1>2, LeafCreated
<1> HIDE DEF a, r, o
<1>4. CASE a # 0 /\ a \in Alive(heap)
  <2>1. a \in Addr /\ heap' = AddRef(heap, a) /\ Given(a) /\ UNCHANGED target
    BY <1>1, <1>2, <1>4
  <2> QED BY <1>1, <1>4, <2>1, ReferenceGiven
<1>5. CASE ~ (a # 0 /\ a \in Alive(heap)) /\ r.ok
  <2>1. heap' = WithCount(r.h, o, 2) /\ Given(o) /\ target' = [target EXCEPT !["back"] = o]
    BY <1>1, <1>5
  <2>2. /\ o \in Addr /\ Good(heap', {})
        /\ \A U \in Uses : Counted(heap, U) => Counted(heap', More(U, o))
    <3>1. 2 \in Nat \ {0}
      OBVIOUS
    <3> QED BY <1>2, <1>3, <1>5, <2>1, <3>1, TargetCreated DEF o
  <2>3. held' \in Uses /\ UseBy(held', bound) = More(UseBy(held, bound), o)
    BY <1>2, <2>1, <2>2, UseGiven DEF Given
  <2>4. target' \in [{"back", "depth"} -> Addr \cup {0}]
    BY <1>2, <2>1, <2>2
  <2>5. "GetRenderTarget" \notin objProgram => Counted(heap', UseBy(held', bound))
    BY <1>2, <2>2, <2>3 DEF ObjInv
  <2> QED BY <1>1, <1>2, <2>2, <2>3, <2>4, <2>5 DEF ObjInv
<1>6. CASE ~ (a # 0 /\ a \in Alive(heap)) /\ ~ r.ok
  <2>1. heap' = r.h /\ UNCHANGED <<target, held>>
    BY <1>1, <1>6
  <2>2. Good(heap', {})
    BY <1>3, <2>1 DEF Creation
  <2>3. "GetRenderTarget" \notin objProgram => Counted(heap', UseBy(held, bound))
    BY <1>2, <1>3, <1>6, <2>1, CountedCreated DEF ObjInv
  <2> QED BY <1>1, <1>2, <2>1, <2>2, <2>3 DEF ObjInv
<1> QED BY <1>4, <1>5, <1>6

\* GetRenderTarget and GetDepthStencilSurface, which may return what was freed: the
\* heap stays good, counts are not claimed.
LEMMA TargetKeeps ==
    ASSUME ObjInv, NEW t \in {"back", "depth"}, GetTarget(t)
    PROVE  ObjInv'
<1> DEFINE a == target[t]
           r == AllocObject(Start(heap), "surf", extent)
           o == Last(r.made)
<1>1. /\ UNCHANGED <<bound, extent, objProgram>> /\ "GetRenderTarget" \in objProgram
      /\ IF a # 0
         THEN heap' = AddRef(heap, a) /\ Given(a) /\ UNCHANGED target
         ELSE IF r.ok
         THEN heap' = r.h /\ Given(o) /\ target' = [target EXCEPT ![t] = o]
         ELSE heap' = r.h /\ UNCHANGED <<target, held>>
  BY DEF GetTarget, NotRead, Calls
<1>2. /\ Good(heap, {}) /\ held \in Uses /\ bound \in Bindings
      /\ extent \in Sizes /\ target \in [{"back", "depth"} -> Addr \cup {0}] /\ a \in Addr \cup {0}
  BY DEF ObjInv
<1>3. Creation(heap, r)
  BY <1>2, LeafCreated
<1> HIDE DEF a, r, o
<1>4. CASE a # 0
  <2>1. a \in Addr /\ heap' = AddRef(heap, a) /\ Given(a) /\ UNCHANGED target
    BY <1>1, <1>2, <1>4
  <2> QED BY <1>1, <2>1, ReferenceGiven
<1>5. CASE a = 0 /\ r.ok
  <2>1. heap' = r.h /\ Given(o) /\ target' = [target EXCEPT ![t] = o] /\ Good(heap', {})
    BY <1>1, <1>3, <1>5 DEF Creation
  <2>2. o \in Addr
    <3>1. PICK p \in 1 .. Limit : r.made = <<p>>
      BY <1>3, <1>5 DEF Creation
    <3> QED BY <3>1 DEF Last, Addr, o
  <2>3. held' \in Uses
    BY <1>2, <2>1, <2>2, UseGiven DEF Given
  <2>4. target' \in [{"back", "depth"} -> Addr \cup {0}]
    BY <1>2, <2>1, <2>2
  <2> QED BY <1>1, <1>2, <2>1, <2>3, <2>4 DEF ObjInv
<1>6. CASE a = 0 /\ ~ r.ok
  <2>1. heap' = r.h /\ UNCHANGED <<target, held>> /\ Good(heap', {})
    BY <1>1, <1>3, <1>6 DEF Creation
  <2> QED BY <1>1, <1>2, <2>1 DEF ObjInv
<1> QED BY <1>4, <1>5, <1>6

\* Every step keeps the invariant.
LEMMA ObjStep ==
    ASSUME ObjInv, [ObjNext]_objVars
    PROVE  ObjInv'
<1>1. Good(heap, {}) /\ extent \in Sizes
  BY DEF ObjInv
<1>2. CASE CreateBuffer
  <2>1. PICK size \in Sizes : Created(AllocObject(Start(heap), "res", size))
    BY <1>2 DEF CreateBuffer
  <2>2. Creation(heap, AllocObject(Start(heap), "res", size))
    BY <1>1, LeafCreated
  <2> QED BY <2>1, <2>2, ObjectCreated
<1>3. CASE CreateSurface
  <2>1. PICK size \in Sizes : Created(AllocObject(Start(heap), "surf", size))
    BY <1>3 DEF CreateSurface
  <2>2. Creation(heap, AllocObject(Start(heap), "surf", size))
    BY <1>1, LeafCreated
  <2> QED BY <2>1, <2>2, ObjectCreated
<1>4. CASE CreateTexture
  <2>1. PICK size \in Sizes, n \in Levels : Created(AllocTexture(heap, size, n))
    BY <1>4 DEF CreateTexture
  <2>2. Creation(heap, AllocTexture(heap, size, n))
    BY <1>1, TextureCreated
  <2> QED BY <2>1, <2>2, ObjectCreated
<1>5. ASSUME NEW a \in Addr, AddRefCall(a) PROVE ObjInv'
  <2>1. /\ a \in Alive(heap) /\ heap' = AddRef(heap, a) /\ Given(a)
        /\ UNCHANGED <<bound, target, extent, objProgram>>
    BY <1>5 DEF AddRefCall, Owned, NotRead
  <2> QED BY <2>1, ReferenceGiven
<1>6. ASSUME NEW a \in Addr, Release(a) PROVE ObjInv'
  BY <1>6, ReleaseKeeps
<1>7. ASSUME NEW a \in Addr, NEW level \in Levels, GetSurfaceLevel(a, level) PROVE ObjInv'
  BY <1>7, LevelKeeps
<1>8. ASSUME NEW s \in Stage, NEW a \in Addr \cup {0}, SetTexture(s, a) PROVE ObjInv'
  BY <1>8, SetTextureKeeps
<1>9. ASSUME NEW s \in Stage, GetTexture(s) PROVE ObjInv'
  BY <1>9, GetTextureKeeps
<1>10. ASSUME NEW a \in Addr \cup {0}, SetStreamSource(a) PROVE ObjInv'
  BY <1>10 DEF SetStreamSource, NotRead, ObjInv
<1>11. CASE GetBackBuffer
  BY <1>11, BackBufferKeeps
<1>12. ASSUME NEW t \in {"back", "depth"}, GetTarget(t) PROVE ObjInv'
  BY <1>12, TargetKeeps
<1>13. CASE ResetTargets
  <2>1. /\ extent' \in Sizes /\ target' = [t \in {"back", "depth"} |-> 0]
        /\ UNCHANGED <<heap, bound, held, objProgram>>
    BY <1>13 DEF ResetTargets
  <2>2. target' \in [{"back", "depth"} -> Addr \cup {0}]
    BY <2>1
  <2> QED BY <2>1, <2>2 DEF ObjInv
<1>14. CASE UNCHANGED objVars
  BY <1>14 DEF objVars, ObjInv
<1> QED BY <1>2, <1>3, <1>4, <1>5, <1>6, <1>7, <1>8, <1>9, <1>10, <1>11, <1>12, <1>13, <1>14 DEF ObjNext

\* Whatever the guest makes, binds and releases, for any heap, sizes, levels and
\* stages: an object in use is alive and its count covers all of its users (alloc
\* registry and reference counts of d3d8/_memory.py), and no block is on two free
\* lists, or on one while its owner lives (ObjectsAreKept).
THEOREM ObjectsKept == ObjSpec => []ObjectsAreKept
<1>1. ObjInit => ObjInv
  BY ObjStart
<1>2. ObjInv /\ [ObjNext]_objVars => ObjInv'
  BY ObjStep
<1>3. ObjInv => ObjectsAreKept
  BY ObjectsAre
<1> QED BY <1>1, <1>2, <1>3, PTL DEF ObjSpec
=============================================================================
