------------------------------ MODULE FindFiles ------------------------------
(* FindFirstFileA, FindNextFileA and FindClose of kernel32_io: the names that *)
(* match are listed once, when the search begins, and handed out one by one,  *)
(* while the guest creates and deletes files of the directory. Names are     *)
(* numbers.                                                                  *)
EXTENDS Naturals, FiniteSets, SequencesExt, Selection

CONSTANTS
    Alphabet,      \* names of files and directories, in the order of key=str.lower
    Pattern,       \* what a search may match, sets of names
    MaxSearches    \* bound: searches begun

FileName == ToSet(Alphabet)

ASSUME FindAssumption ==
    /\ Alphabet \in Seq(Nat \ {0}) /\ IsInjective(Alphabet)
    /\ Pattern \subseteq SUBSET FileName /\ MaxSearches \in Nat

VARIABLES
    listed,              \* the names in the directory, or NoDirectory
    find_handle_map,  \* handle -> the names listed
    find_handle_idx,  \* handle -> how far the search is
    next_find_handle,
    given,            \* handle -> what the search has handed out
    lasting           \* handle -> the names that matched and were there ever since

searches == <<find_handle_map, find_handle_idx, next_find_handle>>
findVars == <<listed, searches, given, lasting>>

NoDirectory == {0}
FirstFindHandle == 1

FindInit ==
    /\ listed \in (SUBSET FileName) \cup {NoDirectory}
    /\ find_handle_map = <<>> /\ find_handle_idx = <<>> /\ next_find_handle = FirstFindHandle
    /\ given = <<>> /\ lasting = <<>>

Searches == DOMAIN find_handle_map

With(fn, h, v) == [x \in DOMAIN fn \cup {h} |-> IF x = h THEN v ELSE fn[x]]
Less(fn, h)    == [x \in DOMAIN fn \ {h} |-> fn[x]]

(* sorted(os.listdir(...)), of which the comprehension keeps what matches. *)
Listing(pattern) == Kept(Alphabet, listed \cap pattern)

(* A search that matches nothing, or in no directory, has no handle.         *)
FindFirstFile(pattern) ==
    LET h == next_find_handle
    IN  /\ h < FirstFindHandle + MaxSearches
        /\ IF listed = NoDirectory \/ Listing(pattern) = <<>>
           THEN UNCHANGED <<searches, given, lasting>>
           ELSE /\ next_find_handle' = h + 1
                /\ find_handle_map' = With(find_handle_map, h, Listing(pattern))
                /\ find_handle_idx' = With(find_handle_idx, h, 0)
                /\ given' = With(given, h, <<Listing(pattern)[1]>>)
                /\ lasting' = With(lasting, h, listed \cap pattern)
        /\ UNCHANGED listed

(* Mutant: the directory is listed anew. *)
Names_Relisted(h) == Listing(ToSet(find_handle_map[h]))

(* The names FindNextFileA indexes. *)
Names(h) == find_handle_map[h]

(* Past the end it answers FALSE, again and again.                           *)
FindNextFile(h) ==
    LET idx == find_handle_idx[h] + 1
    IN  /\ idx <= Len(find_handle_map[h])
        /\ find_handle_idx' = [find_handle_idx EXCEPT ![h] = idx]
        /\ given' = IF idx < Len(Names(h)) THEN [given EXCEPT ![h] = Append(@, Names(h)[idx + 1])] ELSE given
        /\ UNCHANGED <<listed, find_handle_map, next_find_handle, lasting>>

FindClose(h) ==
    /\ find_handle_map' = Less(find_handle_map, h)
    /\ find_handle_idx' = Less(find_handle_idx, h)
    /\ given' = Less(given, h) /\ lasting' = Less(lasting, h)
    /\ UNCHANGED <<listed, next_find_handle>>

(* CreateFileA and DeleteFileA, or the host.                                 *)
FileAppears(n) ==
    /\ listed # NoDirectory
    /\ listed' = listed \cup {n}
    /\ UNCHANGED <<searches, given, lasting>>

FileGoes(n) ==
    /\ listed # NoDirectory
    /\ listed' = listed \ {n}
    /\ lasting' = [h \in Searches |-> lasting[h] \ {n}]
    /\ UNCHANGED <<searches, given>>

FindNext ==
    \/ \E p \in Pattern : FindFirstFile(p)
    \/ \E h \in Searches : FindNextFile(h) \/ FindClose(h)
    \/ \E n \in FileName : FileAppears(n) \/ FileGoes(n)

FindSpec == FindInit /\ [][FindNext]_findVars

-----------------------------------------------------------------------------
SearchEnded(h) == find_handle_idx[h] >= Len(find_handle_map[h])

(* A guest that deletes or creates files as it goes through a directory, with *)
(* several searches at once, sees no name twice, and by the time the search   *)
(* ends it has seen each that was there all the while (the loop over          *)
(* FindNextFileA that empties a directory).                                   *)
SearchIsComplete ==
    \A h \in Searches :
        /\ IsInjective(given[h])
        /\ SearchEnded(h) => lasting[h] \subseteq ToSet(given[h])
=============================================================================
