------------------------------- MODULE Profiles -------------------------------
(* Private profiles (.ini files). Every write reads the whole file, changes  *)
(* one entry and writes the whole file back; a file that cannot be read      *)
(* counts as an empty one. Lines that are no entry of a section are lost by  *)
(* the first write, and a key that looks like a comment by the second.       *)
EXTENDS Integers, FiniteSets, Functions, TLC

CONSTANTS
    Section, IniKey, IniValue,
    CommentKey     \* keys that start with ; or #

VARIABLES
    ini,        \* the file: section -> key -> value
    lastWrite   \* of the last call: [section, key, read, ok]; key WholeSection: all of it

iniVars == <<ini, lastWrite>>

WholeSection == "*"
NoSection == <<>>

IniInit ==
    /\ ini \in [Section -> {NoSection} \cup {k :> v : k \in IniKey \ CommentKey, v \in IniValue}]
    /\ lastWrite = [section |-> CHOOSE s \in Section : TRUE, key |-> WholeSection, read |-> TRUE, ok |-> FALSE]

(* A dictionary with one item set. *)
Put(f, x, y) == [z \in DOMAIN f \cup {x} |-> IF z = x THEN y ELSE f[z]]

(* parse_ini of the file *)
ParseIni(content) == [s \in DOMAIN content |-> Restrict(content[s], DOMAIN content[s] \ CommentKey)]

(* _read_ini_from_disk: an error is an empty file. *)
ReadIni(ok) == IF ok THEN ParseIni(ini) ELSE <<>>
SectionOf(content, s) == IF s \in DOMAIN content THEN content[s] ELSE NoSection

(* _write_ini_to_disk: it may fail before the file is truncated, or after.   *)
WriteIni(content, s, k, read) ==
    \/ ini' = content
       /\ lastWrite' = [section |-> s, key |-> k, read |-> read, ok |-> TRUE]
    \/ UNCHANGED ini
       /\ lastWrite' = [section |-> s, key |-> k, read |-> read, ok |-> FALSE]
    \/ ini' = <<>>
       /\ lastWrite' = [section |-> s, key |-> k, read |-> read, ok |-> FALSE]

(* Mutant: the section is written with the new entry only. *)
WithEntry_Alone(content, s, k, v) == Put(content, s, Put(NoSection, k, v))

WithEntry(content, s, k, v) == Put(content, s, Put(SectionOf(content, s), k, v))

WithoutEntry(content, s, k) ==
    IF s \in DOMAIN content
    THEN [content EXCEPT ![s] = Restrict(@, DOMAIN @ \ {k})] ELSE content

(* WritePrivateProfileString, its three modes *)
WriteString(s, k, v) == \E read \in BOOLEAN : WriteIni(WithEntry(ReadIni(read), s, k, v), s, k, read)
DeleteEntry(s, k) == \E read \in BOOLEAN : WriteIni(WithoutEntry(ReadIni(read), s, k), s, k, read)
DeleteSection(s) ==
    \E read \in BOOLEAN :
        LET content == ReadIni(read)
        IN WriteIni(Restrict(content, DOMAIN content \ {s}), s, WholeSection, read)

(* WritePrivateProfileSection *)
WriteSection(s, pairs) ==
    \E read \in BOOLEAN : WriteIni(Put(ReadIni(read), s, pairs), s, WholeSection, read)

IniNext ==
    \E s \in Section :
        \/ \E k \in IniKey : DeleteEntry(s, k) \/ \E v \in IniValue : WriteString(s, k, v)
        \/ DeleteSection(s)
        \/ \E k \in IniKey, v \in IniValue : WriteSection(s, k :> v)

IniSpec == IniInit /\ [][IniNext]_iniVars

(* read_profile_string *)
ReadProfile(content, s, k, default) ==
    LET keys == SectionOf(ParseIni(content), s) IN IF k \in DOMAIN keys THEN keys[k] ELSE default

---------------------------------------------------------------------------
(* A write that could read the file and did not fail changes what is read    *)
(* for the entry, or the section, it names, and for no other.                *)
OtherEntriesKept ==
    [][lastWrite'.read /\ lastWrite'.ok =>
          \A s \in Section, k \in IniKey \ CommentKey :
              lastWrite'.section # s \/ lastWrite'.key \notin {k, WholeSection} =>
                  ReadProfile(ini', s, k, WholeSection) = ReadProfile(ini, s, k, WholeSection)]_iniVars
=============================================================================
