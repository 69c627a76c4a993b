------------------------------ MODULE Settings ------------------------------
(***************************************************************************)
(* The settings file: ReadDesktopSettings, WriteDesktopSettings, the       *)
(* self-heal of a file that does not parse and the replacement by a        *)
(* temporary file.  Of the settings only enableTLS is kept: "on" and "off" *)
(* are files that parse, "bad" is one that does not, "empty" is the file   *)
(* ensureConfigFile creates, "none" is no file.  Each operation is the set *)
(* of what it may leave behind, one member per error path.                 *)
(***************************************************************************)
EXTENDS Naturals

CONSTANT Faults   \* the failures of the environment a run allows

ASSUME FaultsAssumption == Faults \subseteq {"rename", "refused", "overlap"}

Chosen == {"on", "off"}

\* A configuration is a record: the file, the tmp file a failed replacement
\* keeps, the old file it moved away, the backup of a file that did not parse

Exists(c) == IF c.file = "none" THEN [c EXCEPT !.file = "empty"] ELSE c

\* enableTLS defaults to true
Tls(c) == c.file # "off"

Result(c, ok) == [conf |-> c, ok |-> ok]

\* BackupCorruptConfigFile: moved away; or, when it cannot be renamed, copied
\* and truncated, each step of which may fail and leaves the original alone
Healed(c) ==
  {Result([c EXCEPT !.file = "empty", !.backup = c.file], TRUE),
   Result(c, FALSE), Result([c EXCEPT !.backup = c.file], FALSE)}

\* ensureConfigFile and ReadInConfig, with the self-heal
Readings(c) == IF Exists(c).file = "bad" THEN Healed(c) ELSE {Result(Exists(c), TRUE)}

\* mutant: the file is removed before its replacement is in place
MovedOver(c, v) == [c EXCEPT !.tmp = v, !.file = "none"]

Moved(c, v) == [c EXCEPT !.old = c.file, !.tmp = v, !.file = "none"]

\* AtomicWriteConfigFile: the rename, or the detour by a .old file, which puts
\* the previous file back when the second rename fails too (and may fail there)
Replaced(c, v) ==
  {Result([c EXCEPT !.file = v], TRUE)} \cup
  IF "rename" \in Faults
  THEN {Result([c EXCEPT !.tmp = v], FALSE), Result(Moved(c, v), FALSE)}
  ELSE {}

\* WriteDesktopSettings: an output directory that cannot be made refuses it
Writings(c, v) ==
  (UNION {IF r.ok THEN Replaced(r.conf, v) ELSE {r} : r \in Readings(c)}) \cup
  IF "refused" \in Faults THEN {Result(c, FALSE)} ELSE {}

\* what a crash in the middle of a write leaves: a partial temporary file, a
\* complete one, or the gap between the two renames
Interrupted(c, v) ==
  {[Exists(c) EXCEPT !.tmp = "bad"], [Exists(c) EXCEPT !.tmp = v], Moved(Exists(c), v)}
=============================================================================
