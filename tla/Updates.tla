------------------------------- MODULE Updates ------------------------------
(***************************************************************************)
(* The program replaces itself: the check for a newer version, the         *)
(* download of the package and its signature, the installation on request  *)
(* or at the next start, the rollback of a version that did not stay up,   *)
(* and the page and the background agent that drive them.  An executable   *)
(* or a package is the number of its version, None when there is no file   *)
(* and Torn when it was written in part.                                   *)
(***************************************************************************)
EXTENDS Naturals

CONSTANTS MaxVersion,  \* versions ever published
          Broken,      \* the versions that do not stay up for five seconds
          Programs,    \* "gui": the desktop program, "agent": the background agent
          Systems,     \* subset of BOOLEAN: whether it is Windows
          Faults,      \* "disk": a write fails; "spawn": a process does not start;
                       \* "locked": a rename or a removal is refused; "hurry": a
                       \* download reaches the disk in the half second before an
                       \* installation that the page allowed
          Crashes

Whole == 1..MaxVersion
None == 0
Torn == MaxVersion + 1

ASSUME UpdatesAssumption == /\ MaxVersion \in Nat \ {0} /\ Broken \subseteq Whole
                            /\ Programs \subseteq {"gui", "agent"} /\ Systems \subseteq BOOLEAN
                            /\ Faults \subseteq {"disk", "spawn", "locked", "hurry"} /\ Crashes \in Nat

VARIABLES program, windows,
          exe, old, new,      \* the executable, exe.old (Windows) and exe.new (POSIX)
          pkg, sig, meta,     \* the pending package, its signature, update.json
          lsv,                \* LastSuccessfulVersion of the settings
          mode,               \* AutoUpdateMode
          proc,               \* the running process: pc, compiled version, EQT_AFTER_UPDATE,
                              \* and whether its own file is exe.old now
          swap,               \* ApplyOfflineUpdateIfExists or InstallAndRestart under way
          load,               \* DownloadUpdateWithVersion under way
          stage, got, offer,  \* the page: updateStage, downloadedVersion, updateCheckRes
          latest, good, crashes

files == <<exe, old, new>>
cache == <<pkg, sig, meta>>
page == <<stage, got, offer>>
world == <<program, windows, latest>>
vars == <<world, files, cache, lsv, mode, proc, swap, load, page, good, crashes>>

Fails(f) == f \in Faults
Stopped == [pc |-> "off", ver |-> None, fresh |-> FALSE, moved |-> FALSE]
NoSwap == [pc |-> "off", data |-> None]
NoLoad == [pc |-> "off", ver |-> None]

UpdatesInit ==
  /\ program \in Programs /\ windows \in Systems
  /\ exe = 1 /\ old = None /\ new = None
  /\ pkg = None /\ sig = None /\ meta = None
  /\ lsv \in {None, 1} /\ good = {1}
  /\ mode \in {"silent", "download", "off"}
  /\ proc = Stopped /\ swap = NoSwap /\ load = NoLoad
  /\ stage = "idle" /\ got = None /\ offer = None
  /\ latest = 1 /\ crashes = 0

Running == proc.pc \in {"young", "saved", "up"}
OnPage == program = "gui" /\ Running
At(pc) == proc.pc = pc
Go(pc) == proc' = [proc EXCEPT !.pc = pc]
Swap(pc) == swap' = [swap EXCEPT !.pc = pc]

\* VerifyUpdateSignature over the files as they are
Verified == pkg \in Whole /\ sig = pkg
\* the three removals; Windows refuses to remove a file that is being written
NoCache == /\ pkg' = IF windows /\ load.pc = "pkg" THEN pkg ELSE None
           /\ sig' = None /\ meta' = None

\* a process of the image on disk; the one before it has gone, its threads too
Spawned(image, fresh) ==
  /\ proc' = [pc |-> IF program = "gui" THEN "begin" ELSE "up", ver |-> image, fresh |-> fresh,
              moved |-> FALSE]
  /\ swap' = NoSwap /\ load' = NoLoad /\ stage' = "loading" /\ got' = None /\ offer' = None

Start ==
  /\ At("off") /\ exe \in Whole
  /\ Spawned(exe, FALSE)
  /\ UNCHANGED <<world, files, cache, lsv, mode, good, crashes>>

\* mutant: the version that runs is not compared with the last successful one
DisasterAnyVersion == old # None /\ lsv # None /\ ~proc.fresh

\* the version a rollback would replace did not reach the five seconds
Disaster == old # None /\ lsv \notin {None, proc.ver} /\ ~proc.fresh
\* checkAndPerformDisasterRollback: a check, and two renames
Begin ==
  /\ At("begin")
  /\ Go(IF Disaster THEN "back" ELSE "main")
  /\ UNCHANGED <<world, files, cache, lsv, mode, swap, load, page, good, crashes>>

SetAside ==
  /\ At("back")
  /\ exe' \in {None} \cup IF Fails("locked") THEN {exe} ELSE {}
  /\ Go("restore")
  /\ UNCHANGED <<world, old, new, cache, lsv, mode, swap, load, page, good, crashes>>

Restore ==
  /\ At("restore")
  /\ \/ exe' = old /\ old' = None /\ Spawned(old, FALSE)
     \/ exe' = old /\ old' = None /\ Fails("spawn") /\ Go("main") /\ UNCHANGED <<swap, load, page>>
     \/ Fails("locked") /\ Go("main") /\ UNCHANGED <<exe, old, swap, load, page>>
  /\ UNCHANGED <<world, new, cache, lsv, mode, good, crashes>>

\* ApplyOfflineUpdateIfExists up to the replacement
Main ==
  /\ At("main")
  /\ IF mode = "silent" /\ pkg # None /\ sig # None
     THEN IF Verified
          THEN Go("applying") /\ swap' = [pc |-> "begin", data |-> pkg] /\ UNCHANGED cache
          ELSE Go("young") /\ NoCache /\ UNCHANGED swap
     ELSE Go("young") /\ UNCHANGED <<cache, swap>>
  /\ UNCHANGED <<world, files, lsv, mode, load, page, good, crashes>>

\* a replacement that fails: the program starts, or the page says so; home says
\* whether the program's own file has its name again
GiveUp(cause, home) ==
  /\ swap' = NoSwap
  /\ proc' = [proc EXCEPT !.pc = IF @ = "applying" THEN "young" ELSE @, !.moved = @ /\ ~home]
  /\ stage' = IF ~OnPage THEN stage ELSE IF cause = "missing" THEN "available" ELSE "ready"
  /\ UNCHANGED <<got, offer>>

\* Windows: exe.old is removed, unless it runs; the executable takes its name
RemoveOld ==
  /\ swap.pc = "begin" /\ windows
  /\ old' \in (IF proc.moved THEN {} ELSE {None}) \cup
              (IF proc.moved \/ Fails("locked") THEN {old} ELSE {})
  /\ Swap("rename")
  /\ UNCHANGED <<world, exe, new, cache, lsv, mode, proc, load, page, good, crashes>>

RenameExe ==
  /\ swap.pc = "rename"
  /\ \/ /\ exe # None /\ ~proc.moved
        /\ old' = exe /\ exe' = None /\ Swap("write")
        /\ proc' = [proc EXCEPT !.moved = TRUE]
        /\ UNCHANGED page
     \/ /\ exe = None \/ proc.moved \/ Fails("locked")
        /\ GiveUp("other", FALSE)
        /\ UNCHANGED <<exe, old>>
  /\ UNCHANGED <<world, new, cache, lsv, mode, load, good, crashes>>

\* mutant: the new executable is written in place
WriteInPlace ==
  /\ swap.pc = "begin" /\ ~windows
  /\ exe' = Torn /\ Swap("written")
  /\ UNCHANGED <<world, old, new, cache, lsv, mode, proc, load, page, good, crashes>>

\* POSIX: the new executable is written beside the old one
WriteNew ==
  /\ swap.pc = "begin" /\ ~windows
  /\ new' = Torn /\ Swap("written")
  /\ UNCHANGED <<world, exe, old, cache, lsv, mode, proc, load, page, good, crashes>>

WriteExe ==
  /\ swap.pc = "write"
  /\ exe' = Torn /\ Swap("written")
  /\ UNCHANGED <<world, old, new, cache, lsv, mode, proc, load, page, good, crashes>>

\* the write ends, or fails and the previous executable is put back
Written ==
  /\ swap.pc = "written"
  /\ \/ /\ IF windows THEN exe' = swap.data /\ UNCHANGED new ELSE new' = swap.data /\ UNCHANGED exe
        /\ Swap("put")
        /\ UNCHANGED <<old, proc, page>>
     \/ /\ Fails("disk") /\ GiveUp("other", TRUE)
        /\ IF windows THEN exe' = old /\ old' = None ELSE UNCHANGED <<exe, old>>
        /\ UNCHANGED new
     \/ /\ windows /\ Fails("disk") /\ Fails("locked") /\ GiveUp("other", FALSE)
        /\ UNCHANGED files
  /\ UNCHANGED <<world, cache, lsv, mode, load, good, crashes>>

\* POSIX: the rename; then the package is removed
Put ==
  /\ swap.pc = "put"
  /\ \/ /\ Swap("spawn") /\ NoCache
        /\ IF windows THEN UNCHANGED <<exe, new>> ELSE exe' = new /\ new' = None
        /\ UNCHANGED <<proc, page>>
     \/ /\ ~windows /\ Fails("locked") /\ GiveUp("other", TRUE)
        /\ new' = None /\ UNCHANGED <<exe, cache>>
  /\ UNCHANGED <<world, old, lsv, mode, load, good, crashes>>

Spawn ==
  /\ swap.pc = "spawn"
  /\ \/ exe \in Whole /\ Spawned(exe, TRUE)
     \/ (exe = Torn \/ Fails("spawn")) /\ GiveUp("other", FALSE) /\ UNCHANGED load
  /\ UNCHANGED <<world, files, cache, lsv, mode, good, crashes>>

\* five seconds after the start the version is noted and exe.old removed
SaveVersion ==
  /\ program = "gui" /\ At("young") /\ proc.ver \notin Broken
  /\ Go("saved")
  /\ \/ lsv' = proc.ver /\ good' = good \cup {proc.ver}
     \/ Fails("disk") /\ UNCHANGED <<lsv, good>>
  /\ UNCHANGED <<world, files, cache, mode, swap, load, page, crashes>>

CleanLingering ==
  /\ At("saved")
  /\ Go("up")
  /\ old' \in (IF windows /\ ~proc.moved THEN {None} ELSE {old}) \cup
              (IF Fails("locked") THEN {old} ELSE {})
  /\ UNCHANGED <<world, exe, new, cache, lsv, mode, swap, load, page, good, crashes>>

\* a version that does not stay up; a program the user closes; the computer that stops
Down == proc' = Stopped /\ swap' = NoSwap /\ load' = NoLoad /\ stage' = "idle" /\ got' = None /\ offer' = None
Die == /\ At("young") /\ proc.ver \in Broken /\ Down
       /\ UNCHANGED <<world, files, cache, lsv, mode, good, crashes>>
Quit == /\ Running /\ swap = NoSwap /\ Down
        /\ UNCHANGED <<world, files, cache, lsv, mode, good, crashes>>
Crash == /\ ~At("off") /\ crashes < Crashes /\ crashes' = crashes + 1 /\ Down
         /\ UNCHANGED <<world, files, cache, lsv, mode, good>>

\* GetPendingOfflineUpdateInfo, once when the page has loaded
CheckPending ==
  /\ OnPage /\ stage = "loading"
  /\ IF pkg # None /\ sig # None /\ Verified
     THEN stage' = "ready" /\ got' = meta /\ UNCHANGED cache
     ELSE /\ stage' = "idle" /\ UNCHANGED got
          /\ IF pkg # None /\ sig # None THEN NoCache ELSE UNCHANGED cache
  /\ UNCHANGED <<world, files, lsv, mode, proc, swap, load, offer, good, crashes>>

IsNewerVersion(current, target) == target > current

\* DownloadUpdateWithVersion is called
Download(v) == load = NoLoad /\ stage' = "downloading" /\ load' = [pc |-> "fetch", ver |-> v]

\* runAutoUpdateCheck and runManualUpdateCheck; a busy agent postpones the download
CheckForUpdates ==
  /\ OnPage
  /\ stage = "idle" \/ (stage \in {"available", "ready"} /\ mode # "off")
  /\ offer' = latest
  /\ IF IsNewerVersion(proc.ver, latest)
     THEN \/ mode # "off" /\ ~(stage = "ready" /\ got = latest) /\ Download(latest)
          \/ stage' = (IF stage = "ready" THEN stage ELSE "available") /\ UNCHANGED load
     ELSE stage' = (IF stage = "ready" THEN stage ELSE "idle") /\ UNCHANGED load
  /\ UNCHANGED <<world, files, cache, lsv, mode, proc, swap, got, good, crashes>>

\* the button of an available version; one that was found on disk has no address
DownloadNow ==
  /\ OnPage /\ stage = "available" /\ offer # None
  /\ Download(offer)
  /\ UNCHANGED <<world, files, cache, lsv, mode, proc, swap, got, offer, good, crashes>>

NotLoaded == load' = NoLoad /\ stage' = (IF OnPage THEN "available" ELSE stage) /\ UNCHANGED <<got, offer>>

\* both files are fetched and verified in memory before the first is written
Fetch ==
  /\ load.pc = "fetch"
  /\ \/ NotLoaded /\ UNCHANGED pkg
     \/ /\ swap.pc # "sleep" \/ program = "agent" \/ Fails("hurry")
        /\ load' = [load EXCEPT !.pc = "pkg"] /\ pkg' = Torn
        /\ UNCHANGED page
  /\ UNCHANGED <<world, files, sig, meta, lsv, mode, proc, swap, good, crashes>>

SavePackage ==
  /\ load.pc = "pkg"
  /\ \/ /\ load' = [load EXCEPT !.pc = "sig"]
        /\ pkg' = IF pkg = Torn THEN load.ver ELSE pkg
        /\ UNCHANGED page
     \/ Fails("disk") /\ NotLoaded /\ UNCHANGED pkg
  /\ UNCHANGED <<world, files, sig, meta, lsv, mode, proc, swap, good, crashes>>

SaveSignature ==
  /\ load.pc = "sig"
  /\ \/ load' = [load EXCEPT !.pc = "meta"] /\ sig' = load.ver /\ UNCHANGED page
     \/ Fails("disk") /\ NotLoaded /\ sig' = Torn
  /\ UNCHANGED <<world, files, pkg, meta, lsv, mode, proc, swap, good, crashes>>

SaveMeta ==
  /\ load.pc = "meta"
  /\ meta' \in {load.ver} \cup IF Fails("disk") THEN {Torn} ELSE {}
  /\ load' = NoLoad
  /\ IF OnPage THEN stage' = "ready" /\ got' = load.ver /\ UNCHANGED offer ELSE UNCHANGED page
  /\ UNCHANGED <<world, files, pkg, sig, lsv, mode, proc, swap, good, crashes>>

\* the update mode; "off" forgets the pending package
SetMode ==
  /\ OnPage
  /\ \E m \in {"silent", "download", "off"} \ {mode} :
       /\ mode' = m
       /\ IF m = "off" THEN stage' = "idle" /\ NoCache ELSE UNCHANGED <<stage, cache>>
  /\ UNCHANGED <<world, files, lsv, proc, swap, load, got, offer, good, crashes>>

\* mutant: the package is looked for and not verified
InstallUnverified ==
  /\ OnPage /\ stage = "ready" /\ swap = NoSwap
  /\ IF pkg # None THEN stage' = "installing" /\ Swap("sleep")
                   ELSE stage' = "available" /\ UNCHANGED swap
  /\ UNCHANGED <<world, files, cache, lsv, mode, proc, load, got, offer, good, crashes>>

\* installUpdate with its preflight; the installation starts half a second later
InstallUpdate ==
  /\ OnPage /\ stage = "ready" /\ swap = NoSwap
  /\ IF Verified
     THEN stage' = "installing" /\ Swap("sleep") /\ UNCHANGED cache
     ELSE /\ stage' = "available" /\ UNCHANGED <<swap, meta>>
          /\ IF pkg # None /\ sig # None THEN pkg' = None /\ sig' = None ELSE UNCHANGED <<pkg, sig>>
  /\ UNCHANGED <<world, files, lsv, mode, proc, load, got, offer, good, crashes>>

\* InstallAndRestart reads the package
ReadPackage ==
  /\ swap.pc = "sleep"
  /\ IF pkg = None THEN GiveUp("missing", FALSE)
                   ELSE swap' = [pc |-> "begin", data |-> pkg] /\ UNCHANGED <<proc, page>>
  /\ UNCHANGED <<world, files, cache, lsv, mode, load, good, crashes>>

\* the background agent's requests: any version, at any moment, and no preflight
AgentDownload ==
  /\ program = "agent" /\ Running /\ load = NoLoad
  /\ \E v \in Whole : v <= latest /\ load' = [pc |-> "fetch", ver |-> v]
  /\ UNCHANGED <<world, files, cache, lsv, mode, proc, swap, page, good, crashes>>

AgentInstall ==
  /\ program = "agent" /\ Running /\ swap = NoSwap
  /\ Swap("sleep")
  /\ UNCHANGED <<world, files, cache, lsv, mode, proc, load, page, good, crashes>>

Publish ==
  /\ latest < MaxVersion /\ latest' = latest + 1
  /\ UNCHANGED <<program, windows, files, cache, lsv, mode, proc, swap, load, page, good, crashes>>

StartUp == Start \/ Begin \/ SetAside \/ Restore \/ Main \/ SaveVersion \/ CleanLingering \/ Die
Replace == RemoveOld \/ RenameExe \/ WriteNew \/ WriteExe \/ Written \/ Put \/ Spawn
Loading == Fetch \/ SavePackage \/ SaveSignature \/ SaveMeta
Requests == CheckPending \/ CheckForUpdates \/ DownloadNow \/ SetMode \/ InstallUpdate \/ ReadPackage
            \/ AgentDownload \/ AgentInstall

UpdatesNext == StartUp \/ Replace \/ Loading \/ Requests \/ Quit \/ Crash \/ Publish

UpdatesSpec == UpdatesInit /\ [][UpdatesNext]_vars

(***************************************************************************)
(* Properties                                                              *)
(***************************************************************************)

\* Wherever the program stops, its executable is whole, or on Windows the
\* previous one is, beside it (InstallAndRestart, "atomic binary replacement")
Bootable == program = "gui" => exe \in Whole \/ (windows /\ old \in Whole)

\* Only a package that passed the signature check as a whole becomes the
\* executable, also after a download that was cut short
\* (IMPORTANT_auto-update-design.md: only a package that passes is executed)
OnlyVerified ==
  program = "gui" /\ swap.pc \notin {"off", "sleep"} => swap.data \in Whole

\* A version that has stayed up for five seconds, and was noted, is not rolled back
RollbackDeserved == At("back") => proc.ver \notin good

=============================================================================
