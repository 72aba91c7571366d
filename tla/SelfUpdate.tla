----------------------------- MODULE SelfUpdate -----------------------------
(***************************************************************************)
(* `ssh-autoproxy update` (cmd/ssh-autoproxy/update.go, internal/update):  *)
(* several invocations at once, each of which may fail at every step or be *)
(* killed, and the systemd service that runs the binary they replace.      *)
(*                                                                         *)
(* Releases are published, completed and replaced at any time, so every    *)
(* answer of GitHub may be about another build than the one before.  A     *)
(* build stands for its checksum; Installed is the one there was at first. *)
(* A tag is a version <<major, minor, patch>>, or Dev for anything else.   *)
(***************************************************************************)
EXTENDS Naturals

CONSTANTS
  Updaters,   \* invocations of the command
  Tags,       \* tags of the releases
  Builds,     \* builds that archives hold
  Options     \* the flags an invocation may have

Dev       == <<>>
None      == "none"
Installed == "installed"

Flags  == [checkOnly : BOOLEAN, force : BOOLEAN, noRestart : BOOLEAN]
Binary == [tag : Tags, build : Builds \cup {Installed}, whole : BOOLEAN]

ASSUME SelfUpdateAssumption ==
  /\ Tags \subseteq (Nat \X Nat \X Nat) \cup {Dev}
  /\ Installed \notin Builds /\ None \notin Builds \cup Updaters
  /\ Options \subseteq Flags

\* How far a file has come: a "created" one is empty or half-written, and only
\* an "executable" one has lost CreateTemp's mode 0600.
FileStates == {"created", "written", "executable"}
File       == [bin : Binary, by : Updaters \cup {None}, state : FileStates]

\* "unasked": systemctl is not there, or could not say whether the service runs.
Ended == {"done", "failed", "noRestart", "unasked", "restartFailed", "killed"}

VARIABLES
  exe,       \* the file at exePath
  service,   \* of the systemd unit: "waiting" is for RestartSec
  running,   \* the binary it runs, or ran last
  pc,
  started,   \* the binary each updater runs, whose version is `version`
  flags,
  rel, want, \* the release's tag, and the build its SHA256SUMS lists
  data,      \* the archive's binary
  tmp        \* each updater's temp file, whose content is its data

unit      == <<service, running>>
localVars == <<started, flags, rel, want, data>>
vars      == <<exe, unit, pc, localVars, tmp>>

TypeOK ==
  /\ exe \in File
  /\ service \in {"down", "waiting", "active"}
  /\ running \in Binary
  /\ pc \in [Updaters -> {"idle", "latest", "sums", "archive", "create", "write", "chmod",
                          "close", "rename", "isActive", "tryRestart"} \cup Ended]
  /\ started \in [Updaters -> Binary]
  /\ flags \in [Updaters -> Flags]
  /\ rel \in [Updaters -> Tags]
  /\ want \in [Updaters -> Builds \cup {None}]
  /\ data \in [Updaters -> Binary]
  /\ tmp \in [Updaters -> FileStates \cup {"absent"}]
  /\ \A u \in Updaters : pc[u] = "archive" => want[u] # None

Init ==
  /\ \E t \in Tags :
       exe = [bin |-> [tag |-> t, build |-> Installed, whole |-> TRUE], by |-> None,
              state |-> "executable"]
  /\ service \in {"down", "active"}
  /\ running = exe.bin
  /\ pc = [u \in Updaters |-> "idle"]
  /\ started = [u \in Updaters |-> exe.bin]
  /\ flags = [u \in Updaters |-> [checkOnly |-> FALSE, force |-> FALSE, noRestart |-> FALSE]]
  /\ rel = [u \in Updaters |-> exe.bin.tag]
  /\ want = [u \in Updaters |-> None]
  /\ data = started
  /\ tmp = [u \in Updaters |-> "absent"]

-----------------------------------------------------------------------------
(* IsNewer and the switch that decides whether to go on.                    *)

IsVersion(t) == t # Dev

\* Mutant: newer in any field is newer.
IsNewerInSome(current, last) == \E i \in 1..3 : last[i] > current[i]

\* Both are versions: the first field that differs decides.
IsNewer(current, last) ==
  \E i \in 1..3 : last[i] > current[i] /\ \A j \in 1..i - 1 : last[j] = current[j]

Comparable(current, last) == IsVersion(current) /\ IsVersion(last)

GoesOn(current, last, f) ==
  /\ ~f.checkOnly
  /\ f.force \/ (Comparable(current, last) /\ IsNewer(current, last))

-----------------------------------------------------------------------------
(* The command, up to the verified binary.                                  *)

goto(u, next) == pc' = [pc EXCEPT ![u] = next]

Start(u) ==
  /\ pc[u] = "idle"
  /\ goto(u, "latest")
  /\ started' = [started EXCEPT ![u] = exe.bin]
  /\ \E f \in Options : flags' = [flags EXCEPT ![u] = f]
  /\ UNCHANGED <<exe, unit, rel, want, data, tmp>>

\* Any request fails when the network does, when the asset is gone, or when
\* updateTimeout has passed.
RequestFails(u) ==
  /\ pc[u] \in {"latest", "sums", "archive"}
  /\ goto(u, "failed")
  /\ UNCHANGED <<exe, unit, localVars, tmp>>

\* The latest release, which may lack the archive or SHA256SUMS.
Latest(u) ==
  /\ pc[u] = "latest"
  /\ \E tag \in Tags, next \in {"sums", "failed"} :
       /\ rel' = [rel EXCEPT ![u] = tag]
       /\ goto(u, CASE GoesOn(started[u].tag, tag, flags[u]) -> next
                    [] flags[u].checkOnly \/ Comparable(started[u].tag, tag) -> "done"
                    [] OTHER -> "failed")
  /\ UNCHANGED <<exe, unit, started, flags, want, data, tmp>>

\* Mutant: a file without an entry for the archive is taken.
GetSumsNoEntry(u) ==
  /\ pc[u] = "sums"
  /\ \E entry \in Builds \cup {None} : want' = [want EXCEPT ![u] = entry]
  /\ goto(u, "archive")
  /\ UNCHANGED <<exe, unit, started, flags, rel, data, tmp>>

\* A file without an entry is as good as none.
GetSums(u) ==
  /\ pc[u] = "sums"
  /\ \E entry \in Builds : want' = [want EXCEPT ![u] = entry]
  /\ goto(u, "archive")
  /\ UNCHANGED <<exe, unit, started, flags, rel, data, tmp>>

\* Mutant: any download is taken for the build.
VerifiedAny(got, sum) == TRUE

Verified(got, sum) == got.whole /\ got.build = sum

\* The archive as it is by now, or a part of it; holds: the binary is in it.
GetArchive(u) ==
  /\ pc[u] = "archive"
  /\ \E build \in Builds, whole, holds \in BOOLEAN :
       LET got == [tag |-> rel[u], build |-> build, whole |-> whole]
       IN  IF Verified(got, want[u]) /\ holds
             THEN goto(u, "create") /\ data' = [data EXCEPT ![u] = got]
             ELSE goto(u, "failed") /\ UNCHANGED data
  /\ UNCHANGED <<exe, unit, started, flags, rel, want, tmp>>

-----------------------------------------------------------------------------
(* replaceFile.                                                             *)

CreateTemp(u) ==
  /\ pc[u] = "create"
  /\ goto(u, "write")
  /\ tmp' = [tmp EXCEPT ![u] = "created"]
  /\ UNCHANGED <<exe, unit, localVars>>

Write(u) ==
  /\ pc[u] = "write"
  /\ goto(u, "chmod")
  /\ tmp' = [tmp EXCEPT ![u] = "written"]
  /\ UNCHANGED <<exe, unit, localVars>>

Chmod(u) ==
  /\ pc[u] = "chmod"
  /\ goto(u, "close")
  /\ tmp' = [tmp EXCEPT ![u] = "executable"]
  /\ UNCHANGED <<exe, unit, localVars>>

Close(u) ==
  /\ pc[u] = "close"
  /\ goto(u, "rename")
  /\ UNCHANGED <<exe, unit, localVars, tmp>>

\* Mutant: the temp file is removed only if it could be written.
FileFailsNoRemove(u) ==
  /\ pc[u] \in {"create", "write", "chmod", "close", "rename"}
  /\ goto(u, "failed")
  /\ tmp' = [tmp EXCEPT ![u] = IF pc[u] \in {"write", "chmod"} THEN tmp[u] ELSE "absent"]
  /\ UNCHANGED <<exe, unit, localVars>>

\* Any of these fails, on a full disk or a read-only directory: the deferred
\* Remove takes the temp file away.
FileFails(u) ==
  /\ pc[u] \in {"create", "write", "chmod", "close", "rename"}
  /\ goto(u, "failed")
  /\ tmp' = [tmp EXCEPT ![u] = "absent"]
  /\ UNCHANGED <<exe, unit, localVars>>

Rename(u) ==
  /\ pc[u] = "rename"
  /\ goto(u, IF flags[u].noRestart THEN "noRestart" ELSE "isActive")
  /\ exe' = [bin |-> data[u], by |-> u, state |-> tmp[u]]
  /\ tmp' = [tmp EXCEPT ![u] = "absent"]
  /\ UNCHANGED <<unit, localVars>>

-----------------------------------------------------------------------------
(* restartServiceIfRunning.                                                 *)

IsActive(u) ==
  /\ pc[u] = "isActive"
  /\ goto(u, IF service = "active" THEN "tryRestart" ELSE "done")
  /\ UNCHANGED <<exe, unit, localVars, tmp>>

\* LookPath finds no systemctl, or is-active fails without an answer, as it
\* does where there is no session bus: the command says nothing and succeeds.
IsActiveFails(u) ==
  /\ pc[u] = "isActive"
  /\ goto(u, "unasked")
  /\ UNCHANGED <<exe, unit, localVars, tmp>>

\* Mutant: the service is told to reload, and keeps its binary.
TryReload(u) ==
  /\ pc[u] = "tryRestart"
  /\ goto(u, "done")
  /\ UNCHANGED <<exe, unit, localVars, tmp>>

\* try-restart of a service that has stopped meanwhile does nothing.
TryRestart(u) ==
  /\ pc[u] = "tryRestart"
  /\ \/ /\ goto(u, "done")
        /\ IF service = "down" THEN UNCHANGED unit
                                ELSE service' = "active" /\ running' = exe.bin
     \/ goto(u, "restartFailed") /\ UNCHANGED unit
  /\ UNCHANGED <<exe, localVars, tmp>>

-----------------------------------------------------------------------------
(* The environment: a kill leaves the temp file; the service stops, fails,  *)
(* and is started by systemd or the user, on the exe there is then.         *)

Kill(u) ==
  /\ pc[u] \notin Ended \cup {"idle"}
  /\ goto(u, "killed")
  /\ UNCHANGED <<exe, unit, localVars, tmp>>

ServiceEnds ==
  /\ service = "active"
  /\ service' \in {"down", "waiting"}
  /\ UNCHANGED <<exe, running, pc, localVars, tmp>>

ServiceStarts ==
  /\ service # "active"
  /\ service' = "active"
  /\ running' = exe.bin
  /\ UNCHANGED <<exe, pc, localVars, tmp>>

Updater(u) ==
  \/ Start(u) \/ RequestFails(u) \/ Latest(u) \/ GetSums(u) \/ GetArchive(u)
  \/ CreateTemp(u) \/ Write(u) \/ Chmod(u) \/ Close(u) \/ FileFails(u) \/ Rename(u)
  \/ IsActive(u) \/ IsActiveFails(u) \/ TryRestart(u) \/ Kill(u)

Next ==
  \/ ServiceEnds \/ ServiceStarts
  \/ \E u \in Updaters : Updater(u)

Spec == Init /\ [][Next]_vars
-----------------------------------------------------------------------------
(* Properties.                                                              *)

\* Whatever fails, is killed or changes on GitHub, and however many updates run
\* at once: at exePath is always one complete executable, the one installed at
\* first or the one that the SHA256SUMS of its release vouched for.
VerifiedExe ==
  /\ exe.bin.whole /\ exe.state = "executable"
  /\ exe.by # None => exe.bin.tag = rel[exe.by] /\ exe.bin.build = want[exe.by]

\* The order of versions.
Higher(a, b) ==
  \/ a[1] > b[1]
  \/ a[1] = b[1] /\ (a[2] > b[2] \/ (a[2] = b[2] /\ a[3] > b[3]))

\* Without --force an update only goes up from the version its binary has,
\* whatever release is the latest: it can put an older version in the place of
\* a newer one only if another update came in between.
NoDowngrade ==
  [][ exe' # exe =>
        \/ flags[exe'.by].force
        \/ /\ Higher(exe'.bin.tag, started[exe'.by].tag)
           /\ exe.bin = started[exe'.by] \/ exe.by \in Updaters \ {exe'.by}
    ]_vars

\* A service that runs another binary than the one on disk is about to be
\* restarted by the update that put it there, unless this was told not to, was
\* killed, or could not ask systemctl or have it restart: a restart by another
\* update, a crash of the service in between or its restart by systemd cannot
\* leave it behind.
ServiceCurrent ==
  service = "active" /\ running # exe.bin =>
    pc[exe.by] \in {"isActive", "tryRestart", "noRestart", "unasked", "restartFailed", "killed"}

\* update.go:27: "If the systemd user service is running, it's restarted onto
\* the new binary", or the update fails, is killed, or says that it could not.
\* Does not hold, any error of is-active being taken for "not running", and is
\* in no run: see README.
ServiceRestarted ==
  service = "active" /\ running # exe.bin =>
    pc[exe.by] \in {"isActive", "tryRestart", "noRestart", "restartFailed", "killed"}

\* No failure leaves a temp file beside the executable, only a kill does.
TempRemoved ==
  \A u \in Updaters :
    tmp[u] # "absent" => pc[u] \in {"write", "chmod", "close", "rename", "killed"}
=============================================================================
