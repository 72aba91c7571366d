-------------------------- MODULE SelfUpdateProofs --------------------------
(***************************************************************************)
(* Proofs about SelfUpdate, for any number of updates at once, any         *)
(* versions and any answers of GitHub.                                     *)
(*                                                                         *)
(* What an update has checked travels with it: the tag it took is higher   *)
(* than its own, then so is that of its binary, which has the checksum it  *)
(* wants.  What it took up to the rename was its own, and the one that     *)
(* renamed last never takes anything again, so the file on disk still      *)
(* agrees with what was checked.                                           *)
(***************************************************************************)
EXTENDS SelfUpdate, TLAPS

Writing   == {"create", "write", "chmod", "close", "rename"}
Asking    == {"latest", "sums", "archive"}
Installing == {"isActive", "tryRestart", "noRestart", "unasked", "restartFailed", "killed"}

Allowed(u, tag) == flags[u].force \/ Higher(tag, started[u].tag)

TempInv ==
  \A u \in Updaters :
    /\ tmp[u] # "absent" => pc[u] \in {"write", "chmod", "close", "rename", "killed"}
    /\ pc[u] \in {"close", "rename"} => tmp[u] = "executable"

CheckedInv ==
  \A u \in Updaters :
    /\ pc[u] = "archive" => want[u] # None
    /\ pc[u] \in {"sums", "archive"} => Allowed(u, rel[u])
    /\ pc[u] \in Writing =>
         /\ data[u].whole
         /\ data[u].tag = rel[u]
         /\ data[u].build = want[u]
         /\ Allowed(u, rel[u])

\* Nobody but another update can have replaced the binary an update runs.
StartedInv ==
  \A u \in Updaters :
    pc[u] \in Asking \cup Writing => exe.bin = started[u] \/ exe.by \in Updaters \ {u}

ExeInv ==
  /\ exe.bin.whole /\ exe.state = "executable"
  /\ exe.by # None =>
       /\ pc[exe.by] \in Installing \cup {"done"}
       /\ exe.bin.tag = rel[exe.by] /\ exe.bin.build = want[exe.by]
  /\ service = "active" /\ running # exe.bin => exe.by # None /\ pc[exe.by] \in Installing

Pcs == {"idle", "latest", "sums", "archive", "create", "write", "chmod",
        "close", "rename", "isActive", "tryRestart"} \cup Ended

ShapeInv ==
  /\ exe \in File
  /\ service \in {"down", "waiting", "active"}
  /\ running \in Binary
  /\ pc \in [Updaters -> Pcs]
  /\ started \in [Updaters -> Binary]
  /\ flags \in [Updaters -> Flags]
  /\ rel \in [Updaters -> Tags]
  /\ want \in [Updaters -> Builds \cup {None}]
  /\ data \in [Updaters -> Binary]
  /\ tmp \in [Updaters -> FileStates \cup {"absent"}]

IInv == ShapeInv /\ TempInv /\ CheckedInv /\ StartedInv /\ ExeInv

-----------------------------------------------------------------------------
(* The loop of IsNewer computes the order of versions.                      *)

LEMMA IsNewerIsHigher ==
  ASSUME NEW a \in Nat \X Nat \X Nat, NEW b \in Nat \X Nat \X Nat, IsNewer(a, b)
  PROVE  Higher(b, a)
<1>1. PICK i \in 1..3 : b[i] > a[i] /\ \A j \in 1..i - 1 : b[j] = a[j]
  BY DEF IsNewer
<1>2. CASE i = 1 BY <1>1, <1>2 DEF Higher
<1>3. CASE i = 2
  <2>1. b[1] = a[1] BY <1>1, <1>3
  <2> QED BY <1>1, <1>3, <2>1 DEF Higher
<1>4. CASE i = 3
  <2>1. b[1] = a[1] /\ b[2] = a[2] BY <1>1, <1>4
  <2> QED BY <1>1, <1>4, <2>1 DEF Higher
<1> QED BY <1>1, <1>2, <1>3, <1>4

LEMMA GoesOnIsAllowed ==
  ASSUME NEW a \in Tags, NEW b \in Tags, NEW f \in Flags, GoesOn(a, b, f)
  PROVE  f.force \/ Higher(b, a)
<1>1. CASE f.force BY <1>1
<1>2. CASE ~f.force
  <2>1. a # Dev /\ b # Dev /\ IsNewer(a, b) BY <1>2 DEF GoesOn, Comparable, IsVersion
  <2>2. a \in Nat \X Nat \X Nat /\ b \in Nat \X Nat \X Nat BY <2>1, SelfUpdateAssumption
  <2> QED BY <2>1, <2>2, IsNewerIsHigher
<1> QED BY <1>1, <1>2

-----------------------------------------------------------------------------
LEMMA InitIInv == Init => IInv
<1> SUFFICES ASSUME Init PROVE IInv OBVIOUS
<1>1. PICK t \in Tags :
        exe = [bin |-> [tag |-> t, build |-> Installed, whole |-> TRUE], by |-> None,
               state |-> "executable"]
  BY DEF Init
<1>2. exe \in File /\ exe.bin \in Binary /\ exe.bin.tag \in Tags
  BY <1>1 DEF File, Binary, FileStates
<1>3. ShapeInv
  BY <1>1, <1>2 DEF Init, ShapeInv, Pcs, Flags, FileStates
<1>4. TempInv /\ CheckedInv /\ StartedInv
  BY DEF Init, TempInv, CheckedInv, StartedInv, Writing, Asking
<1>5. ExeInv BY <1>1 DEF Init, ExeInv
<1> QED BY <1>3, <1>4, <1>5 DEF IInv

\* Up to the download an update changes only what is its own.
LEMMA AskingStep ==
  ASSUME IInv, NEW u \in Updaters,
         Start(u) \/ RequestFails(u) \/ Latest(u) \/ GetSums(u) \/ GetArchive(u)
  PROVE  IInv'
<1> USE DEF IInv, unit
<1>1. pc[u] \in Asking \cup {"idle"} /\ UNCHANGED <<exe, service, running, tmp>>
  BY DEF Start, RequestFails, Latest, GetSums, GetArchive, Asking
<1>2. PICK next \in Pcs : /\ pc' = [pc EXCEPT ![u] = next]
                          /\ next \in Asking \cup {"create", "done", "failed"}
  BY DEF Start, RequestFails, Latest, GetSums, GetArchive, goto, Asking, Pcs, Ended
<1>3. exe.bin \in Binary BY DEF ShapeInv, File
<1>4. ShapeInv'
  <2>1. CASE Start(u) BY <1>1, <1>2, <1>3, <2>1, SelfUpdateAssumption DEF ShapeInv, Start
  <2>2. CASE RequestFails(u) BY <1>1, <1>2, <2>2 DEF ShapeInv, RequestFails, localVars
  <2>3. CASE Latest(u) BY <1>1, <1>2, <2>3 DEF ShapeInv, Latest
  <2>4. CASE GetSums(u) BY <1>1, <1>2, <2>4 DEF ShapeInv, GetSums
  <2>5. CASE GetArchive(u)
    <3>1. PICK got \in Binary : data' \in {data, [data EXCEPT ![u] = got]}
      BY <2>5 DEF GetArchive, ShapeInv, Binary
    <3> QED BY <1>1, <1>2, <2>5, <3>1 DEF ShapeInv, GetArchive
  <2> QED BY <2>1, <2>2, <2>3, <2>4, <2>5
<1>5. TempInv' BY <1>1, <1>2 DEF ShapeInv, TempInv, Asking
<1>6. ExeInv'
  <2>1. exe.by # u BY <1>1, SelfUpdateAssumption DEF ExeInv, Installing, Asking
  <2>2. \A v \in Updaters \ {u} : rel'[v] = rel[v] /\ want'[v] = want[v] /\ pc'[v] = pc[v]
    BY <1>2 DEF ShapeInv, Start, RequestFails, Latest, GetSums, GetArchive, localVars
  <2>3. exe.by \in Updaters \cup {None} BY DEF ShapeInv, File
  <2>4. CASE exe.by = None
    BY <1>1, <2>4 DEF ExeInv
  <2>5. CASE exe.by \in Updaters \ {u} BY <1>1, <2>2, <2>5 DEF ExeInv
  <2> QED BY <2>1, <2>3, <2>4, <2>5
<1>7. StartedInv'
  <2>1. CASE Start(u)
    <3>1. started' = [started EXCEPT ![u] = exe.bin] BY <2>1 DEF Start
    <3> QED BY <1>1, <1>2, <3>1 DEF ShapeInv, StartedInv, Asking, Writing
  <2>2. CASE ~Start(u)
    <3>1. UNCHANGED started /\ pc[u] \in Asking
      BY <2>2 DEF RequestFails, Latest, GetSums, GetArchive, localVars, Asking
    <3> QED BY <1>1, <1>2, <3>1 DEF ShapeInv, StartedInv, Asking, Writing
  <2> QED BY <2>1, <2>2
<1>8. CheckedInv'
  <2>1. CASE Start(u) BY <1>1, <1>2, <2>1 DEF ShapeInv, CheckedInv, Start, Allowed, goto, Writing
  <2>2. CASE RequestFails(u)
    BY <1>1, <1>2, <2>2 DEF ShapeInv, CheckedInv, RequestFails, localVars, Allowed, goto, Writing
  <2>3. CASE Latest(u)
    <3>1. PICK tag \in Tags :
            /\ rel' = [rel EXCEPT ![u] = tag]
            /\ pc'[u] \in {"sums", "failed", "done"}
            /\ pc'[u] = "sums" => GoesOn(started[u].tag, tag, flags[u])
      BY <2>3 DEF ShapeInv, Latest, goto
    <3>2. pc'[u] = "sums" => Allowed(u, tag)
      BY <3>1, GoesOnIsAllowed DEF ShapeInv, Allowed, Binary
    <3> QED BY <1>1, <1>2, <2>3, <3>1, <3>2 DEF ShapeInv, CheckedInv, Latest, Allowed, Writing
  <2>4. CASE GetSums(u)
    <3>1. PICK entry \in Builds : want' = [want EXCEPT ![u] = entry] BY <2>4 DEF GetSums
    <3>2. entry # None BY SelfUpdateAssumption
    <3> QED
      BY <1>1, <1>2, <2>4, <3>1, <3>2 DEF ShapeInv, CheckedInv, GetSums, Allowed, goto, Writing
  <2>5. CASE GetArchive(u)
    <3>1. PICK got : \/ /\ pc'[u] = "create" /\ data' = [data EXCEPT ![u] = got]
                        /\ got.whole /\ got.tag = rel[u] /\ got.build = want[u]
                     \/ pc'[u] = "failed" /\ UNCHANGED data
      BY <2>5 DEF ShapeInv, GetArchive, Verified, goto
    <3> QED BY <1>1, <1>2, <2>5, <3>1 DEF ShapeInv, CheckedInv, GetArchive, Allowed, Writing
  <2> QED BY <2>1, <2>2, <2>3, <2>4, <2>5
<1> QED BY <1>4, <1>5, <1>6, <1>7, <1>8

\* replaceFile touches the temp file only.
LEMMA WritingStep ==
  ASSUME IInv, NEW u \in Updaters,
         CreateTemp(u) \/ Write(u) \/ Chmod(u) \/ Close(u) \/ FileFails(u)
  PROVE  IInv'
<1> USE DEF IInv, unit, localVars
<1>1. pc[u] \in Writing /\ UNCHANGED <<exe, unit, localVars>>
  BY DEF CreateTemp, Write, Chmod, Close, FileFails, Writing
<1>2. PICK next \in {"write", "chmod", "close", "rename", "failed"},
           file \in FileStates \cup {"absent"} :
        /\ pc' = [pc EXCEPT ![u] = next]
        /\ tmp' = [tmp EXCEPT ![u] = file]
        /\ next = "failed" => file = "absent"
        /\ next \in {"close", "rename"} => file = "executable"
  <2>1. CASE CreateTemp(u) BY <2>1 DEF CreateTemp, goto, FileStates
  <2>2. CASE Write(u) BY <2>2 DEF Write, goto, FileStates
  <2>3. CASE Chmod(u) BY <2>3 DEF Chmod, goto, FileStates
  <2>4. CASE Close(u) BY <2>4 DEF Close, goto, ShapeInv, TempInv
  <2>5. CASE FileFails(u) BY <2>5 DEF FileFails, goto
  <2> QED BY <2>1, <2>2, <2>3, <2>4, <2>5
<1>3. ShapeInv' BY <1>1, <1>2 DEF ShapeInv, Pcs, Ended
<1>4. TempInv' BY <1>2 DEF ShapeInv, TempInv
<1>5. CheckedInv' BY <1>1, <1>2 DEF ShapeInv, CheckedInv, Allowed, Writing
<1>6. StartedInv' BY <1>1, <1>2 DEF ShapeInv, StartedInv, Writing, Asking
<1>7. ExeInv'
  <2>1. exe.by # u BY <1>1, SelfUpdateAssumption DEF ExeInv, Installing, Writing
  <2> QED BY <1>1, <1>2, <2>1 DEF ShapeInv, ExeInv, File
<1> QED BY <1>3, <1>4, <1>5, <1>6, <1>7

LEMMA RenameStep == ASSUME IInv, NEW u \in Updaters, Rename(u) PROVE IInv'
<1> USE DEF IInv, unit, localVars
<1>1. /\ pc[u] = "rename" /\ tmp[u] = "executable"
      /\ data[u] \in Binary /\ data[u].whole
      /\ data[u].tag = rel[u] /\ data[u].build = want[u]
  BY DEF Rename, ShapeInv, TempInv, CheckedInv, Writing
<1>2. /\ exe' = [bin |-> data[u], by |-> u, state |-> "executable"]
      /\ tmp' = [tmp EXCEPT ![u] = "absent"]
      /\ UNCHANGED <<unit, localVars>>
  BY <1>1 DEF Rename
<1>3. PICK next \in {"noRestart", "isActive"} : pc' = [pc EXCEPT ![u] = next]
  BY DEF Rename, goto
<1>4. exe' \in File BY <1>1, <1>2 DEF File, FileStates
<1>5. ShapeInv' BY <1>2, <1>3, <1>4 DEF ShapeInv, Pcs, Ended
<1>6. TempInv' BY <1>2, <1>3 DEF ShapeInv, TempInv
<1>7. CheckedInv' BY <1>2, <1>3 DEF ShapeInv, CheckedInv, Allowed, Writing
<1>8. StartedInv' BY <1>2, <1>3 DEF ShapeInv, StartedInv, Writing, Asking
<1>9. ExeInv'
  <2>1. u # None BY SelfUpdateAssumption
  <2> QED BY <1>1, <1>2, <1>3, <2>1 DEF ShapeInv, ExeInv, Installing
<1> QED BY <1>5, <1>6, <1>7, <1>8, <1>9

\* The service, and what ends an update without touching a file.
LEMMA ServiceStep ==
  ASSUME IInv,
         \/ ServiceEnds \/ ServiceStarts
         \/ \E u \in Updaters : IsActive(u) \/ IsActiveFails(u) \/ TryRestart(u) \/ Kill(u)
  PROVE  IInv'
<1> USE DEF IInv, unit, localVars
<1>1. CASE ServiceEnds \/ ServiceStarts
  <2>1. UNCHANGED <<exe, pc, localVars, tmp>> BY <1>1 DEF ServiceEnds, ServiceStarts
  <2>2. ShapeInv' BY <1>1, <2>1 DEF ShapeInv, File, ServiceEnds, ServiceStarts
  <2>3. ExeInv' BY <1>1, <2>1 DEF ExeInv, ServiceEnds, ServiceStarts
  <2> QED BY <2>1, <2>2, <2>3 DEF TempInv, CheckedInv, StartedInv, Allowed
<1>2. ASSUME NEW u \in Updaters, IsActive(u) \/ IsActiveFails(u) \/ TryRestart(u) \/ Kill(u) PROVE IInv'
  <2>1. PICK next \in {"done", "tryRestart", "unasked", "restartFailed", "killed"} :
          /\ pc' = [pc EXCEPT ![u] = next]
          /\ next # "killed" => pc[u] \in {"isActive", "tryRestart"}
          /\ next = "done" => ~(service' = "active" /\ running' # exe.bin)
    BY <1>2 DEF IsActive, IsActiveFails, TryRestart, Kill, goto
  <2>2. UNCHANGED <<exe, localVars, tmp>> BY <1>2 DEF IsActive, IsActiveFails, TryRestart, Kill
  <2>3. /\ pc[u] \notin Ended
        /\ \/ UNCHANGED <<service, running>>
           \/ service' \in {"down", "waiting", "active"} /\ running' = exe.bin
    BY <1>2 DEF IsActive, IsActiveFails, TryRestart, Kill, Ended
  <2>4. ShapeInv' BY <2>1, <2>2, <2>3 DEF ShapeInv, File, Pcs, Ended
  <2>5. TempInv' BY <2>1, <2>2 DEF ShapeInv, TempInv
  <2>6. CheckedInv' BY <2>1, <2>2 DEF ShapeInv, CheckedInv, Allowed, Writing
  <2>7. StartedInv' BY <2>1, <2>2 DEF ShapeInv, StartedInv, Writing, Asking
  <2>8. ExeInv'
    <3>1. exe.by \in Updaters \cup {None} BY DEF ShapeInv, File
    <3>2. CASE exe.by = None BY <2>1, <2>2, <2>3, <3>2 DEF ExeInv
    <3>3. CASE exe.by = u
      BY <2>1, <2>2, <2>3, <3>3, SelfUpdateAssumption DEF ShapeInv, ExeInv, Installing, Ended
    <3>4. CASE exe.by \in Updaters \ {u}
      <4>1. pc'[exe.by] = pc[exe.by] BY <2>1, <3>4 DEF ShapeInv
      <4> QED BY <2>1, <2>2, <2>3, <3>4, <4>1 DEF ExeInv
    <3> QED BY <3>1, <3>2, <3>3, <3>4
  <2> QED BY <2>4, <2>5, <2>6, <2>7, <2>8
<1> QED BY <1>1, <1>2

LEMMA StutterStep == ASSUME IInv, UNCHANGED vars PROVE IInv'
  BY DEF IInv, vars, unit, localVars, ShapeInv, TempInv, CheckedInv, StartedInv, ExeInv, Allowed

LEMMA Step == IInv /\ [Next]_vars => IInv'
  BY AskingStep, WritingStep, RenameStep, ServiceStep, StutterStep DEF Next, Updater

LEMMA Inductive == Spec => []IInv
<1> QED BY InitIInv, Step, PTL DEF Spec

-----------------------------------------------------------------------------
\* However many updates run, fail and are killed, every variable keeps its type
\* and no archive is asked for without the checksum it has to have.
THEOREM TypeCorrect == Spec => []TypeOK
<1>1. IInv => ShapeInv /\ \A u \in Updaters : pc[u] = "archive" => want[u] # None
  BY DEF IInv, CheckedInv
<1>2. IInv => TypeOK BY <1>1 DEF ShapeInv, TypeOK, Pcs
<1> QED BY <1>2, Inductive, PTL

\* The file at exePath is always one complete, verified executable.
THEOREM AlwaysVerified == Spec => []VerifiedExe
<1>1. IInv => VerifiedExe BY DEF IInv, ExeInv, VerifiedExe
<1> QED BY <1>1, Inductive, PTL

\* A service is left on another binary only by an update that was told to, that
\* could not ask for it or restart it, or that was killed (cmd/update.go:81-105).
THEOREM NotLeftBehind == Spec => []ServiceCurrent
<1>1. IInv => ServiceCurrent BY DEF IInv, ExeInv, Installing, ServiceCurrent
<1> QED BY <1>1, Inductive, PTL

\* Every failure takes the temp file away.
THEOREM NoTempLeft == Spec => []TempRemoved
<1>1. IInv => TempRemoved BY DEF IInv, TempInv, TempRemoved
<1> QED BY <1>1, Inductive, PTL

\* Without --force an update only goes up, unless another one came in between.
THEOREM OnlyUp == Spec => NoDowngrade
<1>1. IInv /\ [Next]_vars =>
        [ exe' # exe =>
            \/ flags[exe'.by].force
            \/ /\ Higher(exe'.bin.tag, started[exe'.by].tag)
               /\ exe.bin = started[exe'.by] \/ exe.by \in Updaters \ {exe'.by} ]_vars
  <2> SUFFICES ASSUME IInv, [Next]_vars, exe' # exe
               PROVE  \/ flags[exe'.by].force
                      \/ /\ Higher(exe'.bin.tag, started[exe'.by].tag)
                         /\ exe.bin = started[exe'.by] \/ exe.by \in Updaters \ {exe'.by}
    OBVIOUS
  <2>1. PICK u \in Updaters : Rename(u)
    BY DEF Next, Updater, ServiceEnds, ServiceStarts, Start, RequestFails, Latest, GetSums,
           GetArchive, CreateTemp, Write, Chmod, Close, FileFails, IsActive, IsActiveFails,
           TryRestart, Kill, vars
  <2>2. exe'.by = u /\ exe'.bin = data[u] /\ pc[u] = "rename" BY <2>1 DEF Rename
  <2>3. /\ data[u].tag = rel[u]
        /\ flags[u].force \/ Higher(rel[u], started[u].tag)
    BY <2>2 DEF IInv, CheckedInv, Allowed, Writing
  <2>4. exe.bin = started[u] \/ exe.by \in Updaters \ {u}
    BY <2>2 DEF IInv, StartedInv, Writing
  <2> QED BY <2>2, <2>3, <2>4
<1> QED BY <1>1, Inductive, PTL DEF Spec, NoDowngrade
=============================================================================
