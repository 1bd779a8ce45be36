---------------------------- MODULE UpdaterProofs ---------------------------
(***************************************************************************)
(* Proofs about module Updater, for any number of updates, releases,       *)
(* parts, crashes and restarts.                                            *)
(***************************************************************************)
EXTENDS Updater, TLAPS

-----------------------------------------------------------------------------
(* The inductive invariant. *)

BeforeOpen == {"idle", "pick", "decide", "open"}

\* A job that writes has a file open and something left to write; one that
\* has not opened its file yet is at the beginning, and nobody has its file.
Descriptors ==
    \A j \in Job :
        /\ pc[j] = "write" => fd[j] \in Inode /\ off[j] < Parts
        /\ pc[j] \in BeforeOpen => /\ off[j] = 0
                                  /\ bin # j /\ tmp # j
                                  /\ \A k \in Job : fd[k] # j

\* What a job has written so far of the build it downloads.
Written(j) == [p \in Part |-> IF p <= off[j] THEN src[j] ELSE NoBuild]

\* At most one job downloads.
Single == \A j, k \in Job : pc[j] \in Downloading /\ pc[k] \in Downloading => j = k

\* Its file is not the binary, is at the temporary path unless somebody
\* removed it, and holds what the job has written.
Apart ==
    \A j \in Job :
        /\ pc[j] = "write" => /\ fd[j] # bin /\ tmp \in {NoFile, fd[j]}
                             /\ file[fd[j]] = Written(j)
        /\ pc[j] \in {"chmod", "rename"} => tmp = NoFile \/ file[tmp] = Of(src[j])

FileInv ==
    /\ tmp # bin
    /\ \A j \in Job : pc[j] \in Downloading => src[j] \in Build
    /\ ~overlap => Whole(bin) /\ Single /\ Apart

-----------------------------------------------------------------------------
(* Types. *)

LEMMA TypeInit == Init => TypeOK
<1> SUFFICES ASSUME Init PROVE TypeOK
  OBVIOUS
<1> USE UpdaterAssumption
<1>1. releases \in SUBSET Release /\ running \in Build
  <2>1. PICK r \in releases : running \in {r.build, [r.build EXCEPT !.rev = NoRev]}
    BY DEF Init
  <2>2. releases \in SUBSET Release /\ r.build \in Build
    BY DEF Init, Release
  <2> QED
    BY <2>1, <2>2 DEF Build, NoRev
<1>2. file \in [Inode -> Content]
  BY <1>1 DEF Init, Of, Empty, Content
<1>3. opts \in [Job -> Options]
  BY DEF Init, Options
<1>4. published \in 0 .. MaxReleases /\ crashes \in 0 .. MaxCrashes
  BY DEF Init
<1>5. /\ bin \in Inode /\ tmp \in Inode \cup {NoFile}
      /\ up \in BOOLEAN /\ systemd \in BOOLEAN /\ overlap \in BOOLEAN
  BY DEF Init, Inode
<1>6. /\ pc \in [Job -> {"pick", "decide", "open", "restart", "killed"}
                        \cup AtRest \cup Downloading]
      /\ fd \in [Job -> Inode \cup {NoFile}]
  BY DEF Init, AtRest
<1>7. /\ current \in [Job -> Build \cup {NoBuild}]
      /\ rel \in [Job -> Build \cup {NoBuild}]
      /\ src \in [Job -> Build \cup {NoBuild}]
  BY DEF Init
<1>8. off \in [Job -> 0 .. Parts]
  BY DEF Init
<1> QED
  BY <1>1, <1>2, <1>3, <1>4, <1>5, <1>6, <1>7, <1>8 DEF TypeOK

\* What is in a file that is a whole build, and what a tag gives, are builds.
LEMMA Builds ==
    ASSUME TypeOK
    PROVE  /\ Whole(bin) => BuildIn(bin) \in Build
           /\ \A v \in Version : Tagged(v) \subseteq {b \in Build : b.ver = v}
<1>1. 1 \in Part
  BY UpdaterAssumption DEF Part
<1>2. Whole(bin) => BuildIn(bin) \in Build
  BY <1>1 DEF Whole, BuildIn, Of
<1> QED
  BY <1>2 DEF Tagged, TypeOK, Release

LEMMA KillType ==
    ASSUME TypeOK, NEW K, Kill(K)
    PROVE  /\ pc' \in [Job -> {"pick", "decide", "open", "restart", "killed"}
                              \cup AtRest \cup Downloading]
           /\ fd' \in [Job -> Inode \cup {NoFile}]
  BY DEF Kill, TypeOK

LEMMA BootType ==
    ASSUME TypeOK, Boot
    PROVE  up' \in BOOLEAN /\ running' \in Build
<1>1. up' \in BOOLEAN
  BY DEF Boot, Whole
<1> QED
  BY <1>1, Builds DEF Boot, TypeOK

LEMMA TypeNext == TypeOK /\ Descriptors /\ [Next]_vars => TypeOK'
<1> SUFFICES ASSUME TypeOK, Descriptors, [Next]_vars PROVE TypeOK'
  OBVIOUS
<1> USE UpdaterAssumption DEF TypeOK, github, disk, service, picked, copying, Return, AtRest
<1>1. ASSUME NEW v \in Version, NEW d \in BOOLEAN, Publish(v, d) PROVE TypeOK'
  <2>1. [build |-> [ver |-> v, rev |-> FeedRev + published + 1], draft |-> d] \in Release
    BY <1>1 DEF Publish, Release, Build
  <2>2. releases' \in SUBSET Release /\ published' \in 0 .. MaxReleases
    BY <1>1, <2>1 DEF Publish
  <2> QED
    BY <1>1, <2>2 DEF Publish
<1>2. ASSUME NEW j \in Job, NEW o \in Requests, UpdateApply(j, o) \/ UpdateCMD(j, o)
      PROVE  TypeOK'
  BY <1>2, Builds DEF UpdateApply, UpdateCMD, Launch
<1>3. ASSUME NEW j \in Job, PickRelease(j) \/ Decide(j) PROVE TypeOK'
  <2>1. \A r \in releases : r.build \in Build
    BY DEF Release
  <2>2. CASE PickRelease(j)
    BY <2>1, <2>2 DEF PickRelease
  <2>3. CASE Decide(j)
    BY <2>3 DEF Decide
  <2> QED
    BY <1>3, <2>2, <2>3
<1>4. ASSUME NEW j \in Job, Download(j) PROVE TypeOK'
  <2>1. CASE Abort(j) /\ UNCHANGED <<file, src, fd, overlap>>
    BY <1>4, <2>1 DEF Download, Abort
  <2>2. CASE OpenTmp(j) /\ \E b \in Tagged(rel[j].ver) : src' = [src EXCEPT ![j] = b]
    <3>1. src' \in [Job -> Build \cup {NoBuild}]
      BY <2>2 DEF Tagged, Release
    <3>2. j \in Inode /\ Empty \in Content
      BY DEF Inode, Empty, Content
    <3>3. tmp' \in Inode /\ file' \in [Inode -> Content] /\ fd' \in [Job -> Inode \cup {NoFile}]
      BY <2>2, <3>2 DEF OpenTmp
    <3>4. overlap' \in BOOLEAN
      BY <2>2 DEF OpenTmp
    <3>5. pc' = [pc EXCEPT ![j] = "write"] \/ pc' = [pc EXCEPT ![j] = "done"]
      BY <1>4 DEF Download, Abort
    <3> QED
      BY <1>4, <3>1, <3>3, <3>4, <3>5 DEF Download, Downloading
  <2> QED
    BY <1>4, <2>1, <2>2 DEF Download
<1>5. ASSUME NEW j \in Job, WritePart(j) PROVE TypeOK'
  <2>1. fd[j] \in Inode /\ off[j] + 1 \in Part /\ off[j] + 1 \in 0 .. Parts
    BY <1>5 DEF WritePart, Descriptors, Part
  <2>2. file' \in [Inode -> Content]
    BY <1>5, <2>1 DEF WritePart, Content
  <2>3. off' \in [Job -> 0 .. Parts]
    BY <1>5, <2>1 DEF WritePart
  <2> QED
    BY <1>5, <2>2, <2>3 DEF WritePart, Downloading
<1>6. ASSUME NEW j \in Job, DownloadFails(j) \/ Chmod(j) \/ Rename(j) PROVE TypeOK'
  BY <1>6 DEF DownloadFails, Chmod, Rename, Abort, Downloading
<1>7. ASSUME NEW j \in Job, RestartSystemd(j) PROVE TypeOK'
  <2>1. /\ pc' \in [Job -> {"pick", "decide", "open", "restart", "killed"}
                            \cup AtRest \cup Downloading]
        /\ fd' \in [Job -> Inode \cup {NoFile}]
    BY <1>7, KillType DEF RestartSystemd
  <2>2. up' \in BOOLEAN /\ running' \in Build
    BY <1>7, BootType DEF RestartSystemd
  <2> QED
    BY <1>7, <2>1, <2>2 DEF RestartSystemd
<1>8. CASE ServiceCrash
  <2>1. crashes' \in 0 .. MaxCrashes
    BY <1>8 DEF ServiceCrash
  <2> QED
    BY <1>8, <2>1, KillType DEF ServiceCrash
<1>9. CASE ServiceStart
  BY <1>9, BootType DEF ServiceStart
<1>10. ASSUME NEW j \in CLI, CLICrash(j) PROVE TypeOK'
  <2>1. crashes' \in 0 .. MaxCrashes
    BY <1>10 DEF CLICrash
  <2> QED
    BY <1>10, <2>1, KillType DEF CLICrash
<1>11. CASE UNCHANGED vars
  BY <1>11 DEF vars
<1> QED
  BY <1>1, <1>2, <1>3, <1>4, <1>5, <1>6, <1>7, <1>8, <1>9, <1>10, <1>11 DEF Next, Apply

-----------------------------------------------------------------------------
(* Steps that do not touch the files. *)

\* No job begins to download or to write, and some may die.
Passive ==
    /\ UNCHANGED <<bin, tmp, file, off, src, overlap>>
    /\ \A j \in Job :
          /\ pc'[j] \in Downloading => pc'[j] = pc[j] /\ fd'[j] = fd[j]
          /\ pc'[j] \in BeforeOpen => pc[j] \in BeforeOpen
          /\ fd'[j] \in {fd[j], NoFile}

LEMMA KillPassive ==
    ASSUME TypeOK, NEW K, Kill(K), UNCHANGED <<bin, tmp, file, off, src, overlap>>
    PROVE  Passive
  BY DEF Kill, TypeOK, BeforeOpen, Downloading, Passive

LEMMA RestartPassive ==
    ASSUME TypeOK, NEW i \in Job, RestartSystemd(i)
    PROVE  Passive
<1>0. UNCHANGED <<bin, tmp, file, off, src, overlap>>
  BY DEF RestartSystemd, disk
<1>1. CASE (Return(i) \/ pc' = [pc EXCEPT ![i] = "unrestarted"]) /\ UNCHANGED fd
  BY <1>0, <1>1 DEF Return, TypeOK, BeforeOpen, Downloading, Passive
<1>2. CASE Kill(Job \ CLI)
  BY <1>0, <1>2, KillPassive
<1>3. CASE /\ pc' = [k \in Job |-> IF k = i THEN "done"
                                  ELSE IF k \notin CLI /\ pc[k] \notin AtRest
                                  THEN "killed" ELSE pc[k]]
           /\ fd' = [k \in Job |-> IF k \in CLI THEN fd[k] ELSE NoFile]
  BY <1>0, <1>3 DEF TypeOK, AtRest, BeforeOpen, Downloading, Passive
<1> QED
  BY <1>1, <1>2, <1>3 DEF RestartSystemd

\* A step either leaves the files alone or is one of the five that do not.
LEMMA Steps ==
    ASSUME TypeOK, [Next]_vars
    PROVE  \/ Passive
           \/ \E j \in Job : \/ Download(j) \/ WritePart(j) \/ DownloadFails(j)
                             \/ Chmod(j) \/ Rename(j)
<1> USE DEF TypeOK, github, disk, service, picked, copying
<1>1. ASSUME NEW v \in Version, NEW d \in BOOLEAN, Publish(v, d) PROVE Passive
  BY <1>1 DEF Publish, Passive
<1>2. ASSUME NEW j \in Job, NEW o \in Requests, UpdateApply(j, o) \/ UpdateCMD(j, o)
      PROVE  Passive
  BY <1>2 DEF UpdateApply, UpdateCMD, Launch, Passive, BeforeOpen, Downloading
<1>3. ASSUME NEW j \in Job, PickRelease(j) PROVE Passive
  BY <1>3 DEF PickRelease, Return, Passive, BeforeOpen, Downloading
<1>4. ASSUME NEW j \in Job, Decide(j) PROVE Passive
  BY <1>4 DEF Decide, Return, Passive, BeforeOpen, Downloading
<1>5. ASSUME NEW j \in Job, RestartSystemd(j) PROVE Passive
  BY <1>5, RestartPassive
<1>6. CASE ServiceCrash
  BY <1>6, KillPassive DEF ServiceCrash
<1>7. CASE ServiceStart
  BY <1>7 DEF ServiceStart, Passive
<1>8. ASSUME NEW j \in CLI, CLICrash(j) PROVE Passive
  BY <1>8, KillPassive DEF CLICrash
<1>9. CASE UNCHANGED vars
  BY <1>9 DEF vars, Passive
<1> QED
  BY <1>1, <1>2, <1>3, <1>4, <1>5, <1>6, <1>7, <1>8, <1>9 DEF Next, Apply

-----------------------------------------------------------------------------
(* The file a job has open. *)

LEMMA DescriptorsNext ==
    TypeOK /\ FileInv /\ Descriptors /\ [Next]_vars => Descriptors'
<1> SUFFICES ASSUME TypeOK, FileInv, Descriptors, [Next]_vars PROVE Descriptors'
  OBVIOUS
<1> USE UpdaterAssumption DEF TypeOK, BeforeOpen, Downloading
<1>1. CASE Passive
  BY <1>1 DEF Passive, Descriptors, Inode
<1>2. ASSUME NEW j \in Job, Download(j) PROVE Descriptors'
  <2>1. CASE Abort(j) /\ UNCHANGED <<file, src, fd, overlap>>
    BY <1>2, <2>1 DEF Download, Abort, Return, Descriptors, Inode
  <2>2. CASE OpenTmp(j) /\ pc' = [pc EXCEPT ![j] = "write"]
    <3>1. UNCHANGED <<bin, off>> /\ pc[j] = "open"
      BY <1>2 DEF Download
    <3>2. \A k \in Job : k # j => /\ pc'[k] \in BeforeOpen => pc[k] \in BeforeOpen
                                  /\ fd'[k] = fd[k] /\ pc'[k] = pc[k]
      BY <2>2 DEF OpenTmp
    <3>3. fd'[j] = tmp' /\ tmp' \in Inode /\ (tmp' = j \/ tmp' = tmp) /\ pc'[j] = "write"
      BY <2>2 DEF OpenTmp, Inode
    <3>4. off[j] = 0
      BY <3>1 DEF Descriptors
    <3> QED
      BY <3>1, <3>2, <3>3, <3>4 DEF Descriptors
  <2> QED
    BY <1>2, <2>1, <2>2 DEF Download
<1>3. ASSUME NEW j \in Job, WritePart(j) PROVE Descriptors'
  <2>1. fd'[j] \in {fd[j], NoFile} /\ \A k \in Job : k # j => fd'[k] = fd[k] /\ pc'[k] = pc[k] /\ off'[k] = off[k]
    BY <1>3 DEF WritePart
  <2>2. pc'[j] = "write" => fd'[j] = fd[j] /\ off'[j] < Parts
    BY <1>3 DEF WritePart, Descriptors
  <2>3. pc'[j] \notin BeforeOpen /\ UNCHANGED <<bin, tmp>> /\ pc[j] = "write"
    BY <1>3 DEF WritePart
  <2> QED
    BY <2>1, <2>2, <2>3 DEF Descriptors, Inode
<1>4. ASSUME NEW j \in Job, DownloadFails(j) PROVE Descriptors'
  BY <1>4 DEF DownloadFails, Abort, Return, Descriptors, Inode
<1>5. ASSUME NEW j \in Job, Chmod(j) PROVE Descriptors'
  BY <1>5 DEF Chmod, copying, Abort, Return, Descriptors, Inode
<1>6. ASSUME NEW j \in Job, Rename(j) PROVE Descriptors'
  BY <1>6 DEF Rename, copying, Abort, Return, Descriptors, Inode
<1> QED
  BY <1>1, <1>2, <1>3, <1>4, <1>5, <1>6, Steps

-----------------------------------------------------------------------------
(* The files. *)

LEMMA FileInit == Init => FileInv
<1> SUFFICES ASSUME Init PROVE FileInv
  OBVIOUS
<1>1. TypeOK
  BY TypeInit
<1>2. tmp # bin
  BY UpdaterAssumption DEF Init, Inode
<1>3. Whole(bin)
  BY <1>1 DEF Init, TypeOK, Whole, Inode
<1> QED
  BY <1>2, <1>3 DEF Init, FileInv, Single, Apart, Downloading

LEMMA FileNext ==
    TypeOK /\ FileInv /\ Descriptors /\ [Next]_vars => FileInv'
<1> SUFFICES ASSUME TypeOK, FileInv, Descriptors, [Next]_vars PROVE FileInv'
  OBVIOUS
<1> USE UpdaterAssumption DEF TypeOK, Downloading
<1>1. CASE Passive
  BY <1>1 DEF Passive, FileInv, Single, Apart, Written, Whole
<1>2. ASSUME NEW j \in Job, Download(j) PROVE FileInv'
  <2>1. CASE Abort(j) /\ UNCHANGED <<file, src, fd, overlap>>
    BY <1>2, <2>1 DEF Download, Abort, Return, FileInv, Single, Apart, Written, Whole, Inode
  <2>2. CASE /\ OpenTmp(j) /\ pc' = [pc EXCEPT ![j] = "write"]
             /\ \E b \in Tagged(rel[j].ver) : src' = [src EXCEPT ![j] = b]
    <3>1. UNCHANGED <<bin, off>> /\ pc[j] = "open" /\ off[j] = 0
      BY <1>2 DEF Download, Descriptors, BeforeOpen
    <3>2. src'[j] \in Build /\ \A k \in Job : k # j => src'[k] = src[k]
      BY <2>2 DEF Tagged, Release
    <3>3. /\ fd'[j] = tmp' /\ tmp' \in Inode /\ (tmp' = j \/ tmp' = tmp) /\ pc'[j] = "write"
          /\ file' = [file EXCEPT ![tmp'] = Empty]
      BY <2>2 DEF OpenTmp, Inode
    <3>4. tmp' # bin
      BY <3>1, <3>3 DEF Descriptors, FileInv, BeforeOpen
    <3>5. \A k \in Job : k # j => pc'[k] = pc[k] /\ fd'[k] = fd[k]
      BY <2>2 DEF OpenTmp
    <3>6. ASSUME ~overlap' PROVE Whole(bin)' /\ Single' /\ Apart'
      <4>1. ~overlap /\ \A k \in Job : pc[k] \notin Downloading
        BY <2>2, <3>6 DEF OpenTmp
      <4>2. Whole(bin)'
        BY <3>1, <3>3, <3>4, <4>1 DEF FileInv, Whole
      <4>3. file'[tmp'] = Empty /\ Empty = [p \in Part |-> IF p <= off[j] THEN src'[j] ELSE NoBuild]
        BY <3>1, <3>3 DEF Empty, Part
      <4>4. Apart'
        BY <3>1, <3>3, <3>4, <3>5, <4>1, <4>3 DEF Apart, Written
      <4> QED
        BY <3>5, <4>1, <4>2, <4>4 DEF Single
    <3> QED
      BY <3>1, <3>2, <3>4, <3>5, <3>6 DEF FileInv
  <2> QED
    BY <1>2, <2>1, <2>2 DEF Download
<1>3. ASSUME NEW j \in Job, WritePart(j) PROVE FileInv'
  <2>1. /\ UNCHANGED <<bin, tmp, src, overlap>> /\ pc[j] = "write"
        /\ pc'[j] \in {"write", "chmod"}
        /\ \A k \in Job : k # j => pc'[k] = pc[k] /\ fd'[k] = fd[k] /\ off'[k] = off[k]
    BY <1>3 DEF WritePart
  <2>2. ASSUME ~overlap' PROVE Whole(bin)' /\ Single' /\ Apart'
    <3>1. /\ fd[j] \in Inode /\ off[j] + 1 \in Part
          /\ off'[j] = off[j] + 1
          /\ file' = [file EXCEPT ![fd[j]] = [@ EXCEPT ![off[j] + 1] = src[j]]]
      BY <1>3 DEF WritePart, Descriptors, Part
    <3>2. /\ Whole(bin) /\ Single /\ fd[j] # bin /\ tmp \in {NoFile, fd[j]}
          /\ file[fd[j]] = Written(j)
      BY <2>1, <2>2 DEF FileInv, Apart
    <3>3. Whole(bin)'
      BY <2>1, <3>1, <3>2 DEF Whole
    <3>4. Single'
      BY <2>1, <3>2 DEF Single
    <3>5. file'[fd[j]] = Written(j)'
      <4>1. file'[fd[j]] = [Written(j) EXCEPT ![off[j] + 1] = src[j]]
        BY <3>1, <3>2
      <4>2. [Written(j) EXCEPT ![off[j] + 1] = src[j]]
              = [p \in Part |-> IF p = off[j] + 1 THEN src[j] ELSE Written(j)[p]]
        BY DEF Written
      <4>3. \A p \in Part : (IF p = off[j] + 1 THEN src[j] ELSE Written(j)[p])
                            = IF p <= off[j] + 1 THEN src[j] ELSE NoBuild
        BY DEF Written, Part
      <4> QED
        BY <2>1, <3>1, <4>1, <4>2, <4>3 DEF Written
    <3>6. \A k \in Job : k # j => pc'[k] \notin Downloading
      BY <2>1, <3>2 DEF Single
    <3>7. CASE pc'[j] = "write"
      <4>1. fd'[j] = fd[j]
        BY <1>3, <3>7 DEF WritePart
      <4> QED
        BY <2>1, <3>2, <3>3, <3>4, <3>5, <3>6, <3>7, <4>1 DEF Apart
    <3>8. CASE pc'[j] = "chmod"
      <4>1. off'[j] = Parts
        BY <1>3, <3>1, <3>8 DEF WritePart
      <4>2. Written(j)' = Of(src[j])
        BY <2>1, <4>1 DEF Written, Of, Part
      <4> QED
        BY <2>1, <3>2, <3>3, <3>4, <3>5, <3>6, <3>8, <4>2 DEF Apart, Of
    <3> QED
      BY <2>1, <3>3, <3>4, <3>7, <3>8
  <2> QED
    BY <2>1, <2>2 DEF FileInv
<1>4. ASSUME NEW j \in Job, DownloadFails(j) PROVE FileInv'
  BY <1>4 DEF DownloadFails, Abort, Return, FileInv, Single, Apart, Written, Whole, Inode
<1>5. ASSUME NEW j \in Job, Chmod(j) PROVE FileInv'
  BY <1>5 DEF Chmod, copying, Abort, Return, FileInv, Single, Apart, Written, Whole, Of, Inode
<1>6. ASSUME NEW j \in Job, Rename(j) PROVE FileInv'
  <2>1. CASE Abort(j) /\ UNCHANGED bin
    BY <1>6, <2>1 DEF Rename, copying, Abort, Return, FileInv, Single, Apart, Written, Whole, Of, Inode
  <2>2. CASE /\ tmp # NoFile /\ bin' = tmp /\ tmp' = NoFile
             /\ pc' = [pc EXCEPT ![j] = IF opts[j].restart THEN "restart" ELSE "done"]
    <3>1. UNCHANGED <<file, off, src, fd, overlap>> /\ pc[j] = "rename"
      BY <1>6 DEF Rename, copying
    <3>2. tmp' # bin'
      BY <2>2
    <3>3. \A k \in Job : pc'[k] \in Downloading => k # j /\ pc'[k] = pc[k]
      BY <2>2
    <3>4. ASSUME ~overlap PROVE Whole(bin)' /\ Single' /\ Apart'
      <4>1. \A k \in Job : pc'[k] \notin Downloading
        BY <3>1, <3>3, <3>4 DEF FileInv, Single
      <4>2. file[tmp] = Of(src[j]) /\ src[j] \in Build
        BY <2>2, <3>1, <3>4 DEF FileInv, Apart
      <4> QED
        BY <2>2, <3>1, <4>1, <4>2 DEF Whole, Of, Single, Apart
    <3> QED
      BY <3>1, <3>2, <3>3, <3>4 DEF FileInv
  <2> QED
    BY <1>6, <2>1, <2>2 DEF Rename
<1> QED
  BY <1>1, <1>2, <1>3, <1>4, <1>5, <1>6, Steps

-----------------------------------------------------------------------------
(* The release. *)

\* A job that has decided to install was forced to, or its release is not
\* older than the build it runs; and it downloads that version.
RelInv ==
    \A j \in Job :
        /\ pc[j] \in {"open"} \cup Downloading /\ ~opts[j].force
              => rel[j].ver >= current[j].ver
        /\ pc[j] \in Downloading => src[j].ver = rel[j].ver

LEMMA Versions == ASSUME NEW b \in Build \cup {NoBuild} PROVE b.ver \in Nat
<1>1. CASE b \in Build
  BY <1>1, UpdaterAssumption DEF Build
<1>2. CASE b = NoBuild
  BY <1>2 DEF NoBuild
<1> QED
  BY <1>1, <1>2

LEMMA RelNext ==
    TypeOK /\ RelInv /\ [Next]_vars => RelInv'
<1> SUFFICES ASSUME TypeOK, RelInv, [Next]_vars PROVE RelInv'
  OBVIOUS
<1> USE UpdaterAssumption DEF TypeOK, Downloading, github, disk, service, picked, copying, Return
<1>1. ASSUME NEW v \in Version, NEW d \in BOOLEAN, Publish(v, d) PROVE RelInv'
  BY <1>1 DEF Publish, RelInv
<1>2. ASSUME NEW j \in Job, NEW o \in Requests, UpdateApply(j, o) \/ UpdateCMD(j, o)
      PROVE  RelInv'
  BY <1>2 DEF UpdateApply, UpdateCMD, Launch, RelInv
<1>3. ASSUME NEW j \in Job, PickRelease(j) PROVE RelInv'
  BY <1>3 DEF PickRelease, RelInv
<1>4. ASSUME NEW j \in Job, Decide(j) PROVE RelInv'
  <2>1. UNCHANGED <<opts, current, rel, src>>
    BY <1>4 DEF Decide
  <2>2. CASE pc' = [pc EXCEPT ![j] = "done"]
    BY <2>1, <2>2 DEF RelInv
  <2>3. CASE /\ pc' = [pc EXCEPT ![j] = "open"]
             /\ \E sha \in {b.rev : b \in Tagged(rel[j].ver)} \cup {NoRev} :
                   Installs(opts[j].force, rel[j], sha, current[j])
    <3>1. rel[j].ver \in Nat /\ current[j].ver \in Nat
      BY Versions
    <3>2. ~opts[j].force => rel[j].ver >= current[j].ver
      BY <2>3, <3>1 DEF Installs
    <3> QED
      BY <2>1, <2>3, <3>2 DEF RelInv
  <2> QED
    BY <1>4, <2>2, <2>3 DEF Decide
<1>5. ASSUME NEW j \in Job, Download(j) PROVE RelInv'
  <2>1. CASE Abort(j) /\ UNCHANGED src
    BY <1>5, <2>1 DEF Download, Abort, RelInv
  <2>2. CASE /\ pc' = [pc EXCEPT ![j] = "write"]
             /\ \E b \in Tagged(rel[j].ver) : src' = [src EXCEPT ![j] = b]
    <3>1. src'[j].ver = rel[j].ver
      BY <2>2 DEF Tagged
    <3>2. \A k \in Job : k # j => src'[k] = src[k] /\ pc'[k] = pc[k]
      BY <2>2
    <3>3. UNCHANGED <<opts, current, rel>> /\ pc[j] = "open"
      BY <1>5 DEF Download
    <3> QED
      BY <3>1, <3>2, <3>3 DEF RelInv
  <2> QED
    BY <1>5, <2>1, <2>2 DEF Download
<1>6. ASSUME NEW j \in Job, WritePart(j) \/ DownloadFails(j) \/ Chmod(j) \/ Rename(j)
      PROVE  RelInv'
  BY <1>6 DEF WritePart, DownloadFails, Chmod, Rename, Abort, RelInv
<1>7. ASSUME Passive, UNCHANGED <<opts, current, rel>>,
             \A k \in Job : pc'[k] = "open" => pc[k] = "open"
      PROVE  RelInv'
  BY <1>7 DEF Passive, RelInv
<1>8. ASSUME NEW K, Kill(K) PROVE \A k \in Job : pc'[k] = "open" => pc[k] = "open"
  BY <1>8 DEF Kill
<1>9. ASSUME NEW j \in Job, RestartSystemd(j) PROVE RelInv'
  <2>1. \A k \in Job : pc'[k] = "open" => pc[k] = "open"
    BY <1>8, <1>9 DEF RestartSystemd
  <2> QED
    BY <1>7, <1>9, <2>1, RestartPassive DEF RestartSystemd
<1>10. CASE ServiceCrash
  BY <1>7, <1>8, <1>10, KillPassive DEF ServiceCrash
<1>11. CASE ServiceStart
  BY <1>11 DEF ServiceStart, RelInv
<1>12. ASSUME NEW j \in CLI, CLICrash(j) PROVE RelInv'
  BY <1>7, <1>8, <1>12, KillPassive DEF CLICrash
<1>13. CASE UNCHANGED vars
  BY <1>13 DEF vars, RelInv
<1> QED
  BY <1>1, <1>2, <1>3, <1>4, <1>5, <1>6, <1>9, <1>10, <1>11, <1>12, <1>13 DEF Next, Apply

\* Only the job that renames replaces the binary, with what it downloaded.
LEMMA Replaces ==
    ASSUME TypeOK, FileInv, RelInv, [Next]_vars,
           NEW j \in Job, pc[j] = "rename", bin' # bin, pc'[j] # pc[j],
           ~opts[j].force, ~overlap, current[j] = BuildIn(bin)
    PROVE  BuildIn(bin').ver >= BuildIn(bin).ver
<1>1. PICK k \in Job : Rename(k)
  BY Steps DEF Passive, Download, WritePart, DownloadFails, Chmod
<1>2. k = j
  BY <1>1 DEF Rename, Return, Abort, TypeOK
<1>3. bin' = tmp /\ file[tmp] = Of(src[j])
  BY <1>1, <1>2 DEF Rename, FileInv, Apart
<1>4. 1 \in Part
  BY UpdaterAssumption DEF Part
<1>5. BuildIn(bin') = src[j]
  BY <1>3, <1>4 DEF BuildIn, Of
<1> QED
  BY <1>5 DEF RelInv, Downloading

-----------------------------------------------------------------------------
Inv == TypeOK /\ Descriptors /\ FileInv /\ RelInv

LEMMA Invariance == Spec => []Inv
<1>1. Init => Inv
  <2>1. Init => Descriptors
    <3> SUFFICES ASSUME Init, NEW j \in Job
                 PROVE  /\ pc[j] # "write" /\ off[j] = 0 /\ bin # j /\ tmp # j
                        /\ \A k \in Job : fd[k] # j
      BY DEF Descriptors
    <3>1. Orig # j /\ NoFile # j
      BY UpdaterAssumption DEF Inode
    <3> QED
      BY <3>1 DEF Init
  <2>2. Init => RelInv
    BY DEF Init, RelInv, Downloading
  <2> QED
    BY <2>1, <2>2, TypeInit, FileInit DEF Inv
<1>2. Inv /\ [Next]_vars => Inv'
  BY TypeNext, DescriptorsNext, FileNext, RelNext DEF Inv
<1> QED
  BY <1>1, <1>2, PTL DEF Spec

\* Every variable of an update keeps its type: in particular no job writes
\* past the end of its file or through a descriptor it has closed.
THEOREM TypeCorrect == Spec => []TypeOK
<1>1. Inv => TypeOK
  BY DEF Inv
<1> QED
  BY <1>1, Invariance, PTL

\* As long as no two downloads overlapped, the binary's path names one whole
\* build: Apply's rename is the only step that changes it, and renames a
\* complete file, wherever updates fail or die.
THEOREM Intact == Spec => []BinaryWhole
<1>1. Inv => BinaryWhole
  BY DEF Inv, FileInv, BinaryWhole
<1> QED
  BY <1>1, Invariance, PTL

\* An update that is not forced, and replaces the build its process runs,
\* never installs an older version, whatever is published meanwhile.
THEOREM NoDowngrade == Spec => NoStaleDowngrade
<1> DEFINE Step == \A j \in Job :
          (/\ pc[j] = "rename" /\ bin' # bin /\ pc'[j] # pc[j]
           /\ ~opts[j].force /\ ~overlap
           /\ current[j] = BuildIn(bin))
          => BuildIn(bin').ver >= BuildIn(bin).ver
<1>1. Inv /\ [Next]_vars => [Step]_vars
  BY Replaces DEF Inv
<1>2. NoStaleDowngrade <=> [][Step]_vars
  BY DEF NoStaleDowngrade
<1> QED
  BY <1>1, <1>2, Invariance, PTL DEF Spec
=============================================================================
