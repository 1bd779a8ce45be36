------------------------------ MODULE Updater -------------------------------
(***************************************************************************)
(* Self-update: updater.Apply (internal/updater/updater.go), started by    *)
(* the dashboard in detached goroutines of the service (UpdateApply of     *)
(* internal/web/handler_update.go) and by `ehco update` in a process of    *)
(* its own (internal/cli/update.go).                                       *)
(*                                                                         *)
(* Nothing serialises the updates of one host, and all of them download to *)
(* the same path, the binary's with ".new" appended.  The file system is   *)
(* modelled by inode: opening the path truncates the file that is there,   *)
(* also under another writer, and a rename moves the file, not the         *)
(* writer's descriptor.  A file is a sequence of parts, each holding the   *)
(* build it was downloaded from or nothing.                                *)
(*                                                                         *)
(* Versions are numbers in semver order; those in Pre have a prerelease    *)
(* suffix.  A build is a version and the revision baked into it, numbered  *)
(* in the order of publication.  GitHub is the environment: what it        *)
(* answers is the releases at that moment, and any request may fail, time  *)
(* out (five minutes) included.                                            *)
(***************************************************************************)
EXTENDS Naturals

CONSTANTS
    Job,              \* the runs of Apply
    CLI,              \* those of `ehco update`; the others are the service's
    Version,          \* the versions of the releases
    Pre,              \* those with a prerelease suffix
    Requests,         \* the options the updates are started with
    Parts,            \* the number of parts a file is downloaded in
    Feeds,            \* the releases GitHub may have to begin with
    FeedRev,          \* the highest revision in them
    MaxReleases,      \* bound: releases published after that
    MaxCrashes        \* bound: processes that die

Orig == "orig"                     \* the inode of the first binary
Inode == Job \cup {Orig}           \* a job creates at most one file
NoFile == "none"

NoRev == 0                         \* constant.GitRevision is empty
Build == [ver : Version, rev : 0 .. FeedRev + MaxReleases]
NoBuild == [ver |-> 0, rev |-> NoRev]      \* also a part not written
Release == [build : Build, draft : BOOLEAN]
Options == [channel : {"auto", "stable", "nightly"},
            force : BOOLEAN, restart : BOOLEAN]

ASSUME UpdaterAssumption ==
    /\ Requests \subseteq Options
    /\ CLI \subseteq Job
    /\ Version \subseteq Nat \ {0}
    /\ Pre \subseteq Version
    /\ Parts \in Nat \ {0}
    /\ FeedRev \in Nat
    /\ MaxReleases \in Nat
    /\ Feeds \subseteq SUBSET Release
    /\ MaxCrashes \in Nat
    /\ Orig \notin Job
    /\ NoFile \notin Inode

Part == 1 .. Parts
Content == [Part -> Build \cup {NoBuild}]

VARIABLES
    releases,         \* GitHub's releases
    published,        \* how many were added, which numbers their commits
    bin,              \* the inode the binary's path names
    tmp,              \* the inode the path with ".new" names, or NoFile
    file,             \* file[i]: the content of inode i
    up,               \* the service runs
    running,          \* the build it runs
    systemd,          \* the host has systemctl
    crashes,
    \* the jobs
    pc,               \* "idle", the next step of Apply, "done", "killed", or
                      \* "unrestarted" after a failed systemctl
    opts,             \* ApplyOptions
    current,          \* constant.Version and GitRevision of the job's process
    rel,              \* the build of the release picked
    off,              \* the number of parts the job has written
    src,              \* the build it downloads
    fd,               \* the inode it has open, or NoFile
    overlap           \* history: two jobs had the download open at once

github == <<releases, published>>
disk == <<bin, tmp, file>>
service == <<up, running, systemd>>
picked == <<opts, current, rel>>
copying == <<off, src, fd>>
vars == <<github, disk, service, crashes, pc, picked, copying, overlap>>

Empty == [p \in Part |-> NoBuild]

Of(b) == [p \in Part |-> b]        \* the file downloaded completely from b

\* The build in file i, if it is the whole of one.
Whole(i) == \E b \in Build : file[i] = Of(b)
BuildIn(i) == file[i][1]

----------------------------------------------------------------------------
(* Choosing the release.                                                   *)

ResolveChannel(channel, cur) ==
    IF channel # "auto" THEN channel
    ELSE IF cur.ver \in Pre THEN "nightly" ELSE "stable"

\* The releases a channel looks at: GitHub's /latest leaves out prereleases
\* and drafts, the nightly list is filtered by the code.
Candidates(channel) ==
    {r \in releases : ~r.draft /\ (r.build.ver \in Pre) = (channel = "nightly")}

IsLatest(r, channel) ==
    /\ r \in Candidates(channel)
    /\ \A q \in Candidates(channel) : q.build.rev <= r.build.rev

\* The builds a tag gives, by its commit or its assets: one once published.
Tagged(ver) == {r.build : r \in {q \in releases : q.build.ver = ver /\ ~q.draft}}

\* sha is the commit the tag names, or NoRev when it could not be fetched.
NightlyRepublished(build, sha, cur) ==
    /\ build.ver \in Pre
    /\ cur.rev # NoRev
    /\ sha # NoRev
    /\ sha # cur.rev

\* Mutant: every other version is taken for an update.
Installs_AnyOther(force, build, sha, cur) ==
    \/ force
    \/ build.ver = cur.ver /\ NightlyRepublished(build, sha, cur)
    \/ build.ver # cur.ver

\* What Apply decides for a release.
Installs(force, build, sha, cur) ==
    \/ force
    \/ build.ver = cur.ver /\ NightlyRepublished(build, sha, cur)
    \/ build.ver > cur.ver

----------------------------------------------------------------------------
Init ==
    /\ releases \in Feeds
    /\ \E r \in releases :
          /\ \A q \in releases : r.build.rev <= q.build.rev
          /\ running \in {r.build, [r.build EXCEPT !.rev = NoRev]}
    /\ published = 0
    /\ bin = Orig
    /\ tmp = NoFile
    /\ file = [i \in Inode |-> IF i = Orig THEN Of(running) ELSE Empty]
    /\ up = TRUE
    /\ systemd \in BOOLEAN
    /\ crashes = 0
    /\ pc = [j \in Job |-> "idle"]
    /\ opts = [j \in Job |-> [channel |-> "auto", force |-> FALSE, restart |-> FALSE]]
    /\ current = [j \in Job |-> NoBuild]
    /\ rel = [j \in Job |-> NoBuild]
    /\ off = [j \in Job |-> 0]
    /\ src = [j \in Job |-> NoBuild]
    /\ fd = [j \in Job |-> NoFile]
    /\ overlap = FALSE

\* A release is published.  A nightly's tag is rolling: it moves to the new
\* commit and the release is published anew.  A draft has no tag yet.
Publish(v, draft) ==
    LET others == {r \in releases : r.build.ver # v}
        build == [ver |-> v, rev |-> FeedRev + published + 1]
    IN  /\ published < MaxReleases
        /\ v \in Pre \/ others = releases
        /\ published' = published + 1
        /\ releases' = (IF draft THEN releases ELSE others)
                       \cup {[build |-> build, draft |-> draft]}
        /\ UNCHANGED <<disk, service, crashes, pc, picked, copying, overlap>>

Launch(j, o, cur) ==
    /\ pc[j] = "idle"
    /\ pc' = [pc EXCEPT ![j] = "pick"]
    /\ opts' = [opts EXCEPT ![j] = o]
    /\ current' = [current EXCEPT ![j] = cur]
    /\ UNCHANGED <<github, disk, service, crashes, rel, copying, overlap>>

\* A goroutine of the service for every request.
UpdateApply(j, o) == j \notin CLI /\ up /\ Launch(j, o, running)

\* A process of its own, started from the binary on disk.
UpdateCMD(j, o) == j \in CLI /\ Whole(bin) /\ Launch(j, o, BuildIn(bin))

\* Apply returns: nothing to do, or an error for the caller to log.
Return(j) == pc' = [pc EXCEPT ![j] = "done"]

PickRelease(j) ==
    /\ pc[j] = "pick"
    /\ \/ \E r \in releases :
             /\ IsLatest(r, ResolveChannel(opts[j].channel, current[j]))
             /\ rel' = [rel EXCEPT ![j] = r.build]
             /\ pc' = [pc EXCEPT ![j] = "decide"]
       \/ Return(j) /\ UNCHANGED rel          \* fetch failed, or no release
    /\ UNCHANGED <<github, disk, service, crashes, opts, current, copying, overlap>>

\* Up to date, a downgrade, or go on; no asset for the platform is an error.
Decide(j) ==
    /\ pc[j] = "decide"
    /\ \E sha \in {b.rev : b \in Tagged(rel[j].ver)} \cup {NoRev} :
          \/ /\ Installs(opts[j].force, rel[j], sha, current[j])
             /\ pc' = [pc EXCEPT ![j] = "open"]
          \/ Return(j)
    /\ UNCHANGED <<github, disk, service, crashes, picked, copying, overlap>>

----------------------------------------------------------------------------
(* Downloading and swapping.                                               *)

\* An error after the path is known: os.Remove(tmpPath), whoever made the file.
Abort(j) == Return(j) /\ tmp' = NoFile

Downloading == {"write", "chmod", "rename"}

\* OpenFile(O_CREATE|O_WRONLY|O_TRUNC) of the path all jobs share.
OpenTmp(j) ==
    LET i == IF tmp = NoFile THEN j ELSE tmp
    IN  /\ tmp' = i
        /\ file' = [file EXCEPT ![i] = Empty]
        /\ fd' = [fd EXCEPT ![j] = i]
        /\ overlap' = (overlap \/ \E k \in Job : pc[k] \in Downloading)

Download(j) ==
    /\ pc[j] = "open"
    /\ \/ /\ \E b \in Tagged(rel[j].ver) : src' = [src EXCEPT ![j] = b]
          /\ OpenTmp(j)
          /\ pc' = [pc EXCEPT ![j] = "write"]
       \/ Abort(j) /\ UNCHANGED <<file, src, fd, overlap>>
    /\ UNCHANGED <<github, bin, service, crashes, picked, off>>

\* Mutant: the end of the body is not noticed.
WritePart_PastEnd(j) ==
    /\ pc[j] = "write"
    /\ off[j] <= Parts
    /\ file' = [file EXCEPT ![fd[j]][off[j] + 1] = src[j]]
    /\ off' = [off EXCEPT ![j] = @ + 1]
    /\ UNCHANGED <<github, bin, tmp, service, crashes, pc, picked, src, fd, overlap>>

\* io.Copy writes at the descriptor's own offset.
WritePart(j) ==
    LET p == off[j] + 1
    IN  /\ pc[j] = "write"
        /\ file' = [file EXCEPT ![fd[j]][p] = src[j]]
        /\ off' = [off EXCEPT ![j] = p]
        /\ pc' = [pc EXCEPT ![j] = IF p = Parts THEN "chmod" ELSE "write"]
        /\ fd' = [fd EXCEPT ![j] = IF p = Parts THEN NoFile ELSE fd[j]]
        /\ UNCHANGED <<github, bin, tmp, service, crashes, picked, src, overlap>>

\* Mutant: the error of io.Copy is dropped.
DownloadFails_Ignored(j) ==
    /\ pc[j] = "write"
    /\ pc' = [pc EXCEPT ![j] = "chmod"]
    /\ fd' = [fd EXCEPT ![j] = NoFile]
    /\ UNCHANGED <<github, disk, service, crashes, picked, off, src, overlap>>

DownloadFails(j) ==
    /\ pc[j] = "write"
    /\ Abort(j)
    /\ fd' = [fd EXCEPT ![j] = NoFile]
    /\ UNCHANGED <<github, bin, file, service, crashes, picked, off, src, overlap>>

\* By path: fails, and removes, when another job renamed or removed the file.
Chmod(j) ==
    /\ pc[j] = "chmod"
    /\ \/ tmp # NoFile /\ pc' = [pc EXCEPT ![j] = "rename"] /\ UNCHANGED tmp
       \/ Abort(j)
    /\ UNCHANGED <<github, bin, file, service, crashes, picked, copying, overlap>>

Rename(j) ==
    /\ pc[j] = "rename"
    /\ \/ /\ tmp # NoFile
          /\ bin' = tmp
          /\ tmp' = NoFile
          /\ pc' = [pc EXCEPT ![j] = IF opts[j].restart THEN "restart" ELSE "done"]
       \/ Abort(j) /\ UNCHANGED bin
    /\ UNCHANGED <<github, file, service, crashes, picked, copying, overlap>>

----------------------------------------------------------------------------
(* Processes.                                                              *)

AtRest == {"idle", "done", "unrestarted"}

\* The processes of the jobs in K die, whatever they were doing.
Kill(K) ==
    LET dead == {j \in K : pc[j] \notin AtRest}
    IN  /\ pc' = [j \in Job |-> IF j \in dead THEN "killed" ELSE pc[j]]
        /\ fd' = [j \in Job |-> IF j \in dead THEN NoFile ELSE fd[j]]

\* The service is started from the binary on disk, if that is a program.
Boot ==
    /\ up' = Whole(bin)
    /\ running' = IF Whole(bin) THEN BuildIn(bin) ELSE running

\* Mutant: the service is reloaded, not restarted.
RestartSystemd_Reload(j) ==
    /\ pc[j] = "restart"
    /\ Return(j)
    /\ UNCHANGED <<github, disk, service, crashes, picked, copying, overlap>>

\* Without systemctl nothing happens, and it may fail (no permission, no such
\* unit): Apply returns its error with the binary replaced.  Otherwise the
\* service is killed, the goroutine that asked for it included, and started
\* again.
RestartSystemd(j) ==
    /\ pc[j] = "restart"
    /\ \/ ~systemd /\ Return(j) /\ UNCHANGED <<up, running, fd>>
       \/ /\ systemd
          /\ pc' = [pc EXCEPT ![j] = "unrestarted"]
          /\ UNCHANGED <<up, running, fd>>
       \/ systemd /\ j \notin CLI /\ Kill(Job \ CLI) /\ Boot
       \/ /\ systemd /\ j \in CLI /\ Boot
          /\ pc' = [k \in Job |-> IF k = j THEN "done"
                                  ELSE IF k \notin CLI /\ pc[k] \notin AtRest
                                  THEN "killed" ELSE pc[k]]
          /\ fd' = [k \in Job |-> IF k \in CLI THEN fd[k] ELSE NoFile]
    /\ UNCHANGED <<github, disk, systemd, crashes, picked, off, src, overlap>>

\* The service dies; systemd (Restart=always) starts it again.
ServiceCrash ==
    /\ up
    /\ crashes < MaxCrashes
    /\ crashes' = crashes + 1
    /\ up' = FALSE
    /\ Kill(Job \ CLI)
    /\ UNCHANGED <<github, disk, running, systemd, picked, off, src, overlap>>

ServiceStart ==
    /\ ~up
    /\ Whole(bin)
    /\ Boot
    /\ UNCHANGED <<github, disk, systemd, crashes, pc, picked, copying, overlap>>

CLICrash(j) ==
    /\ pc[j] \notin AtRest \cup {"killed"}
    /\ crashes < MaxCrashes
    /\ crashes' = crashes + 1
    /\ Kill({j})
    /\ UNCHANGED <<github, disk, service, picked, off, src, overlap>>

----------------------------------------------------------------------------
Apply(j) ==
    \/ PickRelease(j)
    \/ Decide(j)
    \/ Download(j)
    \/ WritePart(j)
    \/ DownloadFails(j)
    \/ Chmod(j)
    \/ Rename(j)
    \/ RestartSystemd(j)

Next ==
    \/ \E v \in Version, draft \in BOOLEAN : Publish(v, draft)
    \/ \E j \in Job : (\E o \in Requests : UpdateApply(j, o) \/ UpdateCMD(j, o)) \/ Apply(j)
    \/ ServiceCrash
    \/ ServiceStart
    \/ \E j \in CLI : CLICrash(j)

Spec == Init /\ [][Next]_vars

\* Every wait of Apply is bounded by its context, and systemd restarts the
\* service; nothing obliges anybody to publish, to update or to crash.
Fairness == WF_vars(ServiceStart) /\ \A j \in Job : WF_vars(Apply(j))

FairSpec == Spec /\ Fairness

----------------------------------------------------------------------------
TypeOK ==
    /\ releases \in SUBSET Release /\ published \in 0 .. MaxReleases
    /\ bin \in Inode /\ tmp \in Inode \cup {NoFile}
    /\ file \in [Inode -> Content]
    /\ up \in BOOLEAN /\ running \in Build /\ systemd \in BOOLEAN
    /\ crashes \in 0 .. MaxCrashes
    /\ pc \in [Job -> {"pick", "decide", "open", "restart", "killed"}
                      \cup AtRest \cup Downloading]
    /\ opts \in [Job -> Options]
    /\ current \in [Job -> Build \cup {NoBuild}]
    /\ rel \in [Job -> Build \cup {NoBuild}]
    /\ off \in [Job -> 0 .. Parts]
    /\ src \in [Job -> Build \cup {NoBuild}]
    /\ fd \in [Job -> Inode \cup {NoFile}]
    /\ overlap \in BOOLEAN

\* The binary on disk is one complete build, whatever fails or dies at any
\* step of Apply and whatever an earlier update left at the temporary path,
\* as long as no two downloads were open at once.
BinaryWhole == ~overlap => Whole(bin)

\* An update without force that replaces the very build its process runs
\* does not install an older version: also if the rolling tag moved between
\* its check and its download.
NoStaleDowngrade ==
    [][\A j \in Job :
          (/\ pc[j] = "rename" /\ bin' # bin /\ pc'[j] # pc[j]
           /\ ~opts[j].force /\ ~overlap
           /\ current[j] = BuildIn(bin))
          => BuildIn(bin').ver >= BuildIn(bin).ver]_vars

\* An update that got as far as restarting the service leads to the service
\* running the binary on disk, unless the host has no systemd, systemctl
\* failed, the process that asked for it was killed, or downloads overlapped.
UpdateTakesEffect ==
    \A j \in Job :
        pc[j] = "restart" ~> \/ up /\ file[bin] = Of(running)
                             \/ ~systemd \/ pc[j] = "unrestarted" \/ overlap
                             \/ (j \in CLI /\ pc[j] = "killed")
=============================================================================
