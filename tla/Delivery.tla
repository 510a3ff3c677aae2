------------------------------ MODULE Delivery ------------------------------
(***************************************************************************)
(* src/frf/observe/images.py, in_image.py and replay.py: an export drives  *)
(* the task inside the image it ships, saves the image that was driven,    *)
(* and commits it next to its evidence.  Several exporters of one task run *)
(* at once over one directory, the task may be rewritten meanwhile, the    *)
(* wire fails, and an exporter may die between any two steps.              *)
(***************************************************************************)
EXTENDS Remote

CONSTANTS Exporter,   \* processes that export the task to one destination
          MaxFaults,  \* failures of the wire
          MaxExports, \* exports that are begun
          MaxRewrites,
          MaxCrashes

ASSUME DeliveryAssumption ==
    /\ Subjects \subseteq [builds : BOOLEAN, separate : BOOLEAN, complete : BOOLEAN,
                          answers : {"full", "part", "untimed", "nothing"}]
    /\ MaxFaults \in Nat /\ MaxExports \in Nat \ {0} /\ MaxRewrites \in Nat /\ MaxCrashes \in Nat

VARIABLES
    pc,        \* where an exporter is
    turn,      \* which of all the exports is its own
    exports,   \* begun so far
    sandbox,   \* its sandbox
    record,    \* what driving the task has said so far
    digest,    \* the task as it was before it was pushed
    builds,    \* attempts at building the image
    artifact,  \* of the image being saved: the solver's, then the verifier's
    handle,    \* the lock file it has open, 0 if none
    holding,   \* whether it holds that lock
    linked,    \* files it has committed in this export
    path,      \* the file at the lock's path, 0 if there is none
    inodes,    \* lock files made so far
    files,     \* the destination: what is committed under each name
    version,   \* of the task on disk
    lost, crashes

shared == <<path, inodes, files, exports>>
own == <<turn, digest, builds, artifact, handle, holding, linked>>
outside == <<subject, version, lost, crashes>>
vars == <<pc, sandbox, record, own, shared, outside>>

Files == {"archive", "audit", "verifier_archive", "verifier_audit", "verifier_metadata", "metadata"}
Nothing == [export |-> 0]

\* Mutant of Commits: the metadata goes first.
CommitsMetadataFirst ==
    IF subject.separate
    THEN <<"metadata", "archive", "audit", "verifier_archive", "verifier_audit", "verifier_metadata">>
    ELSE <<"metadata", "archive", "audit">>

\* What is committed, in this order: the metadata last, so that whoever finds it finds all.
Commits ==
    IF subject.separate
    THEN <<"archive", "audit", "verifier_archive", "verifier_audit", "verifier_metadata", "metadata">>
    ELSE <<"archive", "audit", "metadata">>

Blank == [ok |-> FALSE, stage |-> "none", total |-> 0, cleanup |-> TRUE, image |-> 0, verifier |-> 0, named |-> 0]

Init ==
    /\ pc = [e \in Exporter |-> "idle"] /\ turn = [e \in Exporter |-> 0] /\ exports = 0
    /\ sandbox = [e \in Exporter |-> Fresh] /\ record = [e \in Exporter |-> Blank]
    /\ digest = [e \in Exporter |-> 0] /\ builds = [e \in Exporter |-> 0]
    /\ artifact = [e \in Exporter |-> "solver"]
    /\ handle = [e \in Exporter |-> 0] /\ holding = [e \in Exporter |-> FALSE]
    /\ linked = [e \in Exporter |-> 0]
    /\ path = 0 /\ inodes = 0 /\ files = [f \in Files |-> Nothing]
    /\ subject \in Subjects
    /\ version = 1 /\ lost = 0 /\ crashes = 0

\* Nothing of an export outlives it but what it wrote; its lock goes with its file.
Ended(e) ==
    /\ handle' = [handle EXCEPT ![e] = 0] /\ holding' = [holding EXCEPT ![e] = FALSE]
    /\ sandbox' = [sandbox EXCEPT ![e] = Fresh] /\ record' = [record EXCEPT ![e] = Blank]
    /\ digest' = [digest EXCEPT ![e] = 0] /\ builds' = [builds EXCEPT ![e] = 0]
    /\ artifact' = [artifact EXCEPT ![e] = "solver"] /\ linked' = [linked EXCEPT ![e] = 0]

At(e, place) == pc[e] = place
Go(e, place) == pc' = [pc EXCEPT ![e] = place]
Said(e, new) == record' = [record EXCEPT ![e] = new]

-----------------------------------------------------------------------------
(* export: the destination and its lock.                                   *)

\* The destination is looked at before the lock is taken.
Begin(e) ==
    /\ At(e, "idle") /\ exports < MaxExports /\ exports' = exports + 1
    /\ turn' = [turn EXCEPT ![e] = exports + 1]
    /\ IF \E f \in {"archive", "metadata", "audit"} : files[f] # Nothing
       THEN UNCHANGED pc ELSE Go(e, "open")
    /\ UNCHANGED <<sandbox, record, digest, builds, artifact, handle, holding, linked, path, inodes, files, outside>>

\* The file at the path is opened, or made.
OpenLock(e) ==
    /\ At(e, "open") /\ Go(e, "lock")
    /\ IF path = 0 THEN path' = inodes + 1 /\ inodes' = inodes + 1 ELSE UNCHANGED <<path, inodes>>
    /\ handle' = [handle EXCEPT ![e] = path']
    /\ UNCHANGED <<sandbox, record, turn, digest, builds, artifact, holding, linked, files, exports, outside>>

\* The lock is the file's, not the path's: refused if another process holds this file.
Lock(e) ==
    /\ At(e, "lock")
    /\ IF \E f \in Exporter : holding[f] /\ handle[f] = handle[e]
       THEN Go(e, "idle") /\ handle' = [handle EXCEPT ![e] = 0] /\ UNCHANGED holding
       ELSE Go(e, "connect") /\ holding' = [holding EXCEPT ![e] = TRUE] /\ UNCHANGED handle
    /\ UNCHANGED <<sandbox, record, turn, digest, builds, artifact, linked, shared, outside>>

Connect(e) ==
    /\ At(e, "connect")
    /\ \E o \in Opens :
          /\ lost + o.lost <= MaxFaults /\ lost' = lost + o.lost
          /\ Go(e, IF o.ok THEN "digest" ELSE "leave")
    /\ UNCHANGED <<sandbox, record, own, shared, subject, version, crashes>>

\* However it ended: the path is removed first, the lock is released with the file.
Unlink(e) ==
    /\ At(e, "leave") /\ Go(e, "close")
    /\ path' = 0
    /\ UNCHANGED <<sandbox, record, own, inodes, files, exports, outside>>

Close(e) ==
    /\ At(e, "close") /\ Go(e, "idle")
    /\ Ended(e)
    /\ UNCHANGED <<turn, shared, outside>>

-----------------------------------------------------------------------------
(* replay and drive: the task inside its own image.                        *)

\* The task is named by its bytes before they leave.
Digest(e) ==
    /\ At(e, "digest") /\ Go(e, "push")
    /\ digest' = [digest EXCEPT ![e] = version]
    /\ UNCHANGED <<sandbox, record, turn, builds, artifact, handle, holding, linked, shared, outside>>

\* A command of e has ended, or been given up, with outcome o.
Returns(e, o) ==
    /\ lost + o.lost <= MaxFaults /\ lost' = lost + o.lost
    /\ sandbox' = [sandbox EXCEPT ![e] = o.world]
    /\ UNCHANGED <<turn, digest, handle, holding, linked, shared, subject, version, crashes>>

Drive(e, place, outcomes, stage, next) ==
    /\ At(e, place)
    /\ \E o \in outcomes :
          /\ Returns(e, o)
          /\ IF o.exit = 0 THEN Go(e, next) /\ UNCHANGED record
             ELSE Go(e, "rm_container") /\ Said(e, [record[e] EXCEPT !.stage = stage])
    /\ UNCHANGED <<builds, artifact>>

Push(e) == Drive(e, "push", Pushed(sandbox[e], version), "none", "chmod")
Chmod(e) == Drive(e, "chmod", Sent("chmod", "task", sandbox[e]), "none", "build")

\* A build that says its network failed is tried again, three times in all; one of which
\* nothing is heard is not.
Build(e) ==
    /\ At(e, "build")
    /\ \E o \in Sent("build", "solver", sandbox[e]) :
          /\ Returns(e, o)
          /\ CASE o.exit = 0 -> Go(e, "identify") /\ UNCHANGED record
               [] o.exit # 0 /\ o.said = "wire" /\ builds[e] < 2 -> UNCHANGED <<pc, record>>
               [] OTHER -> Go(e, "rm_container") /\ Said(e, [record[e] EXCEPT !.stage = "build"])
    /\ builds' = [builds EXCEPT ![e] = @ + 1]
    /\ UNCHANGED artifact

\* The image is known from here on by the identity it was given, not by its tag.
Identify(e, which, place, stage, next) ==
    /\ At(e, place)
    /\ \E o \in Sent("identify", which, sandbox[e]) :
          /\ Returns(e, o)
          /\ IF o.exit = 0
             THEN Go(e, next) /\ Said(e, IF which = "solver"
                                         THEN [record[e] EXCEPT !.image = o.world.image[which]]
                                         ELSE [record[e] EXCEPT !.verifier = o.world.image[which]])
             ELSE Go(e, "rm_container") /\ Said(e, [record[e] EXCEPT !.stage = stage])
    /\ UNCHANGED <<builds, artifact>>

Inventory(e) ==
    Drive(e, "inventory", Sent("inventory", "workspace", sandbox[e]), "workspace_inventory",
          IF subject.separate THEN "build_verifier" ELSE "replay")

Verifier(e) ==
    \/ Drive(e, "build_verifier", Sent("build", "verifier", sandbox[e]), "verifier_build", "identify_verifier")
    \/ Identify(e, "verifier", "identify_verifier", "verifier_build", "replay")

\* A report, full marks and a valid measurement; the evidence is for the verifier's bytes.
Replay(e) ==
    /\ At(e, "replay")
    /\ \E o \in Sent("replay", "container", sandbox[e]) :
          /\ Returns(e, o)
          /\ IF o.exit = 0
             THEN Go(e, "tag") /\ Said(e, [record[e] EXCEPT !.ok = TRUE, !.stage = "image_export", !.total = 1])
             ELSE /\ Go(e, "rm_container")
                  /\ Said(e, [record[e] EXCEPT !.stage = "replay",
                                               !.total = IF o.said \in {"part", "untimed"} THEN 1 ELSE 0])
    /\ UNCHANGED <<builds, artifact>>

-----------------------------------------------------------------------------
(* save: the image that was driven, named by its identity, and its audit.  *)

Failed(e) == Said(e, [record[e] EXCEPT !.ok = FALSE])

Save(e, place, outcomes, next, otherwise) ==
    /\ At(e, place)
    /\ \E o \in outcomes :
          /\ Returns(e, o)
          /\ IF o.exit = 0 THEN Go(e, next) /\ UNCHANGED record ELSE Go(e, otherwise) /\ Failed(e)
    /\ UNCHANGED <<builds, artifact>>

Free(e) == files[IF artifact[e] = "solver" THEN "archive" ELSE "verifier_archive"] = Nothing

Tag(e) == Free(e) /\ Save(e, "tag", Sent("tag", artifact[e], sandbox[e]), "save", "drop_untagged")

\* The verifier's save is inside the solver's: when it is over, that one is ended.
Outwards(e) ==
    IF artifact[e] = "verifier" THEN Go(e, "drop") /\ artifact' = [artifact EXCEPT ![e] = "solver"]
                                ELSE Go(e, "rm_container") /\ UNCHANGED artifact

\* Nothing is saved for a name that is taken by now.
Taken(e) ==
    /\ At(e, "tag") /\ ~Free(e)
    /\ Outwards(e)
    /\ Failed(e)
    /\ UNCHANGED <<sandbox, turn, digest, builds, handle, holding, linked, shared, outside>>

SaveImage(e) == Save(e, "save", Sent("save", artifact[e], sandbox[e]), "pull", "drop")
Pull(e) == Save(e, "pull", Pulled(sandbox[e], artifact[e]), "audit", "drop")

\* The layers are read; what is not complete or not clean is not exported.  A task with a
\* verifier image saves that one next, before either is cleaned up.
Audit(e) ==
    /\ At(e, "audit")
    /\ \/ Go(e, "drop") /\ Failed(e) /\ UNCHANGED artifact
       \/ /\ UNCHANGED record
          /\ IF subject.separate /\ artifact[e] = "solver"
             THEN Go(e, "tag") /\ artifact' = [artifact EXCEPT ![e] = "verifier"]
             ELSE Go(e, "drop") /\ UNCHANGED artifact
    /\ UNCHANGED <<sandbox, turn, digest, builds, handle, holding, linked, shared, outside>>

\* finally: the directory, then the tag, of the inner save before the outer one.
Drop(e) ==
    \/ Save(e, "drop", Sent("drop", artifact[e], sandbox[e]), "untag", "untag")
    \/ /\ At(e, "drop_untagged")
       /\ \E o \in Sent("drop", artifact[e], sandbox[e]) : Returns(e, o)
       /\ Outwards(e)
       /\ UNCHANGED <<record, builds>>

Untag(e) ==
    /\ At(e, "untag")
    /\ \E o \in Sent("untag", artifact[e], sandbox[e]) :
          /\ Returns(e, o)
          /\ IF o.exit = 0 THEN UNCHANGED record ELSE Failed(e)
    /\ Outwards(e)
    /\ UNCHANGED builds

-----------------------------------------------------------------------------
(* finally: what the drive made is removed, and a verdict of ok with       *)
(* something left over is no verdict of ok.                                *)

\* Mutant of Cleaned: what could not be removed is noted, and the verdict stands.
CleanedOnlyNoted(r, o) == IF o.exit # 0 /\ o.said # "absent" THEN [r EXCEPT !.cleanup = FALSE] ELSE r

Cleaned(r, o) ==
    IF o.exit # 0 /\ o.said # "absent"
    THEN [r EXCEPT !.cleanup = FALSE, !.ok = FALSE, !.stage = IF r.ok THEN "cleanup" ELSE @]
    ELSE r

Clean(e, place, thing, next) ==
    /\ At(e, place) /\ Go(e, next)
    /\ \E o \in Sent("rm", thing, sandbox[e]) : Returns(e, o) /\ Said(e, Cleaned(record[e], o))
    /\ UNCHANGED <<builds, artifact>>

Cleanup(e) ==
    \/ Clean(e, "rm_container", "container", IF record[e].verifier # 0 THEN "rm_verifier" ELSE "rm_solver")
    \/ Clean(e, "rm_verifier", "verifier", "rm_solver")
    \/ Clean(e, "rm_solver", "solver", "rm_task")
    \/ Clean(e, "rm_task", "task", "confirm")

Unchanged(e) == digest[e] = version

\* replay and image_check: a drive that is not ok, or a task that changed meanwhile.
Confirm(e) ==
    /\ At(e, "confirm")
    /\ Go(e, IF record[e].ok /\ Unchanged(e) THEN "name" ELSE "leave")
    /\ UNCHANGED <<sandbox, record, own, shared, outside>>

\* The directory is digested once more, after the check, and what is delivered carries this name.
Name(e) ==
    /\ At(e, "name") /\ Go(e, "commit")
    /\ Said(e, [record[e] EXCEPT !.named = version])
    /\ UNCHANGED <<sandbox, own, shared, outside>>

-----------------------------------------------------------------------------
(* commit: each file is linked into place unless something is there.       *)

Export(e) == [export |-> turn[e], image |-> record[e].image, verifier |-> record[e].verifier,
              checked |-> digest[e], named |-> record[e].named, full |-> record[e].ok, left |-> sandbox[e]]

Link(e) ==
    /\ At(e, "commit")
    /\ LET f == Commits[linked[e] + 1] IN
          IF files[f] = Nothing
          THEN /\ files' = [files EXCEPT ![f] = Export(e)]
               /\ linked' = [linked EXCEPT ![e] = @ + 1]
               /\ IF linked[e] + 1 = Len(Commits) THEN Go(e, "leave") ELSE UNCHANGED pc
          ELSE Go(e, "rollback") /\ UNCHANGED <<files, linked>>
    /\ UNCHANGED <<sandbox, record, turn, digest, builds, artifact, handle, holding, path, inodes, exports, outside>>

\* The disk refuses a link.
LinkFails(e) ==
    /\ At(e, "commit") /\ crashes < MaxCrashes /\ crashes' = crashes + 1
    /\ Go(e, "rollback")
    /\ UNCHANGED <<sandbox, record, own, shared, subject, version, lost>>

\* What was linked is removed in reverse, if it is still ours.
Rollback(e) ==
    /\ At(e, "rollback")
    /\ IF linked[e] = 0 THEN Go(e, "leave") /\ UNCHANGED <<files, linked>>
       ELSE LET f == Commits[linked[e]] IN
            /\ files' = (IF files[f] = Export(e) THEN [files EXCEPT ![f] = Nothing] ELSE files)
            /\ linked' = [linked EXCEPT ![e] = @ - 1]
            /\ UNCHANGED pc
    /\ UNCHANGED <<sandbox, record, turn, digest, builds, artifact, handle, holding, path, inodes, exports, outside>>

-----------------------------------------------------------------------------
(* Outside.                                                                *)

\* The task is written again while somebody exports it.
Rewrite ==
    /\ version <= MaxRewrites /\ version' = version + 1
    /\ UNCHANGED <<pc, sandbox, record, own, shared, subject, lost, crashes>>

\* The process dies: its lock goes with it, its lock file and what it linked stay.
Crash(e) ==
    /\ pc[e] # "idle" /\ crashes < MaxCrashes /\ crashes' = crashes + 1
    /\ Go(e, "idle")
    /\ Ended(e)
    /\ UNCHANGED <<turn, shared, subject, version, lost>>

Work(e) ==
    \/ Begin(e) \/ OpenLock(e) \/ Lock(e) \/ Connect(e) \/ Unlink(e) \/ Close(e)
    \/ Digest(e) \/ Push(e) \/ Chmod(e) \/ Build(e)
    \/ Identify(e, "solver", "identify", "image_identity", "inventory")
    \/ Inventory(e) \/ Verifier(e) \/ Replay(e)
    \/ Taken(e) \/ Tag(e) \/ SaveImage(e) \/ Pull(e) \/ Audit(e) \/ Drop(e) \/ Untag(e)
    \/ Cleanup(e) \/ Confirm(e) \/ Name(e) \/ Link(e) \/ LinkFails(e) \/ Rollback(e)

Next == \/ \E e \in Exporter : Work(e) \/ Crash(e)
        \/ Rewrite

Spec == Init /\ [][Next]_vars

-----------------------------------------------------------------------------
(* Properties.                                                             *)

Places == {"idle", "open", "lock", "connect", "digest", "push", "chmod", "build", "identify",
           "inventory", "build_verifier", "identify_verifier", "replay", "tag", "save", "pull",
           "audit", "drop", "drop_untagged", "untag", "rm_container", "rm_verifier", "rm_solver",
           "rm_task", "confirm", "name", "commit", "rollback", "leave", "close"}
World == [unpacked : Nat, image : [Artifacts -> Nat], running : BOOLEAN,
          tagged : SUBSET Artifacts, saved : SUBSET Artifacts]
Stages == {"none", "build", "image_identity", "workspace_inventory", "verifier_build", "replay",
           "image_export", "cleanup"}
Record == [ok : BOOLEAN, stage : Stages, total : Nat, cleanup : BOOLEAN, image : Nat, verifier : Nat,
           named : Nat]
Exports == [export : Nat, image : Nat, verifier : Nat, checked : Nat, named : Nat, full : BOOLEAN, left : World]

\* Every variable stays within its type.
TypeOK ==
    /\ pc \in [Exporter -> Places] /\ turn \in [Exporter -> Nat] /\ exports \in Nat
    /\ sandbox \in [Exporter -> World] /\ record \in [Exporter -> Record]
    /\ digest \in [Exporter -> Nat] /\ builds \in [Exporter -> Nat]
    /\ handle \in [Exporter -> Nat] /\ linked \in [Exporter -> Nat]
    /\ artifact \in [Exporter -> Artifacts] /\ holding \in [Exporter -> BOOLEAN]
    /\ files \in [Files -> {Nothing} \union Exports]
    /\ subject \in Subjects
    /\ version \in Nat \ {0} /\ path \in Nat /\ inodes \in Nat /\ lost \in Nat /\ crashes \in Nat

Delivered == files["metadata"] # Nothing

\* Whoever finds the metadata finds every file it speaks of, each from the same
\* export: two exporters that are inside at once, because the lock's file was
\* removed under one of them, never mix theirs, and neither a crash between two
\* links nor a rollback takes one away from under the metadata.
MetadataIsOneExport ==
    Delivered => \A k \in DOMAIN Commits : files[Commits[k]] = files["metadata"]

\* What is delivered is an image built from the bytes that were digested before
\* they left and were still there after the last cleanup; it earned full marks,
\* and the sandbox it came from was left without a container, an image tag or a
\* copy of the task, however often the wire made a command run twice.  The name
\* it is delivered under is taken later: never of an older task, and of another
\* one only if the task was written since.
DeliveredWasDriven ==
    Delivered =>
        LET m == files["metadata"] IN
        /\ m.full /\ m.image = m.checked
        /\ subject.separate => m.verifier = m.checked
        /\ m.named \in m.checked..version
        /\ subject.answers = "full" /\ subject.builds /\ subject.complete
        /\ m.left = Fresh

\* The source_task_sha256 of a delivery names the bytes its image was built from
\* and driven with.
NamedIsDriven == Delivered => files["metadata"].named = files["metadata"].image

\* reproduces_in_its_own_image: the verdict over a record.
Verdict(r) ==
    CASE r.ok -> "HOLDS"
      [] ~r.ok /\ r.stage \in {"dockerfile", "unavailable"} -> "INCONCLUSIVE"
      [] ~r.ok /\ r.stage = "build" -> "FAILS"
      [] OTHER -> IF r.total = 0 THEN "INCONCLUSIVE" ELSE "FAILS"

\* A build that failed on the wire is inconclusive, not a statement that the task
\* is wrong.
BuildWireIsInconclusive ==
    \A e \in Exporter :
        record[e].stage = "build" /\ Verdict(record[e]) = "FAILS" => ~subject.builds

=============================================================================
