--------------------------- MODULE DeliveryProofs ---------------------------
(***************************************************************************)
(* What an export commits, for any number of exporters, of exports, of     *)
(* failures of the wire, of rewrites of the task and of crashes.           *)
(***************************************************************************)
EXTENDS Delivery, TLAPS

-----------------------------------------------------------------------------
(* Commands.                                                               *)

Commands == ({"build", "identify", "tag", "save", "drop", "untag", "rm"} \X Artifacts)
                \union {<<"chmod", "task">>, <<"inventory", "workspace">>, <<"replay", "container">>,
                        <<"rm", "container">>, <<"rm", "task">>}

Replies == {"done", "broken", "wire", "conflict", "silence", "absent", "full", "part", "untimed", "nothing"}
Outcomes == [world : World, exit : Nat, said : Replies, lost : Nat]

LEMMA EndsType ==
    ASSUME NEW w \in World, NEW exit \in Nat, NEW said \in Replies
    PROVE  Ends(w, exit, said) \in Outcomes
BY DEF Ends, Outcomes

\* Every command leaves a sandbox.
LEMMA EffectType ==
    ASSUME subject \in Subjects, NEW w \in World, NEW verb, NEW thing, <<verb, thing>> \in Commands
    PROVE  Effect(verb, thing, w) \subseteq Outcomes
<1> USE DEF Outcomes, Replies, World, Artifacts, Ends
<1>1. subject.answers \in {"full", "part", "untimed", "nothing"}
  BY DeliveryAssumption DEF DeliveryAssumption
<1>2. CASE verb = "build"
  BY <1>2 DEF Effect, Builds, Commands
<1>3. CASE verb = "identify"
  BY <1>3 DEF Effect, Commands
<1>4. CASE verb = "tag" \/ verb = "save" \/ verb = "drop"
  BY <1>4 DEF Effect, Commands
<1>5. CASE verb = "untag"
  BY <1>5 DEF Effect, Commands, Removes
<1>6. CASE verb = "rm"
  <2>1. CASE thing \in Artifacts
    <3>1. [w EXCEPT !.image[thing] = 0] \in World
      BY <2>1
    <3> HIDE DEF Ends, Outcomes, World
    <3>2. Effect(verb, thing, w) \subseteq {Ends([w EXCEPT !.image[thing] = 0], 0, "done"),
                                            Ends(w, 0, "done"), Ends(w, 1, "absent")}
      BY <1>6, <2>1 DEF Effect, Removes
    <3> QED
      BY <3>1, <3>2, EndsType
  <2>2. CASE thing = "container"
    <3>1. [w EXCEPT !.running = FALSE] \in World
      OBVIOUS
    <3> HIDE DEF Ends, Outcomes, World
    <3>2. Effect(verb, thing, w) \subseteq {Ends([w EXCEPT !.running = FALSE], 0, "done"),
                                            Ends(w, 0, "done"), Ends(w, 1, "absent")}
      BY <1>6, <2>2 DEF Effect, Removes
    <3> QED
      BY <3>1, <3>2, EndsType
  <2>3. CASE thing = "task"
    BY <1>6, <2>3 DEF Effect
  <2> QED
    BY <1>6, <2>1, <2>2, <2>3 DEF Commands
<1>7. CASE verb = "chmod" \/ verb = "inventory"
  BY <1>7 DEF Effect, Commands
<1>8. CASE verb = "replay"
  BY <1>8, <1>1 DEF Effect, Commands, Runs
<1> QED
  BY <1>2, <1>3, <1>4, <1>5, <1>6, <1>7, <1>8 DEF Commands

\* However far it got.
LEMMA UnansweredType ==
    ASSUME subject \in Subjects, NEW w \in World, NEW verb, NEW thing, <<verb, thing>> \in Commands
    PROVE  Unanswered(verb, thing, w) \subseteq World
<1>1. \A o \in Effect(verb, thing, w) : o.world \in World
  BY EffectType DEF Outcomes
<1>2. [w EXCEPT !.running = TRUE] \in World
  BY DEF World
<1> QED
  BY <1>1, <1>2 DEF Unanswered

\* However often it was sent.
LEMMA SentType ==
    ASSUME subject \in Subjects, NEW w \in World, NEW verb, NEW thing, <<verb, thing>> \in Commands
    PROVE  Sent(verb, thing, w) \subseteq Outcomes
<1>1. SUFFICES ASSUME NEW o \in Sent(verb, thing, w) PROVE o \in Outcomes
  OBVIOUS
<1>2. \A v \in World : Unanswered(verb, thing, v) \subseteq World /\ Effect(verb, thing, v) \subseteq Outcomes
  BY UnansweredType, EffectType
<1>3. \A v \in World, n \in Nat : Also(Ends(v, 1, "silence"), n) \in Outcomes
  BY DEF Also, Ends, Outcomes, Replies
<1>4. \A x \in Outcomes : Also(x, 1) \in Outcomes
  BY DEF Also, Outcomes
<1>5. CASE o \in Effect(verb, thing, w)
  BY <1>5, <1>2
<1>6. CASE \E after \in Unanswered(verb, thing, w) : o = Also(Ends(after, 1, "silence"), 1)
  BY <1>6, <1>2, <1>3
<1>7. CASE \E after \in Unanswered(verb, thing, w) : \E x \in Effect(verb, thing, after) : o = Also(x, 1)
  BY <1>7, <1>2, <1>4
<1>8. CASE \E after \in Unanswered(verb, thing, w) : \E last \in Unanswered(verb, thing, after) :
              o = Also(Ends(last, 1, "silence"), 2)
  <2>1. PICK after \in Unanswered(verb, thing, w) : \E last \in Unanswered(verb, thing, after) :
              o = Also(Ends(last, 1, "silence"), 2)
    BY <1>8
  <2>2. after \in World
    BY <1>2
  <2> QED
    BY <2>1, <2>2, <1>2, <1>3
<1>9. \/ o \in Effect(verb, thing, w)
      \/ \E after \in Unanswered(verb, thing, w) :
            \/ o = Also(Ends(after, 1, "silence"), 1)
            \/ \E x \in Effect(verb, thing, after) : o = Also(x, 1)
            \/ \E last \in Unanswered(verb, thing, after) : o = Also(Ends(last, 1, "silence"), 2)
  BY Zenon DEF Sent
<1> QED
  BY <1>5, <1>6, <1>7, <1>8, <1>9

LEMMA PushedType ==
    ASSUME NEW w \in World, NEW v \in Nat
    PROVE  Pushed(w, v) \subseteq Outcomes
<1>1. [w EXCEPT !.unpacked = v] \in World
  BY DEF World
<1>2. Transfers \subseteq [ok : BOOLEAN, lost : Nat]
  BY DEF Transfers
<1> QED
  BY <1>1, <1>2 DEF Pushed, Also, Ends, Outcomes, Replies

LEMMA PulledType ==
    ASSUME NEW w \in World, NEW a \in Artifacts
    PROVE  Pulled(w, a) \subseteq Outcomes
<1>1. Transfers \subseteq [ok : BOOLEAN, lost : Nat]
  BY DEF Transfers
<1> QED
  BY <1>1 DEF Pulled, Also, Ends, Outcomes, Replies

-----------------------------------------------------------------------------
(* Every variable stays within its type.                                   *)

\* A command that returned changed one sandbox.
LEMMA ReturnsType ==
    ASSUME TypeOK, NEW e \in Exporter, NEW o \in Outcomes, Returns(e, o)
    PROVE  /\ sandbox' \in [Exporter -> World] /\ lost' \in Nat
           /\ UNCHANGED <<turn, digest, handle, holding, linked, path, inodes, files, exports, subject,
                          version, crashes>>
BY DEF Returns, TypeOK, shared, Outcomes

\* It is enough that what follows from it keeps its type.
LEMMA CommandType ==
    ASSUME TypeOK, NEW e \in Exporter, NEW o \in Outcomes, Returns(e, o),
           NEW place \in Places, Go(e, place) \/ UNCHANGED pc,
           NEW said \in Record, Said(e, said) \/ UNCHANGED record,
           builds' \in [Exporter -> Nat], artifact' \in [Exporter -> Artifacts]
    PROVE  TypeOK'
<1>1. pc' \in [Exporter -> Places] /\ record' \in [Exporter -> Record]
  BY DEF Go, Said, TypeOK
<1> QED
  BY <1>1, ReturnsType DEF TypeOK

LEMMA DriveType ==
    ASSUME TypeOK, NEW e \in Exporter, NEW place, NEW outcomes \in SUBSET Outcomes, NEW stage \in Stages,
           NEW next \in Places, Drive(e, place, outcomes, stage, next)
    PROVE  TypeOK'
<1>1. PICK o \in outcomes :
          /\ Returns(e, o)
          /\ \/ Go(e, next) /\ UNCHANGED record
             \/ Go(e, "rm_container") /\ Said(e, [record[e] EXCEPT !.stage = stage])
  BY DEF Drive
<1>2. record[e] \in Record /\ [record[e] EXCEPT !.stage = stage] \in Record /\ "rm_container" \in Places
  BY DEF TypeOK, Record, Places
<1>3. builds' \in [Exporter -> Nat] /\ artifact' \in [Exporter -> Artifacts]
  BY DEF Drive, TypeOK
<1> QED
  BY <1>1, <1>2, <1>3, CommandType

LEMMA SaveType ==
    ASSUME TypeOK, NEW e \in Exporter, NEW place, NEW outcomes \in SUBSET Outcomes,
           NEW next \in Places, NEW otherwise \in Places, Save(e, place, outcomes, next, otherwise)
    PROVE  TypeOK'
<1>1. PICK o \in outcomes :
          /\ Returns(e, o)
          /\ (Go(e, next) /\ UNCHANGED record) \/ (Go(e, otherwise) /\ Failed(e))
  BY DEF Save
<1>2. record[e] \in Record /\ [record[e] EXCEPT !.ok = FALSE] \in Record
  BY DEF TypeOK, Record
<1>3. builds' \in [Exporter -> Nat] /\ artifact' \in [Exporter -> Artifacts]
  BY DEF Save, TypeOK
<1> QED
  BY <1>1, <1>2, <1>3, CommandType DEF Failed

LEMMA CleanType ==
    ASSUME TypeOK, NEW e \in Exporter, NEW place, NEW thing, <<"rm", thing>> \in Commands,
           NEW next \in Places, Clean(e, place, thing, next)
    PROVE  TypeOK'
<1>1. sandbox[e] \in World /\ subject \in Subjects /\ record[e] \in Record
  BY DEF TypeOK
<1>2. PICK o \in Outcomes : Returns(e, o) /\ Said(e, Cleaned(record[e], o))
  BY <1>1, SentType DEF Clean
<1>3. Cleaned(record[e], o) \in Record
  BY <1>1 DEF Cleaned, Record, Stages
<1>4. builds' \in [Exporter -> Nat] /\ artifact' \in [Exporter -> Artifacts]
  BY DEF Clean, TypeOK
<1> QED
  BY <1>2, <1>3, <1>4, CommandType DEF Clean

LEMMA IdentifyType ==
    ASSUME TypeOK, NEW e \in Exporter, NEW which \in Artifacts, NEW place, NEW stage \in Stages,
           NEW next \in Places, Identify(e, which, place, stage, next)
    PROVE  TypeOK'
<1>1. sandbox[e] \in World /\ subject \in Subjects /\ record[e] \in Record
  BY DEF TypeOK
<1>2. <<"identify", which>> \in Commands
  BY DEF Commands
<1>3. PICK o \in Outcomes :
          /\ Returns(e, o)
          /\ \/ Go(e, next) /\ Said(e, [record[e] EXCEPT !.image = o.world.image[which]])
             \/ Go(e, next) /\ Said(e, [record[e] EXCEPT !.verifier = o.world.image[which]])
             \/ Go(e, "rm_container") /\ Said(e, [record[e] EXCEPT !.stage = stage])
  BY <1>1, <1>2, SentType DEF Identify
<1>4. o.world.image[which] \in Nat
  BY DEF Outcomes, World
<1>5. /\ [record[e] EXCEPT !.image = o.world.image[which]] \in Record
      /\ [record[e] EXCEPT !.verifier = o.world.image[which]] \in Record
      /\ [record[e] EXCEPT !.stage = stage] \in Record /\ "rm_container" \in Places
  BY <1>1, <1>4 DEF Record, Places
<1>6. builds' \in [Exporter -> Nat] /\ artifact' \in [Exporter -> Artifacts]
  BY DEF Identify, TypeOK
<1> QED
  BY <1>3, <1>5, <1>6, CommandType

\* Every step keeps every type.
LEMMA TypeStep ==
    ASSUME TypeOK, [Next]_vars
    PROVE  TypeOK'
<1> USE DEF At, Go, shared, own, outside
<1>1. ASSUME NEW e \in Exporter, Begin(e) PROVE TypeOK'
  BY <1>1 DEF Begin, TypeOK, Places
<1>2. ASSUME NEW e \in Exporter, OpenLock(e) PROVE TypeOK'
  BY <1>2 DEF OpenLock, TypeOK, Places
<1>3. ASSUME NEW e \in Exporter, Lock(e) PROVE TypeOK'
  <2>1. \/ Go(e, "idle") /\ handle' = [handle EXCEPT ![e] = 0] /\ UNCHANGED holding
        \/ Go(e, "connect") /\ holding' = [holding EXCEPT ![e] = TRUE] /\ UNCHANGED handle
    BY <1>3 DEF Lock
  <2>2. UNCHANGED <<sandbox, record, turn, digest, builds, artifact, linked, shared, outside>>
    BY <1>3 DEF Lock
  <2>3. pc' \in [Exporter -> Places]
    BY <2>1 DEF TypeOK, Places
  <2>4. handle' \in [Exporter -> Nat]
    BY <2>1 DEF TypeOK
  <2>5. holding' \in [Exporter -> BOOLEAN]
    BY <2>1 DEF TypeOK
  <2> QED
    BY <2>2, <2>3, <2>4, <2>5 DEF TypeOK
<1>4. ASSUME NEW e \in Exporter, Connect(e) PROVE TypeOK'
  <2>1. \A o \in Opens : o.lost \in Nat
    BY DEF Opens, OpenAttempts
  <2> QED
    BY <1>4, <2>1 DEF Connect, TypeOK, Places
<1>5. ASSUME NEW e \in Exporter, Unlink(e) PROVE TypeOK'
  BY <1>5 DEF Unlink, TypeOK, Places
<1>6. Fresh \in World /\ Blank \in Record
  BY DEF Fresh, Blank, World, Record, Stages
<1>7. ASSUME NEW e \in Exporter, Close(e) PROVE TypeOK'
  BY <1>6, <1>7 DEF Close, Ended, TypeOK, Places, Artifacts
<1>8. ASSUME NEW e \in Exporter, Crash(e) PROVE TypeOK'
  BY <1>6, <1>8 DEF Crash, Ended, TypeOK, Places, Artifacts
<1>9. ASSUME NEW e \in Exporter, Digest(e) PROVE TypeOK'
  BY <1>9 DEF Digest, TypeOK, Places
<1>10. ASSUME NEW e \in Exporter, Confirm(e) PROVE TypeOK'
  BY <1>10 DEF Confirm, TypeOK, Places
<1>36. ASSUME NEW e \in Exporter, Name(e) PROVE TypeOK'
  <2>1. [record[e] EXCEPT !.named = version] \in Record
    BY DEF TypeOK, Record
  <2> QED
    BY <1>36, <2>1 DEF Name, Said, TypeOK, Places
<1>11. ASSUME NEW e \in Exporter, Link(e) PROVE TypeOK'
  <2>1. Export(e) \in Exports
    BY DEF Export, Exports, TypeOK, Record
  <2>2. files' \in [Files -> {Nothing} \union Exports]
    BY <1>11, <2>1 DEF Link, TypeOK
  <2> HIDE DEF Go
  <2>3. UNCHANGED linked \/ linked' = [linked EXCEPT ![e] = linked[e] + 1]
    BY <1>11 DEF Link
  <2>4. UNCHANGED pc \/ Go(e, "leave") \/ Go(e, "rollback")
    BY <1>11 DEF Link
  <2>5. linked' \in [Exporter -> Nat] /\ pc' \in [Exporter -> Places]
    BY <2>3, <2>4 DEF Go, TypeOK, Places
  <2> QED
    BY <1>11, <2>2, <2>5 DEF Link, TypeOK
<1>12. ASSUME NEW e \in Exporter, LinkFails(e) PROVE TypeOK'
  BY <1>12 DEF LinkFails, TypeOK, Places
<1>13. ASSUME NEW e \in Exporter, Rollback(e) PROVE TypeOK'
  BY <1>13 DEF Rollback, TypeOK, Places
<1>14. ASSUME Rewrite PROVE TypeOK'
  BY <1>14 DEF Rewrite, TypeOK
<1>15. ASSUME UNCHANGED vars PROVE TypeOK'
  BY <1>15 DEF vars, TypeOK
<1>16. TypeOK => \A e \in Exporter : /\ sandbox[e] \in World /\ record[e] \in Record
                                    /\ artifact[e] \in Artifacts
      BY DEF TypeOK
<1>17. ASSUME NEW e \in Exporter, Push(e) PROVE TypeOK'
  <2>1. Pushed(sandbox[e], version) \in SUBSET Outcomes
    BY <1>16, PushedType DEF TypeOK
  <2> QED
    BY <1>17, <2>1, DriveType DEF Push, Places, Stages
<1>18. ASSUME NEW e \in Exporter, Chmod(e) PROVE TypeOK'
  <2>1. Sent("chmod", "task", sandbox[e]) \in SUBSET Outcomes
    BY <1>16, SentType DEF TypeOK, Commands
  <2> QED
    BY <1>18, <2>1, DriveType DEF Chmod, Places, Stages
<1>19. ASSUME NEW e \in Exporter, Build(e) PROVE TypeOK'
  <2>1. Sent("build", "solver", sandbox[e]) \subseteq Outcomes
    BY <1>16, SentType DEF TypeOK, Commands, Artifacts
  <2>2. PICK o \in Outcomes :
            /\ Returns(e, o)
            /\ \/ Go(e, "identify") /\ UNCHANGED record
               \/ UNCHANGED <<pc, record>>
               \/ Go(e, "rm_container") /\ Said(e, [record[e] EXCEPT !.stage = "build"])
    BY <1>19, <2>1 DEF Build
  <2>3. [record[e] EXCEPT !.stage = "build"] \in Record
    BY <1>16 DEF Record, Stages
  <2>4. builds' \in [Exporter -> Nat] /\ artifact' \in [Exporter -> Artifacts]
    BY <1>19 DEF Build, TypeOK
  <2>5. {"identify", "rm_container"} \subseteq Places
    BY DEF Places
  <2> HIDE DEF Go
  <2> QED
    BY <1>16, <2>2, <2>3, <2>4, <2>5, CommandType
<1>20. ASSUME NEW e \in Exporter, Identify(e, "solver", "identify", "image_identity", "inventory")
       PROVE TypeOK'
  BY <1>20, IdentifyType DEF Places, Stages, Artifacts
<1>21. ASSUME NEW e \in Exporter, Inventory(e) PROVE TypeOK'
  <2>1. Sent("inventory", "workspace", sandbox[e]) \in SUBSET Outcomes
    BY <1>16, SentType DEF TypeOK, Commands
  <2>2. (IF subject.separate THEN "build_verifier" ELSE "replay") \in Places
    BY DEF Places
  <2> QED
    BY <1>21, <2>1, <2>2, DriveType DEF Inventory, Stages
<1>22. ASSUME NEW e \in Exporter, Verifier(e) PROVE TypeOK'
  <2>1. Sent("build", "verifier", sandbox[e]) \in SUBSET Outcomes
    BY <1>16, SentType DEF TypeOK, Commands, Artifacts
  <2>2. {"identify_verifier", "replay"} \subseteq Places /\ "verifier_build" \in Stages /\ "verifier" \in Artifacts
    BY DEF Places, Stages, Artifacts
  <2> QED
    BY <1>22, <2>1, <2>2, DriveType, IdentifyType DEF Verifier
<1>23. ASSUME NEW e \in Exporter, Replay(e) PROVE TypeOK'
  <2>1. Sent("replay", "container", sandbox[e]) \subseteq Outcomes
    BY <1>16, SentType DEF TypeOK, Commands
  <2>2. PICK o \in Outcomes :
            /\ Returns(e, o)
            /\ \/ Go(e, "tag") /\ Said(e, [record[e] EXCEPT !.ok = TRUE, !.stage = "image_export", !.total = 1])
               \/ /\ Go(e, "rm_container")
                  /\ Said(e, [record[e] EXCEPT !.stage = "replay",
                                               !.total = IF o.said \in {"part", "untimed"} THEN 1 ELSE 0])
    BY <1>23, <2>1 DEF Replay
  <2>3. /\ [record[e] EXCEPT !.ok = TRUE, !.stage = "image_export", !.total = 1] \in Record
        /\ [record[e] EXCEPT !.stage = "replay",
                             !.total = IF o.said \in {"part", "untimed"} THEN 1 ELSE 0] \in Record
    BY <1>16 DEF Record, Stages
  <2>4. builds' \in [Exporter -> Nat] /\ artifact' \in [Exporter -> Artifacts]
    BY <1>23 DEF Replay, TypeOK
  <2>5. {"tag", "rm_container"} \subseteq Places
    BY DEF Places
  <2> HIDE DEF Go
  <2> QED
    BY <2>2, <2>3, <2>4, <2>5, CommandType
<1>24. ASSUME NEW e \in Exporter, Outwards(e)
       PROVE  pc' \in [Exporter -> Places] /\ artifact' \in [Exporter -> Artifacts]
  BY <1>24 DEF Outwards, TypeOK, Places, Artifacts
<1>25. ASSUME NEW e \in Exporter, Failed(e) PROVE record' \in [Exporter -> Record]
  BY <1>25 DEF Failed, Said, TypeOK, Record
<1>26. ASSUME NEW e \in Exporter, Taken(e) PROVE TypeOK'
  <2>1. pc' \in [Exporter -> Places] /\ artifact' \in [Exporter -> Artifacts] /\ record' \in [Exporter -> Record]
    BY <1>24, <1>25, <1>26 DEF Taken
  <2> QED
    BY <1>26, <2>1 DEF Taken, TypeOK
<1>27. ASSUME NEW e \in Exporter, Audit(e) PROVE TypeOK'
  <2>1. pc' \in [Exporter -> Places] /\ artifact' \in [Exporter -> Artifacts]
    BY <1>27 DEF Audit, TypeOK, Places, Artifacts
  <2>2. record' \in [Exporter -> Record]
    BY <1>25, <1>27 DEF Audit, TypeOK
  <2> QED
    BY <1>27, <2>1, <2>2 DEF Audit, TypeOK
<1>28. ASSUME NEW e \in Exporter
       PROVE  \A verb \in {"tag", "save", "drop", "untag"} :
                  Sent(verb, artifact[e], sandbox[e]) \in SUBSET Outcomes
  BY <1>16, SentType DEF TypeOK, Commands
<1>29. {"save", "pull", "audit", "drop", "untag", "drop_untagged"} \subseteq Places
  BY DEF Places
<1>30. ASSUME NEW e \in Exporter, Tag(e) \/ SaveImage(e) PROVE TypeOK'
  BY <1>28, <1>29, <1>30, SaveType DEF Tag, SaveImage
<1>31. ASSUME NEW e \in Exporter, Pull(e) PROVE TypeOK'
  <2>1. Pulled(sandbox[e], artifact[e]) \in SUBSET Outcomes
    BY <1>16, PulledType
  <2> QED
    BY <1>29, <1>31, <2>1, SaveType DEF Pull
<1>32. ASSUME NEW e \in Exporter, Drop(e) PROVE TypeOK'
  <2>1. CASE Save(e, "drop", Sent("drop", artifact[e], sandbox[e]), "untag", "untag")
    BY <1>28, <1>29, <2>1, SaveType
  <2>2. CASE /\ \E o \in Sent("drop", artifact[e], sandbox[e]) : Returns(e, o)
             /\ Outwards(e)
             /\ UNCHANGED <<record, builds>>
    <3>1. PICK o \in Outcomes : Returns(e, o)
      BY <1>28, <2>2
    <3> QED
      BY <1>24, <2>2, <3>1, ReturnsType DEF TypeOK
  <2> QED
    BY <1>32, <2>1, <2>2 DEF Drop
<1>33. ASSUME NEW e \in Exporter, Untag(e) PROVE TypeOK'
  <2>1. PICK o \in Outcomes : Returns(e, o)
    BY <1>28, <1>33 DEF Untag
  <2>2. record' \in [Exporter -> Record]
    BY <1>25, <1>33 DEF Untag, TypeOK
  <2> QED
    BY <1>24, <1>33, <2>1, <2>2, ReturnsType DEF Untag, TypeOK
<1>34. ASSUME NEW e \in Exporter, Cleanup(e) PROVE TypeOK'
  <2>1. {"rm_verifier", "rm_solver", "rm_task", "confirm"} \subseteq Places
    BY DEF Places
  <2>2. {<<"rm", "container">>, <<"rm", "verifier">>, <<"rm", "solver">>, <<"rm", "task">>} \subseteq Commands
    BY DEF Commands, Artifacts
  <2> QED
    BY <1>34, <2>1, <2>2, CleanType DEF Cleanup
<1>35. ASSUME NEW e \in Exporter, Work(e) PROVE TypeOK'
  BY <1>1, <1>2, <1>3, <1>4, <1>5, <1>7, <1>9, <1>10, <1>11, <1>12, <1>13, <1>17, <1>18, <1>19, <1>20,
     <1>21, <1>22, <1>23, <1>26, <1>27, <1>30, <1>31, <1>32, <1>33, <1>34, <1>35, <1>36, Zenon DEF Work
<1> QED
  BY <1>8, <1>14, <1>15, <1>35 DEF Next

LEMMA TypeInit ==
    ASSUME Init
    PROVE  TypeOK
<1>1. Fresh \in World /\ Blank \in Record
  BY DEF Fresh, Blank, World, Record, Stages
<1> QED
  BY <1>1 DEF Init, TypeOK, Places, Artifacts

\* Every variable of Delivery.tla stays within its type, whatever the wire and the
\* crashes do.
THEOREM TypeCorrect == Spec => []TypeOK
BY TypeInit, TypeStep, PTL DEF Spec

-----------------------------------------------------------------------------
(* What is committed is of one export.                                     *)

\* Between its first link and its last, or taking them back.
Inside(e) == pc[e] \in {"commit", "rollback"}

\* Exports under way have numbers of their own, and so has whatever was committed.
Numbered ==
    /\ \A e \in Exporter : pc[e] # "idle" => turn[e] \in 1..exports
    /\ \A e, x \in Exporter : e # x /\ pc[e] # "idle" /\ pc[x] # "idle" => turn[e] # turn[x]
    /\ \A f \in Files : files[f] # Nothing => files[f].export \in 1..exports

\* What an exporter has linked so far is there and its own, and is not all of it.
Partial ==
    \A e \in Exporter :
        /\ pc[e] \notin {"commit", "rollback", "leave", "close"} => linked[e] = 0
        /\ Inside(e) => /\ linked[e] < Len(Commits)
                        /\ \A k \in 1..linked[e] : files[Commits[k]] = Export(e)

\* Nobody who may still link or take back is the one who delivered.
Foreign ==
    Delivered => \A e \in Exporter :
        pc[e] \notin {"idle", "leave", "close"} => turn[e] # files["metadata"].export

WholeInv == TypeOK /\ Numbered /\ Partial /\ Foreign /\ MetadataIsOneExport

LEMMA CommitsShape ==
    /\ Len(Commits) \in Nat \ {0} /\ DOMAIN Commits = 1..Len(Commits)
    /\ Commits[Len(Commits)] = "metadata"
    /\ \A k \in 1..Len(Commits) : Commits[k] \in Files
    /\ \A j, k \in 1..Len(Commits) : Commits[j] = Commits[k] => j = k
<1>1. CASE subject.separate
  <2>1. Commits = <<"archive", "audit", "verifier_archive", "verifier_audit", "verifier_metadata", "metadata">>
    BY <1>1 DEF Commits
  <2> QED
    BY <2>1 DEF Files
<1>2. CASE ~subject.separate
  <2>1. Commits = <<"archive", "audit", "metadata">>
    BY <1>2 DEF Commits
  <2> QED
    BY <2>1 DEF Files
<1> QED
  BY <1>1, <1>2

\* One exporter moves and neither starts to link nor goes on with it.
Aside(e) ==
    /\ UNCHANGED <<turn, exports, files, subject>>
    /\ \A x \in Exporter \ {e} : /\ pc'[x] = pc[x] /\ linked'[x] = linked[x]
                                 /\ record'[x] = record[x] /\ sandbox'[x] = sandbox[x] /\ digest'[x] = digest[x]
    /\ pc[e] # "idle"
    /\ pc'[e] \notin {"commit", "rollback"}
    /\ pc[e] \in {"leave", "close"} => pc'[e] \in {"leave", "close", "idle"}
    /\ linked'[e] = 0 \/ pc'[e] \in {"leave", "close"}

LEMMA AsideKeeps ==
    ASSUME WholeInv, TypeOK', NEW e \in Exporter, Aside(e)
    PROVE  WholeInv'
<1>1. Commits' = Commits
  BY DEF Aside, Commits
<1>2. \A x \in Exporter \ {e} : Export(x)' = Export(x)
  BY DEF Aside, Export
<1>3. Numbered'
  BY DEF WholeInv, Numbered, Aside
<1>4. Partial'
  <2> SUFFICES ASSUME NEW x \in Exporter
      PROVE  /\ pc'[x] \notin {"commit", "rollback", "leave", "close"} => linked'[x] = 0
             /\ Inside(x)' => /\ linked'[x] < Len(Commits')
                              /\ \A k \in 1..linked'[x] : files'[Commits'[k]] = Export(x)'
    BY DEF Partial
  <2>1. CASE x = e
    BY <2>1 DEF Aside, Inside
  <2>2. CASE x # e
    BY <1>1, <1>2, <2>2 DEF WholeInv, Partial, Aside, Inside
  <2> QED
    BY <2>1, <2>2
<1>5. Foreign'
  BY DEF WholeInv, Foreign, Delivered, Aside
<1>6. MetadataIsOneExport'
  BY <1>1 DEF WholeInv, MetadataIsOneExport, Delivered, Aside
<1> QED
  BY <1>3, <1>4, <1>5, <1>6 DEF WholeInv

\* A command of an exporter that is neither in the commit nor past it.
LEMMA CommandAside ==
    ASSUME WholeInv, NEW e \in Exporter, NEW o, Returns(e, o), NEW said,
           Said(e, said) \/ UNCHANGED record, NEW place, Go(e, place) \/ UNCHANGED pc,
           pc[e] \notin {"idle", "commit", "rollback", "leave", "close"},
           place \notin {"idle", "commit", "rollback", "leave", "close"}
    PROVE  Aside(e)
<1>1. linked[e] = 0
  BY DEF WholeInv, Partial
<1>2. UNCHANGED <<turn, exports, files, subject, linked, digest>>
  BY DEF Returns, shared
<1>3. \A x \in Exporter \ {e} : /\ pc'[x] = pc[x] /\ record'[x] = record[x] /\ sandbox'[x] = sandbox[x]
  BY DEF Returns, Said, Go, WholeInv, TypeOK
<1>4. pc'[e] \notin {"idle", "commit", "rollback", "leave", "close"}
  BY DEF Go, WholeInv, TypeOK
<1> QED
  BY <1>1, <1>2, <1>3, <1>4 DEF Aside

\* The steps of an export that link nothing.
LEMMA QuietAside ==
    ASSUME WholeInv, NEW e \in Exporter,
           \/ OpenLock(e) \/ Lock(e) \/ Connect(e) \/ Unlink(e) \/ Close(e) \/ Crash(e)
           \/ Digest(e) \/ Taken(e) \/ Audit(e) \/ Confirm(e)
    PROVE  Aside(e)
<1> USE DEF At, Go, shared, own, outside
<1>1. pc[e] \notin {"commit", "rollback", "leave", "close"} => linked[e] = 0
  BY DEF WholeInv, Partial
<1>2. TypeOK
  BY DEF WholeInv
<1>3. CASE OpenLock(e)
  BY <1>1, <1>2, <1>3 DEF OpenLock, Aside, TypeOK
<1>4. CASE Lock(e)
  <2>1. pc[e] = "lock" /\ UNCHANGED <<sandbox, record, turn, digest, linked, shared, outside>>
        /\ \E place \in {"idle", "connect"} : Go(e, place)
    BY <1>4 DEF Lock
  <2> QED
    BY <1>1, <1>2, <2>1 DEF Aside, TypeOK
<1>5. CASE Connect(e)
  <2>1. pc[e] = "connect" /\ UNCHANGED <<sandbox, record, own, shared, subject>>
        /\ \E place \in {"digest", "leave"} : Go(e, place)
    BY <1>5 DEF Connect
  <2> QED
    BY <1>1, <1>2, <2>1 DEF Aside, TypeOK
<1>6. CASE Unlink(e)
  BY <1>2, <1>6 DEF Unlink, Aside, TypeOK
<1>7. CASE Close(e)
  BY <1>2, <1>7 DEF Close, Ended, Aside, TypeOK
<1>8. CASE Crash(e)
  BY <1>2, <1>8 DEF Crash, Ended, Aside, TypeOK
<1>9. CASE Digest(e)
  BY <1>1, <1>2, <1>9 DEF Digest, Aside, TypeOK
<1>10. CASE Taken(e)
  <2>1. pc[e] = "tag" /\ UNCHANGED <<sandbox, turn, digest, linked, shared, outside>>
        /\ \E place \in {"drop", "rm_container"} : Go(e, place)
    BY <1>10 DEF Taken, Outwards
  <2>2. \A x \in Exporter \ {e} : record'[x] = record[x]
    BY <1>2, <1>10 DEF Taken, Failed, Said, TypeOK
  <2> QED
    BY <1>1, <1>2, <2>1, <2>2 DEF Aside, TypeOK
<1>11. CASE Audit(e)
  <2>1. pc[e] = "audit" /\ UNCHANGED <<sandbox, turn, digest, linked, shared, outside>>
        /\ \E place \in {"drop", "tag"} : Go(e, place)
    BY <1>11 DEF Audit
  <2>2. \A x \in Exporter \ {e} : record'[x] = record[x]
    BY <1>2, <1>11 DEF Audit, Failed, Said, TypeOK
  <2> QED
    BY <1>1, <1>2, <2>1, <2>2 DEF Aside, TypeOK
<1>12. CASE Confirm(e)
  <2>1. pc[e] = "confirm" /\ UNCHANGED <<sandbox, record, own, shared, outside>>
        /\ \E place \in {"name", "leave"} : Go(e, place)
    BY <1>12 DEF Confirm
  <2> QED
    BY <1>1, <1>2, <2>1 DEF Aside, TypeOK
<1> QED
  BY <1>3, <1>4, <1>5, <1>6, <1>7, <1>8, <1>9, <1>10, <1>11, <1>12

\* Its commands.
LEMMA CommandsAside ==
    ASSUME WholeInv, NEW e \in Exporter,
           \/ Push(e) \/ Chmod(e) \/ Build(e)
           \/ Identify(e, "solver", "identify", "image_identity", "inventory")
           \/ Inventory(e) \/ Verifier(e) \/ Replay(e)
           \/ Tag(e) \/ SaveImage(e) \/ Pull(e) \/ Drop(e) \/ Untag(e) \/ Cleanup(e)
    PROVE  Aside(e)
<1> DEFINE Away(p) == p \notin {"idle", "commit", "rollback", "leave", "close"}
           Commanded == \E o, said, place :
               /\ Returns(e, o)
               /\ Said(e, said) \/ UNCHANGED record
               /\ Go(e, place) \/ UNCHANGED pc
               /\ Away(pc[e]) /\ Away(place)
<1>1. SUFFICES Commanded
  BY CommandAside
<1> USE DEF At
<1>2. ASSUME NEW p, NEW S, NEW s, NEW q, Drive(e, p, S, s, q), Away(p), Away(q) PROVE Commanded
  BY <1>2 DEF Drive
<1>3. ASSUME NEW p, NEW S, NEW q, NEW r, Save(e, p, S, q, r), Away(p), Away(q), Away(r) PROVE Commanded
  BY <1>3 DEF Save, Failed
<1>4. ASSUME NEW p, NEW t, NEW q, Clean(e, p, t, q), Away(p), Away(q) PROVE Commanded
  BY <1>4 DEF Clean
<1>5. ASSUME NEW w, NEW p, NEW s, NEW q, Identify(e, w, p, s, q), Away(p), Away(q) PROVE Commanded
  BY <1>5 DEF Identify
<1>6. CASE Push(e) \/ Chmod(e)
  BY <1>2, <1>6 DEF Push, Chmod
<1>7. CASE Build(e)
  BY <1>7 DEF Build
<1>8. CASE Identify(e, "solver", "identify", "image_identity", "inventory")
  BY <1>5, <1>8
<1>9. CASE Inventory(e)
  BY <1>2, <1>9 DEF Inventory
<1>10. CASE Verifier(e)
  BY <1>2, <1>5, <1>10 DEF Verifier
<1>11. CASE Replay(e)
  <2>1. PICK o \in Sent("replay", "container", sandbox[e]) :
            /\ Returns(e, o)
            /\ IF o.exit = 0
               THEN Go(e, "tag") /\ Said(e, [record[e] EXCEPT !.ok = TRUE, !.stage = "image_export", !.total = 1])
               ELSE /\ Go(e, "rm_container")
                    /\ Said(e, [record[e] EXCEPT !.stage = "replay",
                                                 !.total = IF o.said \in {"part", "untimed"} THEN 1 ELSE 0])
    BY <1>11 DEF Replay
  <2>2. Away(pc[e]) /\ Away("tag") /\ Away("rm_container")
    BY <1>11 DEF Replay
  <2>3. CASE o.exit = 0
    BY <2>1, <2>2, <2>3
  <2>4. CASE o.exit # 0
    BY <2>1, <2>2, <2>4
  <2> QED
    BY <2>3, <2>4
<1>12. CASE Tag(e) \/ SaveImage(e) \/ Pull(e)
  BY <1>3, <1>12 DEF Tag, SaveImage, Pull
<1>13. CASE Drop(e)
  BY <1>3, <1>13 DEF Drop, Outwards
<1>14. CASE Untag(e)
  BY <1>14 DEF Untag, Outwards, Failed
<1>15. CASE Cleanup(e)
  BY <1>4, <1>15 DEF Cleanup
<1> QED
  BY <1>6, <1>7, <1>8, <1>9, <1>10, <1>11, <1>12, <1>13, <1>14, <1>15

\* A new export has a number above all others.
LEMMA BeginKeeps ==
    ASSUME WholeInv, TypeOK', NEW e \in Exporter, Begin(e)
    PROVE  WholeInv'
<1> USE DEF At, Go, outside
<1>1. /\ pc[e] = "idle" /\ exports' = exports + 1 /\ turn' = [turn EXCEPT ![e] = exports + 1]
      /\ UNCHANGED <<files, linked, record, sandbox, digest, subject>>
      /\ UNCHANGED pc \/ pc' = [pc EXCEPT ![e] = "open"]
  BY DEF Begin
<1>2. TypeOK /\ exports \in Nat
  BY DEF WholeInv, TypeOK
<1>3. \A x \in Exporter \ {e} : pc'[x] = pc[x] /\ turn'[x] = turn[x] /\ Export(x)' = Export(x)
  BY <1>1, <1>2 DEF Export, TypeOK
<1>4. pc'[e] \in {"idle", "open"} /\ turn'[e] = exports + 1 /\ linked[e] = 0
  BY <1>1, <1>2 DEF WholeInv, Partial, TypeOK
<1>5. Numbered'
  BY <1>1, <1>2, <1>3, <1>4 DEF WholeInv, Numbered
<1>6. Partial'
  BY <1>1, <1>3, <1>4 DEF WholeInv, Partial, Inside, Commits
<1>7. Foreign'
  <2>1. Delivered => files["metadata"].export \in 1..exports
    BY DEF WholeInv, Numbered, Delivered, Files
  <2> QED
    BY <1>1, <1>2, <1>3, <1>4, <2>1 DEF WholeInv, Foreign, Delivered
<1>8. MetadataIsOneExport'
  BY <1>1 DEF WholeInv, MetadataIsOneExport, Delivered, Commits
<1> QED
  BY <1>5, <1>6, <1>7, <1>8 DEF WholeInv

\* A commit starts with nothing linked, and one that is refused starts to take back.
LEMMA EnterKeeps ==
    ASSUME WholeInv, TypeOK', NEW e \in Exporter,
           Name(e) \/ LinkFails(e) \/ (Link(e) /\ files[Commits[linked[e] + 1]] # Nothing)
    PROVE  WholeInv'
<1> USE DEF At, Go, shared, own, outside
<1>1. /\ UNCHANGED <<turn, exports, files, subject, linked, sandbox, digest>>
      /\ \/ pc[e] = "name" /\ pc' = [pc EXCEPT ![e] = "commit"] /\ Said(e, [record[e] EXCEPT !.named = version])
         \/ pc[e] = "commit" /\ pc' = [pc EXCEPT ![e] = "rollback"] /\ UNCHANGED record
  BY DEF Name, LinkFails, Link
<1>2. TypeOK
  BY DEF WholeInv
<1>3. /\ \A x \in Exporter \ {e} : pc'[x] = pc[x] /\ record'[x] = record[x]
      /\ \/ pc[e] = "name" /\ pc'[e] = "commit"
         \/ pc[e] = "commit" /\ pc'[e] = "rollback" /\ record'[e] = record[e]
  BY <1>1, <1>2 DEF Said, TypeOK
<1>4. Numbered'
  BY <1>1, <1>3 DEF WholeInv, Numbered
<1>5. Partial'
  <2>1. /\ Commits' = Commits /\ \A x \in Exporter : linked[x] \in Nat
        /\ \A x \in Exporter : x # e \/ pc[e] = "commit" => Export(x)' = Export(x)
    BY <1>1, <1>2, <1>3 DEF Commits, Export, TypeOK
  <2> SUFFICES ASSUME NEW x \in Exporter
      PROVE  /\ pc'[x] \notin {"commit", "rollback", "leave", "close"} => linked'[x] = 0
             /\ Inside(x)' => /\ linked'[x] < Len(Commits')
                              /\ \A k \in 1..linked'[x] : files'[Commits'[k]] = Export(x)'
    BY DEF Partial
  <2>2. CASE x # e \/ pc[e] = "commit"
    BY <1>1, <1>3, <2>1, <2>2 DEF WholeInv, Partial, Inside
  <2>3. CASE x = e /\ pc[e] = "name"
    <3>1. linked[e] = 0
      BY <2>3 DEF WholeInv, Partial
    <3> QED
      BY <1>1, <1>3, <2>1, <2>3, <3>1, CommitsShape DEF Inside
  <2> QED
    BY <1>3, <2>2, <2>3
<1>6. Foreign'
  BY <1>1, <1>3 DEF WholeInv, Foreign, Delivered
<1>7. MetadataIsOneExport'
  BY <1>1 DEF WholeInv, MetadataIsOneExport, Delivered, Commits
<1> QED
  BY <1>4, <1>5, <1>6, <1>7 DEF WholeInv

\* An exporter inside the commit has its own number on what it links, and nobody else's.
LEMMA OwnExport ==
    ASSUME WholeInv, NEW e \in Exporter, pc[e] # "idle"
    PROVE  /\ Export(e).export = turn[e] /\ turn[e] \in 1..exports /\ Export(e) # Nothing
           /\ \A x \in Exporter \ {e} : pc[x] # "idle" => turn[x] # turn[e] /\ Export(x) # Export(e)
<1>1. exports \in Nat /\ turn[e] \in 1..exports
  BY DEF WholeInv, TypeOK, Numbered
<1>2. \A x \in Exporter : Export(x).export = turn[x]
  BY DEF Export
<1>3. Nothing.export = 0
  BY DEF Nothing
<1>4. \A x \in Exporter \ {e} : pc[x] # "idle" => turn[x] # turn[e]
  BY DEF WholeInv, Numbered
<1> QED
  BY <1>1, <1>2, <1>3, <1>4

\* A link goes where nothing was, and the last of them is the metadata's.
LEMMA LinkKeeps ==
    ASSUME WholeInv, TypeOK', NEW e \in Exporter, Link(e), files[Commits[linked[e] + 1]] = Nothing
    PROVE  WholeInv'
<1> DEFINE n == linked[e] + 1
           f == Commits[n]
<1>1. /\ pc[e] = "commit" /\ UNCHANGED <<turn, exports, subject, record, sandbox, digest>>
      /\ files' = [files EXCEPT ![f] = Export(e)] /\ linked' = [linked EXCEPT ![e] = n]
      /\ IF n = Len(Commits) THEN pc' = [pc EXCEPT ![e] = "leave"] ELSE UNCHANGED pc
  <2>1. pc[e] = "commit" /\ UNCHANGED <<turn, exports, subject, record, sandbox, digest>>
    BY DEF Link, At, outside
  <2>2. files' = [files EXCEPT ![f] = Export(e)] /\ linked' = [linked EXCEPT ![e] = linked[e] + 1]
    BY DEF Link
  <2>3. IF n = Len(Commits) THEN pc' = [pc EXCEPT ![e] = "leave"] ELSE UNCHANGED pc
    BY DEF Link, Go
  <2> QED
    BY <2>1, <2>2, <2>3
<1>2. TypeOK
  BY DEF WholeInv
<1>3. /\ linked[e] \in Nat /\ n \in 1..Len(Commits) /\ f \in Files
      /\ \A k \in 1..linked[e] : files[Commits[k]] = Export(e)
  <2>1. linked[e] \in Nat
    BY <1>2 DEF TypeOK
  <2>2. linked[e] < Len(Commits) /\ \A k \in 1..linked[e] : files[Commits[k]] = Export(e)
    BY <1>1 DEF WholeInv, Partial, Inside
  <2> QED
    BY <2>1, <2>2, CommitsShape
<1>4. /\ Export(e).export = turn[e] /\ turn[e] \in 1..exports /\ Export(e) # Nothing
      /\ \A x \in Exporter \ {e} : pc[x] # "idle" => turn[x] # turn[e] /\ Export(x) # Export(e)
  BY <1>1, OwnExport
<1>5. files'[f] = Export(e) /\ \A g \in Files \ {f} : files'[g] = files[g]
  BY <1>1, <1>2, <1>3 DEF TypeOK
<1>6. Commits' = Commits /\ \A x \in Exporter : Export(x)' = Export(x) /\ linked[x] \in Nat
  BY <1>1, <1>2 DEF Commits, Export, TypeOK
<1>7. /\ \A x \in Exporter \ {e} : pc'[x] = pc[x] /\ linked'[x] = linked[x]
      /\ linked'[e] = n /\ pc'[e] = IF n = Len(Commits) THEN "leave" ELSE "commit"
  BY <1>1, <1>2 DEF TypeOK
<1>8. ~Delivered
  BY <1>3, CommitsShape DEF WholeInv, MetadataIsOneExport, Delivered
<1>9. Numbered'
  BY <1>1, <1>4, <1>5, <1>7 DEF WholeInv, Numbered
<1>10. Partial'
  <2> SUFFICES ASSUME NEW x \in Exporter
      PROVE  /\ pc'[x] \notin {"commit", "rollback", "leave", "close"} => linked'[x] = 0
             /\ Inside(x)' => /\ linked'[x] < Len(Commits')
                              /\ \A k \in 1..linked'[x] : files'[Commits'[k]] = Export(x)'
    BY DEF Partial
  <2>1. CASE x = e
    <3>1. \A k \in 1..n : files'[Commits[k]] = Export(e)
      BY <1>3, <1>5, CommitsShape
    <3> QED
      BY <1>3, <1>6, <1>7, <2>1, <3>1, CommitsShape DEF Inside
  <2>2. CASE x # e
    <3>1. ASSUME Inside(x), NEW k \in 1..linked[x] PROVE files'[Commits[k]] = Export(x)
      <4>1. files[Commits[k]] = Export(x) /\ k \in 1..Len(Commits) /\ Export(x) # Nothing
        BY <1>6, <3>1, CommitsShape, OwnExport DEF WholeInv, Partial, Inside
      <4> QED
        BY <1>5, <4>1, CommitsShape
    <3> QED
      BY <1>6, <1>7, <2>2, <3>1 DEF WholeInv, Partial, Inside
  <2> QED
    BY <2>1, <2>2
<1>11. CASE n = Len(Commits)
  <2>1. f = "metadata" /\ \A k \in 1..Len(Commits) : files'[Commits[k]] = Export(e)
    BY <1>3, <1>5, <1>11, CommitsShape
  <2>2. MetadataIsOneExport'
    BY <1>5, <1>6, <2>1, CommitsShape DEF MetadataIsOneExport
  <2>3. Foreign'
    BY <1>1, <1>4, <1>5, <1>7, <1>11, <2>1 DEF Foreign
  <2> QED
    BY <1>9, <1>10, <2>2, <2>3 DEF WholeInv
<1>12. CASE n # Len(Commits)
  <2>1. f # "metadata"
    BY <1>3, <1>12, CommitsShape
  <2>2. ~Delivered'
    BY <1>5, <1>8, <2>1 DEF Delivered, Files
  <2> QED
    BY <1>9, <1>10, <2>2 DEF WholeInv, Foreign, MetadataIsOneExport
<1> QED
  BY <1>11, <1>12

\* What is taken back was the exporter's own, and nothing was delivered.
LEMMA RollbackKeeps ==
    ASSUME WholeInv, TypeOK', NEW e \in Exporter, Rollback(e), linked[e] # 0
    PROVE  WholeInv'
<1> DEFINE f == Commits[linked[e]]
<1>1. TypeOK
  BY DEF WholeInv
<1>2. pc[e] = "rollback" /\ UNCHANGED <<turn, exports, subject, record, sandbox, digest, pc>>
      /\ linked' = [linked EXCEPT ![e] = linked[e] - 1]
      /\ files' = IF files[f] = Export(e) THEN [files EXCEPT ![f] = Nothing] ELSE files
  <2>1. pc[e] = "rollback" /\ UNCHANGED <<turn, exports, subject, record, sandbox, digest>>
    BY DEF Rollback, At, outside
  <2>2. UNCHANGED pc /\ linked' = [linked EXCEPT ![e] = linked[e] - 1]
    BY DEF Rollback
  <2>3. files' = IF files[f] = Export(e) THEN [files EXCEPT ![f] = Nothing] ELSE files
    BY DEF Rollback
  <2> QED
    BY <2>1, <2>2, <2>3
<1>3. /\ linked[e] \in 1..Len(Commits) /\ linked[e] # Len(Commits) /\ f \in Files
      /\ \A k \in 1..linked[e] : files[Commits[k]] = Export(e)
  <2>1. linked[e] \in Nat
    BY <1>1 DEF TypeOK
  <2>2. linked[e] < Len(Commits) /\ \A k \in 1..linked[e] : files[Commits[k]] = Export(e)
    BY <1>2 DEF WholeInv, Partial, Inside
  <2> QED
    BY <2>1, <2>2, CommitsShape
<1>4. files'[f] = Nothing /\ \A g \in Files \ {f} : files'[g] = files[g]
  BY <1>1, <1>2, <1>3 DEF TypeOK
<1>5. Commits' = Commits /\ \A x \in Exporter : Export(x)' = Export(x) /\ linked[x] \in Nat
  BY <1>1, <1>2 DEF Commits, Export, TypeOK
<1>6. f # "metadata"
  BY <1>3, CommitsShape
<1>7. ~Delivered
  BY <1>2, <1>3, CommitsShape, OwnExport DEF WholeInv, MetadataIsOneExport, Foreign
<1>8. ~Delivered'
  BY <1>4, <1>6, <1>7 DEF Delivered, Files
<1>9. Numbered'
  BY <1>2, <1>4 DEF WholeInv, Numbered
<1>10. Partial'
  <2> SUFFICES ASSUME NEW x \in Exporter
      PROVE  /\ pc'[x] \notin {"commit", "rollback", "leave", "close"} => linked'[x] = 0
             /\ Inside(x)' => /\ linked'[x] < Len(Commits')
                              /\ \A k \in 1..linked'[x] : files'[Commits'[k]] = Export(x)'
    BY DEF Partial
  <2>1. CASE x = e
    <3>1. linked'[e] = linked[e] - 1
      BY <1>1, <1>2 DEF TypeOK
    <3>2. \A k \in 1..(linked[e] - 1) : files'[Commits[k]] = Export(e)
      BY <1>3, <1>4, CommitsShape
    <3> QED
      BY <1>2, <1>3, <1>5, <2>1, <3>1, <3>2, CommitsShape
  <2>2. CASE x # e
    <3>1. ASSUME Inside(x), NEW k \in 1..linked[x] PROVE files'[Commits[k]] = Export(x)
      <4>1. files[Commits[k]] = Export(x) /\ k \in 1..Len(Commits) /\ Export(x) # Export(e)
        BY <1>2, <1>5, <2>2, <3>1, CommitsShape, OwnExport DEF WholeInv, Partial, Inside
      <4>2. files[f] = Export(e)
        BY <1>3
      <4> QED
        BY <1>4, <4>1, <4>2, CommitsShape
    <3>2. linked'[x] = linked[x]
      BY <1>1, <1>2, <2>2 DEF TypeOK
    <3> QED
      BY <1>2, <1>5, <3>1, <3>2 DEF WholeInv, Partial, Inside
  <2> QED
    BY <2>1, <2>2
<1> QED
  BY <1>8, <1>9, <1>10 DEF WholeInv, Foreign, MetadataIsOneExport

LEMMA WholeStep ==
    ASSUME WholeInv, [Next]_vars
    PROVE  WholeInv'
<1>1. TypeOK'
  BY TypeStep DEF WholeInv
<1>2. ASSUME NEW e \in Exporter, Work(e) \/ Crash(e) PROVE WholeInv'
  <2>1. CASE Begin(e)
    BY <1>1, <2>1, BeginKeeps
  <2>2. CASE \/ OpenLock(e) \/ Lock(e) \/ Connect(e) \/ Unlink(e) \/ Close(e) \/ Crash(e)
             \/ Digest(e) \/ Taken(e) \/ Audit(e) \/ Confirm(e)
    BY <1>1, <2>2, QuietAside, AsideKeeps
  <2>3. CASE \/ Push(e) \/ Chmod(e) \/ Build(e)
             \/ Identify(e, "solver", "identify", "image_identity", "inventory")
             \/ Inventory(e) \/ Verifier(e) \/ Replay(e)
             \/ Tag(e) \/ SaveImage(e) \/ Pull(e) \/ Drop(e) \/ Untag(e) \/ Cleanup(e)
    BY <1>1, <2>3, CommandsAside, AsideKeeps
  <2>4. CASE Name(e) \/ LinkFails(e) \/ Link(e)
    BY <1>1, <2>4, EnterKeeps, LinkKeeps
  <2>5. CASE Rollback(e)
    <3>1. CASE linked[e] = 0
      <4>1. Aside(e)
        BY <2>5, <3>1 DEF Rollback, Aside, At, Go, outside, WholeInv, TypeOK
      <4> QED
        BY <1>1, <4>1, AsideKeeps
    <3>2. CASE linked[e] # 0
      BY <1>1, <2>5, <3>2, RollbackKeeps
    <3> QED
      BY <3>1, <3>2
  <2> QED
    BY <1>2, <2>1, <2>2, <2>3, <2>4, <2>5, Zenon DEF Work
<1>3. ASSUME Rewrite \/ UNCHANGED vars PROVE WholeInv'
  <2>1. UNCHANGED <<pc, turn, exports, files, subject, linked, record, sandbox, digest>>
    BY <1>3 DEF Rewrite, vars, own, shared, outside
  <2> QED
    BY <1>1, <2>1 DEF WholeInv, Numbered, Partial, Foreign, Inside, Delivered, MetadataIsOneExport,
                      Commits, Export
<1> QED
  BY <1>2, <1>3 DEF Next

\* Whoever finds the metadata finds every file it speaks of, from one export
\* (images.py export, commit and its rollback): for any number of exporters that
\* are inside at once, any number of crashes between two links, and any task.
THEOREM WholeDelivery == Spec => []MetadataIsOneExport
<1>1. Init => WholeInv
  <2>1. Init => TypeOK
    BY TypeInit
  <2> QED
    BY <2>1 DEF Init, WholeInv, Numbered, Partial, Foreign, Inside, Delivered, MetadataIsOneExport, Files
<1>2. WholeInv => MetadataIsOneExport
  BY DEF WholeInv
<1> QED
  BY <1>1, <1>2, WholeStep, PTL DEF Spec

-----------------------------------------------------------------------------
(* What is committed was driven.                                           *)

Early == {"idle", "open", "lock", "connect", "digest"}
Driving == {"push", "chmod", "build", "identify", "inventory", "build_verifier", "identify_verifier", "replay"}
Saving == {"tag", "save", "pull", "audit", "drop", "drop_untagged", "untag"}
Cleaning == {"rm_container", "rm_verifier", "rm_solver", "rm_task", "confirm"}

\* Nothing there is older than the digest.
Dates(d) == {0} \union d..version

\* There is an image only of what builds, and a verifier's only where there is one.
Worlds(d) ==
    {w \in World : /\ w.unpacked \in Dates(d)
                   /\ w.image["solver"] \in Dates(d) /\ w.image["verifier"] \in Dates(d)
                   /\ w.image["solver"] # 0 => subject.builds
                   /\ w.image["verifier"] # 0 => subject.separate}

\* What an ok stands for.
Records(d) ==
    {r \in Record : /\ r.image \in Dates(d) /\ r.verifier \in Dates(d)
                    /\ r.image # 0 => subject.builds
                    /\ r.ok => /\ r.image # 0 /\ (subject.separate => r.verifier # 0)
                               /\ subject.complete /\ subject.answers = "full"}

\* What the steps of the drive have established when the next begins.
Driven(p, w, r) ==
    /\ p \in Driving => ~r.ok /\ w.tagged = {} /\ w.saved = {}
    /\ p \in {"inventory", "build_verifier", "identify_verifier", "replay"} => r.image # 0
    /\ p \in {"build_verifier", "identify_verifier", "replay"} => subject.complete
    /\ p \in {"build_verifier", "identify_verifier"} => subject.separate
    /\ p = "replay" /\ subject.separate => r.verifier # 0

\* While the verdict is ok, what is tagged and saved is what is yet to be removed.
Saved(p, w, r, a) ==
    LET outer == IF a = "verifier" THEN {"solver"} ELSE {}
    IN  p \in Saving /\ r.ok =>
            /\ p # "drop_untagged"
            /\ w.tagged \subseteq IF p = "tag" THEN outer ELSE outer \union {a}
            /\ w.saved \subseteq IF p \in {"tag", "untag"} THEN outer ELSE outer \union {a}

\* While the verdict is ok, what was to be removed is gone.
Removed(p, w, r) ==
    p \in Cleaning /\ r.ok =>
        /\ w.tagged = {} /\ w.saved = {}
        /\ p # "rm_container" => ~w.running
        /\ p \notin {"rm_container", "rm_verifier"} => w.image["verifier"] = 0
        /\ p \in {"rm_task", "confirm"} => w.image["solver"] = 0
        /\ p = "confirm" => w.unpacked = 0

\* Why a drive may be committed.
Sound(p, w, r, d, a) ==
    /\ p \in Early => w = Fresh /\ r = Blank /\ a = "solver"
    /\ p \in Driving \union Saving \union Cleaning =>
           /\ d <= version /\ w \in Worlds(d) /\ r \in Records(d)
           /\ Driven(p, w, r) /\ Saved(p, w, r, a) /\ Removed(p, w, r)
    /\ p \in {"commit", "rollback"} => r.named \in d..version
    /\ p \in {"name", "commit", "rollback"} =>
           /\ d <= version /\ r.ok /\ r.image = d /\ (subject.separate => r.verifier = d) /\ w = Fresh
           /\ subject.answers = "full" /\ subject.builds /\ subject.complete

SoundOf(e) == Sound(pc[e], sandbox[e], record[e], digest[e], artifact[e])

\* What was committed has all of that.
GoodFile(x) ==
    /\ x.full /\ x.image = x.checked /\ (subject.separate => x.verifier = x.checked)
    /\ x.checked \in Nat /\ x.named \in Nat /\ x.checked <= x.named /\ x.named <= version
    /\ subject.answers = "full" /\ subject.builds /\ subject.complete /\ x.left = Fresh

DriveInv ==
    /\ TypeOK
    /\ \A e \in Exporter : SoundOf(e)
    /\ \A f \in Files : files[f] # Nothing => GoodFile(files[f])

\* A verifier that was started and not heard of.
Started(w) == [w EXCEPT !.running = TRUE]

\* A command only ever takes a sandbox where its effect does.
LEMMA SentStays ==
    ASSUME NEW verb, NEW thing, NEW S, NEW w \in S,
           \A v \in S : \A x \in Effect(verb, thing, v) : x.world \in S,
           verb = "replay" => \A v \in S : Started(v) \in S,
           S \subseteq World, <<verb, thing>> \in Commands, subject \in Subjects,
           NEW o \in Sent(verb, thing, w)
    PROVE  /\ o.world \in S
           /\ \/ o.exit = 1 /\ o.said = "silence"
              \/ \E v \in S : \E x \in Effect(verb, thing, v) :
                     o.world = x.world /\ o.exit = x.exit /\ o.said = x.said
<1>1. \A v \in S : Unanswered(verb, thing, v) \subseteq S
  BY DEF Unanswered, Started
<1>2. \A v \in S : \A n : /\ Also(Ends(v, 1, "silence"), n).world = v
                         /\ Also(Ends(v, 1, "silence"), n).exit = 1
                         /\ Also(Ends(v, 1, "silence"), n).said = "silence"
  BY DEF Also, Ends
<1>3. \A v \in S : \A x \in Effect(verb, thing, v) :
          Also(x, 1).world = x.world /\ Also(x, 1).exit = x.exit /\ Also(x, 1).said = x.said
  <2>1. \A v \in S : Effect(verb, thing, v) \subseteq Outcomes
    BY EffectType
  <2>2. \A x \in Outcomes : Also(x, 1).world = x.world /\ Also(x, 1).exit = x.exit /\ Also(x, 1).said = x.said
    BY DEF Also, Outcomes
  <2> QED
    BY <2>1, <2>2
<1>4. \/ o \in Effect(verb, thing, w)
      \/ \E after \in Unanswered(verb, thing, w) :
            \/ o = Also(Ends(after, 1, "silence"), 1)
            \/ \E x \in Effect(verb, thing, after) : o = Also(x, 1)
            \/ \E last \in Unanswered(verb, thing, after) : o = Also(Ends(last, 1, "silence"), 2)
  BY DEF Sent
<1>5. CASE o \in Effect(verb, thing, w)
  BY <1>5
<1>6. CASE \E after \in Unanswered(verb, thing, w) : o = Also(Ends(after, 1, "silence"), 1)
  BY <1>1, <1>2, <1>6
<1>7. CASE \E after \in Unanswered(verb, thing, w) : \E x \in Effect(verb, thing, after) : o = Also(x, 1)
  <2>1. PICK after \in S : \E x \in Effect(verb, thing, after) : o = Also(x, 1)
    BY <1>1, <1>7
  <2>2. PICK x \in Effect(verb, thing, after) : o = Also(x, 1)
    BY <2>1
  <2> QED
    BY <1>3, <2>2
<1>8. CASE \E after \in Unanswered(verb, thing, w) : \E last \in Unanswered(verb, thing, after) :
              o = Also(Ends(last, 1, "silence"), 2)
  <2>1. PICK after \in S : \E last \in Unanswered(verb, thing, after) : o = Also(Ends(last, 1, "silence"), 2)
    BY <1>1, <1>8
  <2>2. PICK last \in S : o = Also(Ends(last, 1, "silence"), 2)
    BY <1>1, <2>1
  <2> QED
    BY <1>2, <2>2
<1> QED
  BY <1>4, <1>5, <1>6, <1>7, <1>8

\* What an answered command says.
LEMMA EffectSays ==
    ASSUME NEW verb, NEW thing, NEW w, NEW x \in Effect(verb, thing, w)
    PROVE  /\ verb = "identify" /\ x.exit = 0 => x.world.image[thing] # 0
           /\ verb = "inventory" /\ x.exit = 0 => subject.complete
           /\ verb = "replay" /\ x.exit = 0 => subject.answers = "full"
<1>1. CASE verb = "identify"
  BY <1>1 DEF Effect, Ends
<1>2. CASE verb = "inventory"
  BY <1>2 DEF Effect, Ends
<1>3. CASE verb = "replay"
  BY <1>3 DEF Effect, Runs, Ends
<1> QED
  BY <1>1, <1>2, <1>3

\* What it leaves of each thing in the sandbox.
Leaves(verb, thing, w, v) ==
    /\ v.unpacked = IF verb = "rm" /\ thing = "task" THEN 0 ELSE w.unpacked
    /\ v.running = IF verb = "rm" /\ thing = "container" THEN FALSE ELSE w.running
    /\ v.tagged = CASE verb = "tag" -> w.tagged \union {thing}
                    [] verb = "untag" -> w.tagged \ {thing}
                    [] OTHER -> w.tagged
    /\ v.saved = CASE verb = "save" -> w.saved \union {thing}
                   [] verb = "drop" -> w.saved \ {thing}
                   [] OTHER -> w.saved
    /\ \A a \in Artifacts :
          \/ v.image[a] = w.image[a] /\ ~(verb = "rm" /\ thing = a)
          \/ v.image[a] = 0 /\ verb = "rm" /\ thing = a
          \/ v.image[a] = w.unpacked /\ subject.builds /\ verb = "build" /\ thing = a

LEMMA EffectLeaves ==
    ASSUME NEW verb, NEW thing, <<verb, thing>> \in Commands, NEW w \in World, NEW x \in Effect(verb, thing, w)
    PROVE  Leaves(verb, thing, w, x.world)
<1>1. CASE verb \in {"chmod", "identify", "inventory"}
  <2>1. x.world = w
    BY <1>1 DEF Effect, Ends
  <2> QED
    BY <1>1, <2>1 DEF Leaves
<1>2. CASE verb = "replay"
  <2>1. x.world = w
    BY <1>2 DEF Effect, Runs, Ends
  <2> QED
    BY <1>2, <2>1 DEF Leaves
<1>3. CASE verb = "build"
  <2>1. x.world = w \/ (subject.builds /\ x.world = [w EXCEPT !.image[thing] = w.unpacked])
    BY <1>3 DEF Effect, Builds, Ends
  <2>2. thing \in Artifacts
    BY <1>3 DEF Commands
  <2>3. CASE x.world = w
    BY <1>3, <2>3 DEF Leaves
  <2>4. CASE subject.builds /\ x.world = [w EXCEPT !.image[thing] = w.unpacked]
    BY <1>3, <2>2, <2>4 DEF Leaves, World
  <2> QED
    BY <2>1, <2>3, <2>4
<1>4. CASE verb = "tag"
  <2>1. x.world = [w EXCEPT !.tagged = w.tagged \union {thing}]
    BY <1>4 DEF Effect, Ends
  <2> QED
    BY <1>4, <2>1 DEF Leaves, World
<1>5. CASE verb = "save"
  <2>1. x.world = [w EXCEPT !.saved = w.saved \union {thing}]
    BY <1>5 DEF Effect, Ends
  <2> QED
    BY <1>5, <2>1 DEF Leaves, World
<1>6. CASE verb = "drop"
  <2>1. x.world = [w EXCEPT !.saved = w.saved \ {thing}]
    BY <1>6 DEF Effect, Ends
  <2> QED
    BY <1>6, <2>1 DEF Leaves, World
<1>7. CASE verb = "untag"
  <2>1. x.world = [w EXCEPT !.tagged = w.tagged \ {thing}] \/ (x.world = w /\ thing \notin w.tagged)
    BY <1>7 DEF Effect, Removes, Ends
  <2>2. x.world = [w EXCEPT !.tagged = w.tagged \ {thing}] => x.world.tagged = w.tagged \ {thing}
    BY DEF World
  <2>3. x.world.tagged = w.tagged \ {thing}
    BY <2>1, <2>2
  <2> QED
    BY <1>7, <2>1, <2>3 DEF Leaves, World
<1>8. CASE verb = "rm" /\ thing = "container"
  <2>1. CASE w.running
    <3>1. x.world = [w EXCEPT !.running = FALSE]
      BY <1>8, <2>1 DEF Effect, Removes, Ends, Artifacts
    <3> QED
      BY <1>8, <3>1 DEF Leaves, World, Artifacts
  <2>2. CASE ~w.running
    <3>1. x.world = w
      BY <1>8, <2>2 DEF Effect, Removes, Ends, Artifacts
    <3> QED
      BY <1>8, <2>2, <3>1 DEF Leaves, World, Artifacts
  <2> QED
    BY <2>1, <2>2
<1>9. CASE verb = "rm" /\ thing \in Artifacts
  <2>1. x.world = [w EXCEPT !.image[thing] = 0] \/ (x.world = w /\ w.image[thing] = 0)
    BY <1>9 DEF Effect, Removes, Ends, Artifacts
  <2>2. CASE x.world = w /\ w.image[thing] = 0
    BY <1>9, <2>2 DEF Leaves, Artifacts
  <2>3. CASE x.world = [w EXCEPT !.image[thing] = 0]
    BY <1>9, <2>3 DEF Leaves, Artifacts, World
  <2> QED
    BY <2>1, <2>2, <2>3
<1>10. CASE verb = "rm" /\ thing = "task"
  <2>1. x.world = [w EXCEPT !.unpacked = 0]
    BY <1>10 DEF Effect, Ends, Artifacts
  <2> QED
    BY <1>10, <2>1 DEF Leaves, World, Artifacts
<1> QED
  BY <1>1, <1>2, <1>3, <1>4, <1>5, <1>6, <1>7, <1>8, <1>9, <1>10 DEF Commands

\* No command builds from anything but what is unpacked, or for a verifier where there is none.
LEMMA EffectWithin ==
    ASSUME NEW d \in Nat, version \in Nat, NEW verb, NEW thing, <<verb, thing>> \in Commands,
           verb = "build" /\ thing = "verifier" => subject.separate,
           NEW w \in Worlds(d), NEW x \in Effect(verb, thing, w), subject \in Subjects
    PROVE  x.world \in Worlds(d)
<1>1. w \in World /\ x.world \in World /\ 0 \in Dates(d)
  BY EffectType DEF Worlds, Dates, Outcomes
<1>2. x.world.unpacked \in {w.unpacked, 0}
      /\ \A a \in Artifacts : \/ x.world.image[a] \in {w.image[a], 0}
                              \/ x.world.image[a] = w.unpacked /\ subject.builds /\ verb = "build" /\ thing = a
  <2>1. Leaves(verb, thing, w, x.world)
    BY <1>1, EffectLeaves
  <2> QED
    BY <2>1 DEF Leaves
<1>3. w.unpacked \in Dates(d) /\ w.image["solver"] \in Dates(d) /\ w.image["verifier"] \in Dates(d)
      /\ (w.image["solver"] # 0 => subject.builds) /\ (w.image["verifier"] # 0 => subject.separate)
  BY DEF Worlds
<1> QED
  BY <1>1, <1>2, <1>3 DEF Worlds, Artifacts

\* Nor does it end anywhere else, however often it is sent.
LEMMA SentWithin ==
    ASSUME NEW d \in Nat, version \in Nat, NEW verb, NEW thing, <<verb, thing>> \in Commands,
           verb = "build" /\ thing = "verifier" => subject.separate,
           NEW w \in Worlds(d), NEW o \in Sent(verb, thing, w), subject \in Subjects
    PROVE  o.world \in Worlds(d)
<1>1. \A v \in Worlds(d) : \A x \in Effect(verb, thing, v) : x.world \in Worlds(d)
  BY EffectWithin
<1>2. \A v \in Worlds(d) : Started(v) \in Worlds(d)
  BY DEF Started, Worlds, World
<1>3. Worlds(d) \subseteq World
  BY DEF Worlds
<1> QED
  BY <1>1, <1>2, <1>3, SentStays

\* The commands of the drive leave no tag and no archive.
LEMMA DriveMarks ==
    ASSUME NEW verb \in {"chmod", "build", "identify", "inventory", "replay"}, NEW thing,
           <<verb, thing>> \in Commands, NEW w \in World, NEW o \in Sent(verb, thing, w), subject \in Subjects
    PROVE  /\ o.world.tagged = w.tagged /\ o.world.saved = w.saved
           /\ verb = "identify" /\ o.exit = 0 => o.world.image[thing] # 0
           /\ verb = "inventory" /\ o.exit = 0 => subject.complete
           /\ verb = "replay" /\ o.exit = 0 => subject.answers = "full"
<1> DEFINE S == {v \in World : v.tagged = w.tagged /\ v.saved = w.saved}
<1>1. ASSUME NEW v \in S, NEW x \in Effect(verb, thing, v) PROVE x.world \in S
  <2>1. x.world \in World
    BY EffectType DEF Outcomes
  <2>2. x.world.tagged = v.tagged /\ x.world.saved = v.saved
    <3>1. Leaves(verb, thing, v, x.world)
      BY EffectLeaves
    <3> QED
      BY <3>1 DEF Leaves
  <2> QED
    BY <2>1, <2>2
<1>2. \A v \in S : Started(v) \in S
  BY DEF Started, World
<1>3. /\ o.world \in S
      /\ \/ o.exit = 1 /\ o.said = "silence"
         \/ \E v \in S : \E x \in Effect(verb, thing, v) :
                o.world = x.world /\ o.exit = x.exit /\ o.said = x.said
  <2> HIDE DEF S
  <2>1. w \in S /\ S \subseteq World
    BY DEF S
  <2> QED
    BY <1>1, <1>2, <2>1, SentStays
<1>4. CASE o.exit = 1
  BY <1>3, <1>4
<1>5. CASE \E v \in S : \E x \in Effect(verb, thing, v) : o.world = x.world /\ o.exit = x.exit
  <2>1. PICK v \in S : \E x \in Effect(verb, thing, v) : o.world = x.world /\ o.exit = x.exit
    BY <1>5
  <2>2. PICK x \in Effect(verb, thing, v) : o.world = x.world /\ o.exit = x.exit
    BY <2>1
  <2>3. /\ verb = "identify" /\ x.exit = 0 => x.world.image[thing] # 0
        /\ verb = "inventory" /\ x.exit = 0 => subject.complete
        /\ verb = "replay" /\ x.exit = 0 => subject.answers = "full"
    BY EffectSays
  <2> QED
    BY <1>3, <2>2, <2>3
<1> QED
  BY <1>3, <1>4, <1>5


\* The commands of a save: what is dropped or untagged and said to be is gone.
LEMMA SaveMarks ==
    ASSUME NEW verb \in {"tag", "save", "drop", "untag"}, NEW a \in Artifacts,
           NEW w \in World, NEW o \in Sent(verb, a, w), subject \in Subjects
    PROVE  /\ o.world.tagged \subseteq w.tagged \union (IF verb = "tag" THEN {a} ELSE {})
           /\ o.world.saved \subseteq w.saved \union (IF verb = "save" THEN {a} ELSE {})
           /\ verb = "drop" /\ o.exit = 0 => a \notin o.world.saved
           /\ verb = "untag" /\ o.exit = 0 => a \notin o.world.tagged
<1> DEFINE S == {v \in World : /\ v.tagged \subseteq w.tagged \union (IF verb = "tag" THEN {a} ELSE {})
                               /\ v.saved \subseteq w.saved \union (IF verb = "save" THEN {a} ELSE {})}
<1>1. <<verb, a>> \in Commands
  BY DEF Commands
<1>2. ASSUME NEW v \in S, NEW x \in Effect(verb, a, v)
      PROVE  /\ x.world \in S
             /\ verb = "drop" => a \notin x.world.saved
             /\ verb = "untag" => a \notin x.world.tagged
  <2>1. x.world \in World
    BY <1>1, EffectType DEF Outcomes
  <2>2. Leaves(verb, a, v, x.world)
    BY <1>1, EffectLeaves
  <2> QED
    BY <2>1, <2>2 DEF Leaves
<1>3. /\ o.world \in S
      /\ \/ o.exit = 1 /\ o.said = "silence"
         \/ \E v \in S : \E x \in Effect(verb, a, v) :
                o.world = x.world /\ o.exit = x.exit /\ o.said = x.said
  <2>1. w \in S /\ S \subseteq World
    OBVIOUS
  <2> HIDE DEF S
  <2> QED
    BY <1>1, <1>2, <2>1, SentStays
<1>4. CASE o.exit = 1
  BY <1>3, <1>4
<1>5. CASE \E v \in S : \E x \in Effect(verb, a, v) : o.world = x.world
  <2>1. /\ verb = "drop" => a \notin o.world.saved
        /\ verb = "untag" => a \notin o.world.tagged
    BY <1>2, <1>5
  <2> QED
    BY <1>3, <2>1
<1> QED
  BY <1>3, <1>4, <1>5

\* The commands of the cleanup: what is said to be removed, or never to have been, is gone.
LEMMA RemoveMarks ==
    ASSUME NEW thing, <<"rm", thing>> \in Commands,
           NEW w \in World, NEW o \in Sent("rm", thing, w), subject \in Subjects
    PROVE  /\ o.world.tagged = w.tagged /\ o.world.saved = w.saved
           /\ ~w.running => ~o.world.running
           /\ w.unpacked = 0 => o.world.unpacked = 0
           /\ \A a \in Artifacts : w.image[a] = 0 => o.world.image[a] = 0
           /\ o.exit = 0 \/ o.said = "absent" =>
                  /\ thing = "container" => ~o.world.running
                  /\ thing = "task" => o.world.unpacked = 0
                  /\ thing \in Artifacts => o.world.image[thing] = 0
<1> DEFINE S == {v \in World : /\ v.tagged = w.tagged /\ v.saved = w.saved
                               /\ ~w.running => ~v.running
                               /\ w.unpacked = 0 => v.unpacked = 0
                               /\ \A a \in Artifacts : w.image[a] = 0 => v.image[a] = 0}
           Gone(v) == /\ thing = "container" => ~v.running
                      /\ thing = "task" => v.unpacked = 0
                      /\ thing \in Artifacts => v.image[thing] = 0
<1>1. ASSUME NEW v \in S, NEW x \in Effect("rm", thing, v)
      PROVE  x.world \in S /\ Gone(x.world)
  <2>1. x.world \in World
    BY EffectType DEF Outcomes
  <2>2. Leaves("rm", thing, v, x.world)
    BY EffectLeaves
  <2> QED
    BY <2>1, <2>2 DEF Leaves
<1>2. /\ o.world \in S
      /\ \/ o.exit = 1 /\ o.said = "silence"
         \/ \E v \in S : \E x \in Effect("rm", thing, v) :
                o.world = x.world /\ o.exit = x.exit /\ o.said = x.said
  <2>1. w \in S /\ S \subseteq World
    OBVIOUS
  <2> HIDE DEF S
  <2> QED
    BY <1>1, <2>1, SentStays
<1>3. CASE o.exit = 1 /\ o.said = "silence"
  BY <1>2, <1>3
<1>4. CASE \E v \in S : \E x \in Effect("rm", thing, v) : o.world = x.world
  <2>1. Gone(o.world)
    BY <1>1, <1>4
  <2> QED
    BY <1>2, <2>1
<1> QED
  BY <1>2, <1>3, <1>4

-----------------------------------------------------------------------------
(* Steps of one exporter.                                                  *)

\* The task may be rewritten meanwhile: what was not older than the digest still is not.
LEMMA SoundLater ==
    ASSUME NEW e \in Exporter, NEW p, NEW w, NEW r, NEW d \in Nat, NEW a, Sound(p, w, r, d, a),
           pc'[e] = p, sandbox'[e] = w, record'[e] = r, digest'[e] = d, artifact'[e] = a,
           UNCHANGED subject, version \in Nat, version' \in Nat, version <= version'
    PROVE  SoundOf(e)'
<1>1. \A k : k \in Dates(d) => k \in Dates(d)'
  BY DEF Dates
<1>2. w \in Worlds(d) => w \in Worlds(d)'
  BY <1>1 DEF Worlds, World
<1>3. r \in Records(d) => r \in Records(d)'
  BY <1>1 DEF Records, Record
<1>4. Sound(p, w, r, d, a)'
  BY <1>2, <1>3 DEF Sound, Driven, Saved, Removed
<1> QED
  BY <1>4 DEF SoundOf

\* A drive that failed has nothing to show but what it leaves behind.
LEMMA SoundFails ==
    ASSUME NEW d \in Nat, d <= version, NEW w \in Worlds(d), NEW r \in Records(d), ~r.ok, NEW a,
           NEW p \in {"rm_container", "drop", "drop_untagged", "untag"}
    PROVE  Sound(p, w, r, d, a)
BY DEF Sound, Driven, Saved, Removed, Early, Driving, Saving, Cleaning

\* What is known wherever an exporter is at work.
LEMMA AtWork ==
    ASSUME DriveInv, NEW e \in Exporter, pc[e] \in Driving \union Saving \union Cleaning
    PROVE  /\ digest[e] \in Nat /\ version \in Nat /\ subject \in Subjects
           /\ digest[e] <= version /\ sandbox[e] \in Worlds(digest[e]) /\ record[e] \in Records(digest[e])
           /\ sandbox[e] \in World /\ record[e] \in Record /\ artifact[e] \in Artifacts
           /\ Driven(pc[e], sandbox[e], record[e])
           /\ Saved(pc[e], sandbox[e], record[e], artifact[e])
           /\ Removed(pc[e], sandbox[e], record[e])
BY DEF DriveInv, TypeOK, SoundOf, Sound

\* Nobody else moves.
Others(e) ==
    /\ UNCHANGED <<subject, version>>
    /\ \A x \in Exporter \ {e} : /\ pc'[x] = pc[x] /\ sandbox'[x] = sandbox[x] /\ record'[x] = record[x]
                                 /\ digest'[x] = digest[x] /\ artifact'[x] = artifact[x]

\* A step that commits nothing and leaves the one who took it sound.
Keeps(e) == Others(e) /\ SoundOf(e)' /\ UNCHANGED files

LEMMA CommandKeeps ==
    ASSUME DriveInv, NEW e \in Exporter, pc[e] \in Driving \union Saving \union Cleaning,
           NEW o, Returns(e, o),
           NEW p, Go(e, p), NEW r, Said(e, r) \/ (UNCHANGED record /\ r = record[e]),
           NEW a, artifact' = [artifact EXCEPT ![e] = a] \/ (UNCHANGED artifact /\ a = artifact[e]),
           Sound(p, o.world, r, digest[e], a)
    PROVE  Keeps(e)
<1>1. TypeOK /\ digest[e] \in Nat /\ version \in Nat
  BY DEF DriveInv, TypeOK
<1>2. UNCHANGED <<subject, version, digest, files>> /\ sandbox' = [sandbox EXCEPT ![e] = o.world]
  BY DEF Returns, shared
<1>3. Others(e)
  BY <1>1, <1>2 DEF Others, Go, Said, TypeOK
<1>4. /\ pc'[e] = p /\ sandbox'[e] = o.world /\ record'[e] = r /\ digest'[e] = digest[e] /\ artifact'[e] = a
  BY <1>1, <1>2 DEF Go, Said, TypeOK
<1>5. SoundOf(e)'
  BY <1>1, <1>2, <1>4, SoundLater
<1> QED
  BY <1>2, <1>3, <1>5 DEF Keeps

\* A step of the drive: sound if it went well, nothing to show if it did not.
LEMMA DriveKeeps ==
    ASSUME DriveInv, NEW e \in Exporter, NEW place \in Driving, NEW outcomes, NEW stage \in Stages, NEW next,
           Drive(e, place, outcomes, stage, next),
           \A o \in outcomes : /\ o.world \in Worlds(digest[e])
                               /\ o.exit = 0 => Sound(next, o.world, record[e], digest[e], artifact[e])
    PROVE  Keeps(e)
<1>1. pc[e] = place /\ UNCHANGED artifact
  BY DEF Drive, At
<1>2. /\ digest[e] \in Nat /\ digest[e] <= version /\ record[e] \in Records(digest[e]) /\ ~record[e].ok
  BY <1>1, AtWork DEF Driven
<1>3. PICK o \in outcomes :
          /\ Returns(e, o)
          /\ IF o.exit = 0 THEN Go(e, next) /\ UNCHANGED record
             ELSE Go(e, "rm_container") /\ Said(e, [record[e] EXCEPT !.stage = stage])
  BY DEF Drive
<1>4. CASE o.exit = 0
  BY <1>1, <1>3, <1>4, CommandKeeps
<1>5. CASE o.exit # 0
  <2>1. [record[e] EXCEPT !.stage = stage] \in Records(digest[e]) /\ ~[record[e] EXCEPT !.stage = stage].ok
    BY <1>2 DEF Records, Record
  <2>2. Sound("rm_container", o.world, [record[e] EXCEPT !.stage = stage], digest[e], artifact[e])
    BY <1>2, <1>3, <2>1, SoundFails
  <2>3. Go(e, "rm_container") /\ Said(e, [record[e] EXCEPT !.stage = stage])
    BY <1>3, <1>5
  <2> QED
    BY <1>1, <1>3, <2>2, <2>3, CommandKeeps
<1> QED
  BY <1>4, <1>5

\* What is sound to go on with, at each place of the drive.
LEMMA SoundDriving ==
    ASSUME NEW d, d <= version, NEW w \in Worlds(d), NEW r \in Records(d), NEW a, NEW p \in Driving,
           Driven(p, w, r)
    PROVE  Sound(p, w, r, d, a)
BY DEF Sound, Saved, Removed, Early, Driving, Saving, Cleaning

LEMMA PushKeeps ==
    ASSUME DriveInv, NEW e \in Exporter, Push(e)
    PROVE  Keeps(e)
<1>1. pc[e] = "push"
  BY DEF Push, Drive, At
<1> DEFINE w == sandbox[e]
           d == digest[e]
<1>2. /\ d \in Nat /\ version \in Nat /\ d <= version /\ w \in Worlds(d) /\ record[e] \in Records(d)
      /\ w \in World /\ Driven("push", w, record[e])
  BY <1>1, AtWork DEF Driving
<1>3. [w EXCEPT !.unpacked = version] \in Worlds(d)
      /\ [w EXCEPT !.unpacked = version].tagged = w.tagged
      /\ [w EXCEPT !.unpacked = version].saved = w.saved
  BY <1>2 DEF Worlds, World, Dates
<1>4. ASSUME NEW o \in Pushed(w, version) PROVE o.world \in {w, [w EXCEPT !.unpacked = version]}
  BY DEF Pushed, Also, Ends
<1>5. ASSUME NEW o \in Pushed(w, version)
      PROVE  o.world \in Worlds(d) /\ Sound("chmod", o.world, record[e], d, artifact[e])
  <2>1. o.world \in Worlds(d) /\ o.world.tagged = w.tagged /\ o.world.saved = w.saved
    BY <1>2, <1>3, <1>4
  <2>2. Driven("chmod", o.world, record[e])
    BY <1>2, <2>1 DEF Driven, Driving
  <2> QED
    BY <1>2, <2>1, <2>2, SoundDriving DEF Driving
<1> QED
  BY <1>5, DriveKeeps DEF Push, Driving, Stages

\* A command sent from a place of the drive.
LEMMA DriveSent ==
    ASSUME DriveInv, NEW e \in Exporter, pc[e] \in Driving,
           NEW verb \in {"chmod", "build", "identify", "inventory", "replay"}, NEW thing,
           <<verb, thing>> \in Commands, verb = "build" /\ thing = "verifier" => subject.separate,
           NEW o \in Sent(verb, thing, sandbox[e])
    PROVE  /\ o.world \in Worlds(digest[e]) /\ o.world.tagged = {} /\ o.world.saved = {}
           /\ verb = "identify" /\ o.exit = 0 => o.world.image[thing] # 0
           /\ verb = "inventory" /\ o.exit = 0 => subject.complete
           /\ verb = "replay" /\ o.exit = 0 => subject.answers = "full"
<1>1. /\ digest[e] \in Nat /\ version \in Nat /\ subject \in Subjects /\ sandbox[e] \in World
      /\ sandbox[e] \in Worlds(digest[e]) /\ sandbox[e].tagged = {} /\ sandbox[e].saved = {}
  BY AtWork DEF Driven
<1>2. o.world \in Worlds(digest[e])
  BY <1>1, SentWithin
<1> QED
  BY <1>1, <1>2, DriveMarks

LEMMA ChmodKeeps ==
    ASSUME DriveInv, NEW e \in Exporter, Chmod(e)
    PROVE  Keeps(e)
<1>1. pc[e] = "chmod"
  BY DEF Chmod, Drive, At
<1>2. digest[e] <= version /\ record[e] \in Records(digest[e]) /\ ~record[e].ok
  BY <1>1, AtWork DEF Driven, Driving
<1>3. ASSUME NEW o \in Sent("chmod", "task", sandbox[e])
      PROVE  o.world \in Worlds(digest[e]) /\ Sound("build", o.world, record[e], digest[e], artifact[e])
  <2>1. o.world \in Worlds(digest[e]) /\ o.world.tagged = {} /\ o.world.saved = {}
    BY <1>1, DriveSent DEF Commands, Driving
  <2>2. Driven("build", o.world, record[e])
    BY <1>2, <2>1 DEF Driven
  <2> QED
    BY <1>2, <2>1, <2>2, SoundDriving DEF Driving
<1> QED
  BY <1>3, DriveKeeps DEF Chmod, Driving, Stages


LEMMA BuildKeeps ==
    ASSUME DriveInv, NEW e \in Exporter, Build(e)
    PROVE  Keeps(e)
<1>1. pc[e] = "build" /\ UNCHANGED artifact
  BY DEF Build, At
<1> DEFINE d == digest[e]
           r == record[e]
           failed == [r EXCEPT !.stage = "build"]
<1>2. d \in Nat /\ d <= version /\ r \in Records(d) /\ ~r.ok
  BY <1>1, AtWork DEF Driven, Driving
<1>3. PICK o \in Sent("build", "solver", sandbox[e]) :
          /\ Returns(e, o)
          /\ \/ Go(e, "identify") /\ UNCHANGED record
             \/ UNCHANGED <<pc, record>>
             \/ Go(e, "rm_container") /\ Said(e, failed)
  BY DEF Build
<1>4. o.world \in Worlds(d) /\ o.world.tagged = {} /\ o.world.saved = {}
  BY <1>1, DriveSent DEF Commands, Artifacts, Driving
<1>5. Sound("identify", o.world, r, d, artifact[e]) /\ Sound("build", o.world, r, d, artifact[e])
  <2>1. Driven("identify", o.world, r) /\ Driven("build", o.world, r)
    BY <1>2, <1>4 DEF Driven
  <2> QED
    BY <1>2, <1>4, <2>1, SoundDriving DEF Driving
<1>6. Sound("rm_container", o.world, failed, d, artifact[e])
  <2>1. failed \in Records(d) /\ ~failed.ok
    BY <1>2 DEF Records, Record, Stages
  <2> QED
    BY <1>2, <1>4, <2>1, SoundFails
<1>7. UNCHANGED pc => Go(e, "build")
  BY <1>1 DEF Go, DriveInv, TypeOK
<1> QED
  BY <1>1, <1>3, <1>5, <1>6, <1>7, CommandKeeps DEF Driving

LEMMA IdentifyKeeps ==
    ASSUME DriveInv, NEW e \in Exporter, NEW which \in Artifacts, NEW place \in Driving, NEW stage \in Stages,
           NEW next \in Driving, Identify(e, which, place, stage, next),
           <<which, place, next>> \in {<<"solver", "identify", "inventory">>,
                                       <<"verifier", "identify_verifier", "replay">>}
    PROVE  Keeps(e)
<1>1. pc[e] = place /\ UNCHANGED artifact
  BY DEF Identify, At
<1> DEFINE d == digest[e]
           r == record[e]
           failed == [r EXCEPT !.stage = stage]
<1>2. /\ d \in Nat /\ d <= version /\ r \in Records(d) /\ r \in Record /\ ~r.ok
      /\ Driven(place, sandbox[e], r)
  BY <1>1, AtWork DEF Driven, Driving
<1>3. PICK o \in Sent("identify", which, sandbox[e]) :
          /\ Returns(e, o)
          /\ IF o.exit = 0
             THEN Go(e, next) /\ Said(e, IF which = "solver"
                                         THEN [record[e] EXCEPT !.image = o.world.image[which]]
                                         ELSE [record[e] EXCEPT !.verifier = o.world.image[which]])
             ELSE Go(e, "rm_container") /\ Said(e, [record[e] EXCEPT !.stage = stage])
  BY DEF Identify
<1>4. /\ o.world \in Worlds(d) /\ o.world.tagged = {} /\ o.world.saved = {}
      /\ o.exit = 0 => o.world.image[which] # 0
  <2>1. <<"identify", which>> \in Commands
    BY DEF Commands
  <2> QED
    BY <1>1, <2>1, DriveSent
<1>5. CASE o.exit # 0
  <2>1. failed \in Records(d) /\ ~failed.ok
    BY <1>2 DEF Records, Record
  <2>2. Sound("rm_container", o.world, failed, d, artifact[e])
    BY <1>2, <1>4, <2>1, SoundFails
  <2>3. Go(e, "rm_container") /\ Said(e, failed)
    BY <1>3, <1>5
  <2> QED
    BY <1>1, <1>3, <2>2, <2>3, CommandKeeps
<1>6. CASE o.exit = 0 /\ which = "solver"
  <2> DEFINE known == [r EXCEPT !.image = o.world.image["solver"]]
  <2>1. Go(e, "inventory") /\ Said(e, known)
    BY <1>3, <1>6
  <2>2. known \in Records(d) /\ ~known.ok /\ known.image # 0
    BY <1>2, <1>4, <1>6 DEF Records, Record, Worlds, World, Artifacts
  <2>3. Driven("inventory", o.world, known)
    BY <1>4, <2>2 DEF Driven
  <2>4. Sound("inventory", o.world, known, d, artifact[e])
    BY <1>2, <1>4, <2>2, <2>3, SoundDriving DEF Driving
  <2> QED
    BY <1>1, <1>3, <2>1, <2>4, CommandKeeps
<1>7. CASE o.exit = 0 /\ which = "verifier"
  <2> DEFINE known == [r EXCEPT !.verifier = o.world.image["verifier"]]
  <2>1. Go(e, "replay") /\ Said(e, known)
    BY <1>3, <1>7
  <2>2. r.image # 0 /\ subject.complete /\ subject.separate
    BY <1>2, <1>7 DEF Driven
  <2>3. known \in Records(d) /\ ~known.ok /\ known.image = r.image /\ known.verifier # 0
    BY <1>2, <1>4, <1>7 DEF Records, Record, Worlds, World, Artifacts
  <2>4. Driven("replay", o.world, known)
    BY <1>4, <2>2, <2>3 DEF Driven
  <2>5. Sound("replay", o.world, known, d, artifact[e])
    BY <1>2, <1>4, <2>3, <2>4, SoundDriving DEF Driving
  <2> QED
    BY <1>1, <1>3, <2>1, <2>5, CommandKeeps
<1> QED
  BY <1>5, <1>6, <1>7 DEF Artifacts

LEMMA InventoryKeeps ==
    ASSUME DriveInv, NEW e \in Exporter, Inventory(e)
    PROVE  Keeps(e)
<1> DEFINE next == IF subject.separate THEN "build_verifier" ELSE "replay"
<1>1. pc[e] = "inventory"
  BY DEF Inventory, Drive, At
<1>2. digest[e] <= version /\ record[e] \in Records(digest[e]) /\ ~record[e].ok /\ record[e].image # 0
  BY <1>1, AtWork DEF Driven, Driving
<1>3. ASSUME NEW o \in Sent("inventory", "workspace", sandbox[e])
      PROVE  /\ o.world \in Worlds(digest[e])
             /\ o.exit = 0 => Sound(next, o.world, record[e], digest[e], artifact[e])
  <2>1. /\ o.world \in Worlds(digest[e]) /\ o.world.tagged = {} /\ o.world.saved = {}
        /\ o.exit = 0 => subject.complete
    BY <1>1, DriveSent DEF Commands, Driving
  <2>2. o.exit = 0 => Driven(next, o.world, record[e])
    BY <1>2, <2>1 DEF Driven
  <2>3. next \in Driving
    BY DEF Driving
  <2> QED
    BY <1>2, <2>1, <2>2, <2>3, SoundDriving
<1> QED
  BY <1>3, DriveKeeps DEF Inventory, Driving, Stages

LEMMA VerifierKeeps ==
    ASSUME DriveInv, NEW e \in Exporter, Verifier(e)
    PROVE  Keeps(e)
<1>1. CASE Drive(e, "build_verifier", Sent("build", "verifier", sandbox[e]), "verifier_build", "identify_verifier")
  <2>1. pc[e] = "build_verifier"
    BY <1>1 DEF Drive, At
  <2>2. /\ digest[e] <= version /\ record[e] \in Records(digest[e]) /\ ~record[e].ok
        /\ record[e].image # 0 /\ subject.complete /\ subject.separate
    BY <2>1, AtWork DEF Driven, Driving
  <2>3. ASSUME NEW o \in Sent("build", "verifier", sandbox[e])
        PROVE  /\ o.world \in Worlds(digest[e])
               /\ Sound("identify_verifier", o.world, record[e], digest[e], artifact[e])
    <3>1. o.world \in Worlds(digest[e]) /\ o.world.tagged = {} /\ o.world.saved = {}
      BY <2>1, <2>2, DriveSent DEF Commands, Driving, Artifacts
    <3>2. Driven("identify_verifier", o.world, record[e])
      BY <2>2, <3>1 DEF Driven
    <3> QED
      BY <2>2, <3>1, <3>2, SoundDriving DEF Driving
  <2> QED
    BY <1>1, <2>3, DriveKeeps DEF Driving, Stages
<1>2. CASE Identify(e, "verifier", "identify_verifier", "verifier_build", "replay")
  BY <1>2, IdentifyKeeps DEF Driving, Stages, Artifacts
<1> QED
  BY <1>1, <1>2 DEF Verifier

\* Full marks are an ok, and nothing else is.
LEMMA ReplayKeeps ==
    ASSUME DriveInv, NEW e \in Exporter, Replay(e)
    PROVE  Keeps(e)
<1>1. pc[e] = "replay" /\ UNCHANGED artifact
  BY DEF Replay, At
<1> DEFINE d == digest[e]
           r == record[e]
           full == [r EXCEPT !.ok = TRUE, !.stage = "image_export", !.total = 1]
<1>2. /\ d \in Nat /\ d <= version /\ r \in Records(d) /\ r \in Record /\ ~r.ok
      /\ Driven("replay", sandbox[e], r) /\ artifact[e] \in Artifacts
  BY <1>1, AtWork DEF Driven, Driving
<1>3. PICK o \in Sent("replay", "container", sandbox[e]) :
          /\ Returns(e, o)
          /\ IF o.exit = 0
             THEN Go(e, "tag") /\ Said(e, [record[e] EXCEPT !.ok = TRUE, !.stage = "image_export", !.total = 1])
             ELSE /\ Go(e, "rm_container")
                  /\ Said(e, [record[e] EXCEPT !.stage = "replay",
                                               !.total = IF o.said \in {"part", "untimed"} THEN 1 ELSE 0])
  BY DEF Replay
<1>4. /\ o.world \in Worlds(d) /\ o.world.tagged = {} /\ o.world.saved = {}
      /\ o.exit = 0 => subject.answers = "full"
  <2>1. <<"replay", "container">> \in Commands /\ pc[e] \in Driving
    BY <1>1 DEF Commands, Driving
  <2> QED
    BY <2>1, DriveSent
<1>5. CASE o.exit # 0
  <2> DEFINE failed == [r EXCEPT !.stage = "replay", !.total = IF o.said \in {"part", "untimed"} THEN 1 ELSE 0]
  <2>1. failed \in Records(d) /\ ~failed.ok
    BY <1>2 DEF Records, Record, Stages
  <2>2. Sound("rm_container", o.world, failed, d, artifact[e])
    BY <1>2, <1>4, <2>1, SoundFails
  <2>3. Go(e, "rm_container") /\ Said(e, failed)
    BY <1>3, <1>5
  <2> QED
    BY <1>1, <1>3, <2>2, <2>3, CommandKeeps DEF Driving
<1>6. CASE o.exit = 0
  <2>1. r.image # 0 /\ subject.complete /\ (subject.separate => r.verifier # 0)
    BY <1>2 DEF Driven
  <2>2. full \in Records(d)
    BY <1>2, <1>4, <1>6, <2>1 DEF Records, Record, Stages
  <2>3. Sound("tag", o.world, full, d, artifact[e])
    BY <1>2, <1>4, <2>2 DEF Sound, Driven, Saved, Removed, Early, Driving, Saving, Cleaning
  <2>4. Go(e, "tag") /\ Said(e, full)
    BY <1>3, <1>6
  <2> QED
    BY <1>1, <1>3, <2>3, <2>4, CommandKeeps DEF Driving
<1> QED
  BY <1>5, <1>6


\* A step that sends no command.
LEMMA StillKeeps ==
    ASSUME DriveInv, NEW e \in Exporter, UNCHANGED <<sandbox, digest, subject, version, files>>,
           NEW p, Go(e, p), NEW r, Said(e, r) \/ (UNCHANGED record /\ r = record[e]),
           NEW a, artifact' = [artifact EXCEPT ![e] = a] \/ (UNCHANGED artifact /\ a = artifact[e]),
           Sound(p, sandbox[e], r, digest[e], a)
    PROVE  Keeps(e)
<1>1. TypeOK /\ digest[e] \in Nat /\ version \in Nat
  BY DEF DriveInv, TypeOK
<1>2. Others(e)
  BY <1>1 DEF Others, Go, Said, TypeOK
<1>3. /\ pc'[e] = p /\ sandbox'[e] = sandbox[e] /\ record'[e] = r /\ digest'[e] = digest[e] /\ artifact'[e] = a
  BY <1>1 DEF Go, Said, TypeOK
<1>4. SoundOf(e)'
  BY <1>1, <1>3, SoundLater
<1> QED
  BY <1>2, <1>4 DEF Keeps

\* What is sound to go on with, at each place of a save.
LEMMA SoundSaving ==
    ASSUME NEW d, d <= version, NEW w \in Worlds(d), NEW r \in Records(d), NEW a, NEW p \in Saving,
           Saved(p, w, r, a)
    PROVE  Sound(p, w, r, d, a)
BY DEF Sound, Driven, Removed, Early, Driving, Saving, Cleaning

LEMMA SaveKeeps ==
    ASSUME DriveInv, NEW e \in Exporter, NEW place \in Saving, NEW outcomes, NEW next,
           NEW otherwise \in {"drop", "drop_untagged", "untag"}, Save(e, place, outcomes, next, otherwise),
           \A o \in outcomes : /\ o.world \in Worlds(digest[e])
                               /\ o.exit = 0 => Sound(next, o.world, record[e], digest[e], artifact[e])
    PROVE  Keeps(e)
<1>1. pc[e] = place /\ UNCHANGED artifact
  BY DEF Save, At
<1>2. digest[e] \in Nat /\ digest[e] <= version /\ record[e] \in Records(digest[e])
  BY <1>1, AtWork
<1>3. PICK o \in outcomes :
          /\ Returns(e, o)
          /\ IF o.exit = 0 THEN Go(e, next) /\ UNCHANGED record ELSE Go(e, otherwise) /\ Failed(e)
  BY DEF Save
<1>4. CASE o.exit = 0
  BY <1>1, <1>3, <1>4, CommandKeeps
<1>5. CASE o.exit # 0
  <2> DEFINE failed == [record[e] EXCEPT !.ok = FALSE]
  <2>1. failed \in Records(digest[e]) /\ ~failed.ok
    BY <1>2 DEF Records, Record
  <2>2. Sound(otherwise, o.world, failed, digest[e], artifact[e])
    BY <1>2, <1>3, <2>1, SoundFails
  <2>3. Go(e, otherwise) /\ Said(e, failed)
    BY <1>3, <1>5 DEF Failed
  <2> QED
    BY <1>1, <1>3, <2>2, <2>3, CommandKeeps
<1> QED
  BY <1>4, <1>5

\* A command sent while an image is saved.
LEMMA SaveSent ==
    ASSUME DriveInv, NEW e \in Exporter, pc[e] \in Saving, NEW verb \in {"tag", "save", "drop", "untag"},
           NEW o \in Sent(verb, artifact[e], sandbox[e])
    PROVE  /\ o.world \in Worlds(digest[e])
           /\ o.world.tagged \subseteq sandbox[e].tagged \union (IF verb = "tag" THEN {artifact[e]} ELSE {})
           /\ o.world.saved \subseteq sandbox[e].saved \union (IF verb = "save" THEN {artifact[e]} ELSE {})
           /\ verb = "drop" /\ o.exit = 0 => artifact[e] \notin o.world.saved
           /\ verb = "untag" /\ o.exit = 0 => artifact[e] \notin o.world.tagged
<1>1. /\ digest[e] \in Nat /\ version \in Nat /\ subject \in Subjects /\ sandbox[e] \in World
      /\ sandbox[e] \in Worlds(digest[e]) /\ artifact[e] \in Artifacts
  BY AtWork
<1>2. <<verb, artifact[e]>> \in Commands
  BY <1>1 DEF Commands
<1>3. o.world \in Worlds(digest[e])
  BY <1>1, <1>2, SentWithin
<1> QED
  BY <1>1, <1>3, SaveMarks

LEMMA TagKeeps ==
    ASSUME DriveInv, NEW e \in Exporter, Tag(e) \/ SaveImage(e)
    PROVE  Keeps(e)
<1>1. CASE Tag(e)
  <2>1. pc[e] = "tag"
    BY <1>1 DEF Tag, Save, At
  <2>2. /\ digest[e] <= version /\ record[e] \in Records(digest[e])
        /\ Saved("tag", sandbox[e], record[e], artifact[e])
    BY <2>1, AtWork DEF Saving
  <2>3. ASSUME NEW o \in Sent("tag", artifact[e], sandbox[e])
        PROVE  o.world \in Worlds(digest[e]) /\ Sound("save", o.world, record[e], digest[e], artifact[e])
    <3>1. /\ o.world \in Worlds(digest[e])
          /\ o.world.tagged \subseteq sandbox[e].tagged \union {artifact[e]}
          /\ o.world.saved \subseteq sandbox[e].saved
      BY <2>1, SaveSent DEF Saving
    <3>2. Saved("save", o.world, record[e], artifact[e])
      BY <2>2, <3>1 DEF Saved, Saving
    <3> QED
      BY <2>2, <3>1, <3>2, SoundSaving DEF Saving
  <2> QED
    BY <1>1, <2>3, SaveKeeps DEF Tag, Saving
<1>2. CASE SaveImage(e)
  <2>1. pc[e] = "save"
    BY <1>2 DEF SaveImage, Save, At
  <2>2. /\ digest[e] <= version /\ record[e] \in Records(digest[e])
        /\ Saved("save", sandbox[e], record[e], artifact[e])
    BY <2>1, AtWork DEF Saving
  <2>3. ASSUME NEW o \in Sent("save", artifact[e], sandbox[e])
        PROVE  o.world \in Worlds(digest[e]) /\ Sound("pull", o.world, record[e], digest[e], artifact[e])
    <3>1. /\ o.world \in Worlds(digest[e])
          /\ o.world.tagged \subseteq sandbox[e].tagged
          /\ o.world.saved \subseteq sandbox[e].saved \union {artifact[e]}
      BY <2>1, SaveSent DEF Saving
    <3>2. Saved("pull", o.world, record[e], artifact[e])
      BY <2>2, <3>1 DEF Saved, Saving
    <3> QED
      BY <2>2, <3>1, <3>2, SoundSaving DEF Saving
  <2> QED
    BY <1>2, <2>3, SaveKeeps DEF SaveImage, Saving
<1> QED
  BY <1>1, <1>2

LEMMA PullKeeps ==
    ASSUME DriveInv, NEW e \in Exporter, Pull(e)
    PROVE  Keeps(e)
<1>1. pc[e] = "pull"
  BY DEF Pull, Save, At
<1>2. /\ digest[e] <= version /\ sandbox[e] \in Worlds(digest[e]) /\ record[e] \in Records(digest[e])
      /\ Saved("pull", sandbox[e], record[e], artifact[e])
  BY <1>1, AtWork DEF Saving
<1>3. \A o \in Pulled(sandbox[e], artifact[e]) : o.world = sandbox[e]
  BY DEF Pulled, Also, Ends
<1>4. Sound("audit", sandbox[e], record[e], digest[e], artifact[e])
  <2>1. Saved("audit", sandbox[e], record[e], artifact[e])
    BY <1>2 DEF Saved, Saving
  <2> QED
    BY <1>2, <2>1, SoundSaving DEF Saving
<1> QED
  BY <1>2, <1>3, <1>4, SaveKeeps DEF Pull, Saving

LEMMA AuditKeeps ==
    ASSUME DriveInv, NEW e \in Exporter, Audit(e)
    PROVE  Keeps(e)
<1>1. pc[e] = "audit" /\ UNCHANGED <<sandbox, digest, subject, version, files>>
  BY DEF Audit, At, shared, outside
<1> DEFINE d == digest[e]
           r == record[e]
           w == sandbox[e]
           failed == [r EXCEPT !.ok = FALSE]
<1>2. /\ d \in Nat /\ d <= version /\ w \in Worlds(d) /\ r \in Records(d)
      /\ Saved("audit", w, r, artifact[e]) /\ artifact[e] \in Artifacts
  BY <1>1, AtWork DEF Saving
<1>3. CASE Go(e, "drop") /\ Failed(e) /\ UNCHANGED artifact
  <2>1. failed \in Records(d) /\ ~failed.ok
    BY <1>2 DEF Records, Record
  <2>2. Sound("drop", w, failed, d, artifact[e])
    BY <1>2, <2>1, SoundFails
  <2> QED
    BY <1>1, <1>3, <2>2, StillKeeps DEF Failed
<1>4. CASE UNCHANGED <<record, artifact>> /\ Go(e, "drop")
  <2>1. Saved("drop", w, r, artifact[e])
    BY <1>2 DEF Saved, Saving
  <2>2. Sound("drop", w, r, d, artifact[e])
    BY <1>2, <2>1, SoundSaving DEF Saving
  <2> QED
    BY <1>1, <1>4, <2>2, StillKeeps
<1>5. CASE /\ UNCHANGED record /\ artifact[e] = "solver" /\ Go(e, "tag")
           /\ artifact' = [artifact EXCEPT ![e] = "verifier"]
  <2>1. Saved("tag", w, r, "verifier")
    BY <1>2, <1>5 DEF Saved, Saving
  <2>2. Sound("tag", w, r, d, "verifier")
    BY <1>2, <2>1, SoundSaving DEF Saving
  <2> QED
    BY <1>1, <1>5, <2>2, StillKeeps
<1> QED
  BY <1>3, <1>4, <1>5 DEF Audit

\* The end of a save, of the verifier's or of the solver's.
LEMMA OutwardsSound ==
    ASSUME DriveInv, NEW e \in Exporter, pc[e] \in Saving, Outwards(e),
           NEW w \in Worlds(digest[e]), NEW r \in Records(digest[e]),
           r.ok => /\ w.tagged \subseteq IF artifact[e] = "verifier" THEN {"solver"} ELSE {}
                   /\ w.saved \subseteq IF artifact[e] = "verifier" THEN {"solver"} ELSE {}
    PROVE  \/ Go(e, "drop") /\ artifact' = [artifact EXCEPT ![e] = "solver"] /\ Sound("drop", w, r, digest[e], "solver")
           \/ Go(e, "rm_container") /\ UNCHANGED artifact /\ Sound("rm_container", w, r, digest[e], artifact[e])
<1>1. digest[e] <= version /\ artifact[e] \in Artifacts
  BY AtWork
<1>2. CASE artifact[e] = "verifier"
  <2>1. Saved("drop", w, r, "solver")
    BY <1>2 DEF Saved, Saving
  <2> QED
    BY <1>1, <1>2, <2>1, SoundSaving DEF Outwards, Saving
<1>3. CASE artifact[e] # "verifier"
  <2>1. Sound("rm_container", w, r, digest[e], artifact[e])
    BY <1>1, <1>3 DEF Sound, Driven, Saved, Removed, Early, Driving, Saving, Cleaning
  <2> QED
    BY <1>3, <2>1 DEF Outwards
<1> QED
  BY <1>2, <1>3

LEMMA TakenKeeps ==
    ASSUME DriveInv, NEW e \in Exporter, Taken(e)
    PROVE  Keeps(e)
<1>1. /\ pc[e] = "tag" /\ UNCHANGED <<sandbox, digest, subject, version, files>>
      /\ Outwards(e) /\ Said(e, [record[e] EXCEPT !.ok = FALSE])
  BY DEF Taken, Failed, At, shared, outside
<1>2. sandbox[e] \in Worlds(digest[e]) /\ record[e] \in Records(digest[e])
  BY <1>1, AtWork DEF Saving
<1>3. [record[e] EXCEPT !.ok = FALSE] \in Records(digest[e]) /\ ~[record[e] EXCEPT !.ok = FALSE].ok
  BY <1>2 DEF Records, Record
<1> QED
  BY <1>1, <1>2, <1>3, OutwardsSound, StillKeeps DEF Saving

LEMMA DropKeeps ==
    ASSUME DriveInv, NEW e \in Exporter, Drop(e)
    PROVE  Keeps(e)
<1>1. CASE Save(e, "drop", Sent("drop", artifact[e], sandbox[e]), "untag", "untag")
  <2>1. pc[e] = "drop"
    BY <1>1 DEF Save, At
  <2>2. /\ digest[e] <= version /\ record[e] \in Records(digest[e])
        /\ Saved("drop", sandbox[e], record[e], artifact[e])
    BY <2>1, AtWork DEF Saving
  <2>3. ASSUME NEW o \in Sent("drop", artifact[e], sandbox[e])
        PROVE  /\ o.world \in Worlds(digest[e])
               /\ o.exit = 0 => Sound("untag", o.world, record[e], digest[e], artifact[e])
    <3>1. /\ o.world \in Worlds(digest[e])
          /\ o.world.tagged \subseteq sandbox[e].tagged /\ o.world.saved \subseteq sandbox[e].saved
          /\ o.exit = 0 => artifact[e] \notin o.world.saved
      BY <2>1, SaveSent DEF Saving
    <3>2. o.exit = 0 => Saved("untag", o.world, record[e], artifact[e])
      BY <2>2, <3>1 DEF Saved, Saving
    <3> QED
      BY <2>2, <3>1, <3>2, SoundSaving DEF Saving
  <2> QED
    BY <1>1, <2>3, SaveKeeps DEF Saving
<1>2. CASE /\ At(e, "drop_untagged") /\ Outwards(e) /\ UNCHANGED <<record, builds>>
           /\ \E o \in Sent("drop", artifact[e], sandbox[e]) : Returns(e, o)
  <2>1. pc[e] = "drop_untagged"
    BY <1>2 DEF At
  <2>2. record[e] \in Records(digest[e]) /\ Saved("drop_untagged", sandbox[e], record[e], artifact[e])
    BY <2>1, AtWork DEF Saving
  <2>3. ~record[e].ok
    BY <2>2 DEF Saved, Saving
  <2>4. PICK o \in Sent("drop", artifact[e], sandbox[e]) : Returns(e, o)
    BY <1>2
  <2>5. o.world \in Worlds(digest[e])
    BY <2>1, SaveSent DEF Saving
  <2> QED
    BY <1>2, <2>1, <2>2, <2>3, <2>4, <2>5, OutwardsSound, CommandKeeps DEF Saving
<1> QED
  BY <1>1, <1>2 DEF Drop

LEMMA UntagKeeps ==
    ASSUME DriveInv, NEW e \in Exporter, Untag(e)
    PROVE  Keeps(e)
<1>1. pc[e] = "untag" /\ Outwards(e)
  BY DEF Untag, At
<1>2. /\ record[e] \in Records(digest[e]) /\ artifact[e] \in Artifacts
      /\ Saved("untag", sandbox[e], record[e], artifact[e])
  BY <1>1, AtWork DEF Saving
<1>3. PICK o \in Sent("untag", artifact[e], sandbox[e]) :
          Returns(e, o) /\ IF o.exit = 0 THEN UNCHANGED record ELSE Failed(e)
  BY DEF Untag
<1>4. /\ o.world \in Worlds(digest[e])
      /\ o.world.tagged \subseteq sandbox[e].tagged /\ o.world.saved \subseteq sandbox[e].saved
      /\ o.exit = 0 => artifact[e] \notin o.world.tagged
  BY <1>1, SaveSent DEF Saving
<1>5. CASE o.exit = 0
  <2>1. record[e].ok => /\ o.world.tagged \subseteq IF artifact[e] = "verifier" THEN {"solver"} ELSE {}
                        /\ o.world.saved \subseteq IF artifact[e] = "verifier" THEN {"solver"} ELSE {}
    BY <1>2, <1>4, <1>5 DEF Saved, Saving
  <2> QED
    BY <1>1, <1>2, <1>3, <1>4, <1>5, <2>1, OutwardsSound, CommandKeeps DEF Saving
<1>6. CASE o.exit # 0
  <2> DEFINE failed == [record[e] EXCEPT !.ok = FALSE]
  <2>1. failed \in Records(digest[e]) /\ ~failed.ok
    BY <1>2 DEF Records, Record
  <2>2. Said(e, failed)
    BY <1>3, <1>6 DEF Failed
  <2> QED
    BY <1>1, <1>3, <1>4, <2>1, <2>2, OutwardsSound, CommandKeeps DEF Saving
<1> QED
  BY <1>5, <1>6

\* What is sound to go on with, at each place of the cleanup.
LEMMA SoundCleaning ==
    ASSUME NEW d, d <= version, NEW w \in Worlds(d), NEW r \in Records(d), NEW a, NEW p \in Cleaning,
           Removed(p, w, r)
    PROVE  Sound(p, w, r, d, a)
BY DEF Sound, Driven, Saved, Early, Driving, Saving, Cleaning

LEMMA CleanKeeps ==
    ASSUME DriveInv, NEW e \in Exporter, NEW place \in Cleaning, NEW thing, NEW next \in Cleaning,
           Clean(e, place, thing, next),
           \A o \in Sent("rm", thing, sandbox[e]) :
               /\ o.world \in Worlds(digest[e])
               /\ o.exit = 0 \/ o.said = "absent" => Removed(next, o.world, record[e])
    PROVE  Keeps(e)
<1> DEFINE d == digest[e]
           r == record[e]
<1>1. pc[e] = place /\ Go(e, next) /\ UNCHANGED artifact
  BY DEF Clean, At
<1>2. d <= version /\ r \in Records(d)
  BY <1>1, AtWork
<1>3. PICK o \in Sent("rm", thing, sandbox[e]) : Returns(e, o) /\ Said(e, Cleaned(r, o))
  BY DEF Clean
<1>4. CASE o.exit = 0 \/ o.said = "absent"
  <2>1. Cleaned(r, o) = r
    BY <1>4 DEF Cleaned
  <2>2. Sound(next, o.world, r, d, artifact[e])
    BY <1>2, <1>3, <1>4, SoundCleaning
  <2> QED
    BY <1>1, <1>3, <2>1, <2>2, CommandKeeps
<1>5. CASE ~(o.exit = 0 \/ o.said = "absent")
  <2>1. Cleaned(r, o) \in Records(d) /\ ~Cleaned(r, o).ok
    BY <1>2, <1>5 DEF Cleaned, Records, Record, Stages
  <2>2. Removed(next, o.world, Cleaned(r, o))
    BY <2>1 DEF Removed
  <2>3. Sound(next, o.world, Cleaned(r, o), d, artifact[e])
    BY <1>2, <1>3, <2>1, <2>2, SoundCleaning
  <2> QED
    BY <1>1, <1>3, <2>3, CommandKeeps
<1> QED
  BY <1>4, <1>5

\* A command of the cleanup.
LEMMA CleanSent ==
    ASSUME DriveInv, NEW e \in Exporter, pc[e] \in Cleaning, NEW thing, <<"rm", thing>> \in Commands,
           NEW o \in Sent("rm", thing, sandbox[e])
    PROVE  /\ o.world \in Worlds(digest[e])
           /\ o.world.tagged = sandbox[e].tagged /\ o.world.saved = sandbox[e].saved
           /\ ~sandbox[e].running => ~o.world.running
           /\ \A a \in Artifacts : sandbox[e].image[a] = 0 => o.world.image[a] = 0
           /\ o.exit = 0 \/ o.said = "absent" =>
                  /\ thing = "container" => ~o.world.running
                  /\ thing = "task" => o.world.unpacked = 0
                  /\ thing \in Artifacts => o.world.image[thing] = 0
<1>1. /\ digest[e] \in Nat /\ version \in Nat /\ subject \in Subjects /\ sandbox[e] \in World
      /\ sandbox[e] \in Worlds(digest[e])
  BY AtWork
<1>2. o.world \in Worlds(digest[e])
  BY <1>1, SentWithin
<1> QED
  BY <1>1, <1>2, RemoveMarks

LEMMA CleanupKeeps ==
    ASSUME DriveInv, NEW e \in Exporter, Cleanup(e)
    PROVE  Keeps(e)
<1> DEFINE r == record[e]
<1>1. CASE Clean(e, "rm_container", "container", IF r.verifier # 0 THEN "rm_verifier" ELSE "rm_solver")
  <2>1. pc[e] = "rm_container"
    BY <1>1 DEF Clean, At
  <2>2. Removed("rm_container", sandbox[e], r) /\ r \in Records(digest[e])
    BY <2>1, AtWork DEF Cleaning
  <2>3. ASSUME NEW o \in Sent("rm", "container", sandbox[e])
        PROVE  /\ o.world \in Worlds(digest[e])
               /\ o.exit = 0 \/ o.said = "absent" =>
                      Removed(IF r.verifier # 0 THEN "rm_verifier" ELSE "rm_solver", o.world, r)
    <3>1. /\ o.world \in Worlds(digest[e])
          /\ o.world.tagged = sandbox[e].tagged /\ o.world.saved = sandbox[e].saved
          /\ o.exit = 0 \/ o.said = "absent" => ~o.world.running
      BY <2>1, CleanSent DEF Commands, Cleaning
    <3>2. r.ok /\ r.verifier = 0 => o.world.image["verifier"] = 0
      BY <2>2, <3>1 DEF Records, Worlds
    <3> QED
      BY <2>2, <3>1, <3>2 DEF Removed, Cleaning
  <2> QED
    BY <1>1, <2>3, CleanKeeps DEF Cleaning
<1>2. CASE Clean(e, "rm_verifier", "verifier", "rm_solver")
  <2>1. pc[e] = "rm_verifier"
    BY <1>2 DEF Clean, At
  <2>2. Removed("rm_verifier", sandbox[e], r)
    BY <2>1, AtWork DEF Cleaning
  <2>3. ASSUME NEW o \in Sent("rm", "verifier", sandbox[e])
        PROVE  /\ o.world \in Worlds(digest[e])
               /\ o.exit = 0 \/ o.said = "absent" => Removed("rm_solver", o.world, r)
    <3>1. /\ o.world \in Worlds(digest[e])
          /\ o.world.tagged = sandbox[e].tagged /\ o.world.saved = sandbox[e].saved
          /\ ~sandbox[e].running => ~o.world.running
          /\ o.exit = 0 \/ o.said = "absent" => o.world.image["verifier"] = 0
      BY <2>1, CleanSent DEF Commands, Cleaning, Artifacts
    <3> QED
      BY <2>2, <3>1 DEF Removed, Cleaning
  <2> QED
    BY <1>2, <2>3, CleanKeeps DEF Cleaning
<1>3. CASE Clean(e, "rm_solver", "solver", "rm_task")
  <2>1. pc[e] = "rm_solver"
    BY <1>3 DEF Clean, At
  <2>2. Removed("rm_solver", sandbox[e], r)
    BY <2>1, AtWork DEF Cleaning
  <2>3. ASSUME NEW o \in Sent("rm", "solver", sandbox[e])
        PROVE  /\ o.world \in Worlds(digest[e])
               /\ o.exit = 0 \/ o.said = "absent" => Removed("rm_task", o.world, r)
    <3>1. /\ o.world \in Worlds(digest[e])
          /\ o.world.tagged = sandbox[e].tagged /\ o.world.saved = sandbox[e].saved
          /\ ~sandbox[e].running => ~o.world.running
          /\ sandbox[e].image["verifier"] = 0 => o.world.image["verifier"] = 0
          /\ o.exit = 0 \/ o.said = "absent" => o.world.image["solver"] = 0
      BY <2>1, CleanSent DEF Commands, Cleaning, Artifacts
    <3> QED
      BY <2>2, <3>1 DEF Removed, Cleaning
  <2> QED
    BY <1>3, <2>3, CleanKeeps DEF Cleaning
<1>4. CASE Clean(e, "rm_task", "task", "confirm")
  <2>1. pc[e] = "rm_task"
    BY <1>4 DEF Clean, At
  <2>2. Removed("rm_task", sandbox[e], r)
    BY <2>1, AtWork DEF Cleaning
  <2>3. ASSUME NEW o \in Sent("rm", "task", sandbox[e])
        PROVE  /\ o.world \in Worlds(digest[e])
               /\ o.exit = 0 \/ o.said = "absent" => Removed("confirm", o.world, r)
    <3>1. /\ o.world \in Worlds(digest[e])
          /\ o.world.tagged = sandbox[e].tagged /\ o.world.saved = sandbox[e].saved
          /\ ~sandbox[e].running => ~o.world.running
          /\ \A a \in Artifacts : sandbox[e].image[a] = 0 => o.world.image[a] = 0
          /\ o.exit = 0 \/ o.said = "absent" => o.world.unpacked = 0
      BY <2>1, CleanSent DEF Commands, Cleaning
    <3> QED
      BY <2>2, <3>1 DEF Removed, Cleaning, Artifacts
  <2> QED
    BY <1>4, <2>3, CleanKeeps DEF Cleaning
<1> QED
  BY <1>1, <1>2, <1>3, <1>4 DEF Cleanup

\* What of an ok drive is left at the end of its cleanup, and what it was of.
LEMMA ConfirmKeeps ==
    ASSUME DriveInv, NEW e \in Exporter, Confirm(e)
    PROVE  Keeps(e)
<1> DEFINE d == digest[e]
           r == record[e]
           w == sandbox[e]
<1>1. /\ pc[e] = "confirm" /\ UNCHANGED <<sandbox, record, digest, artifact, subject, version, files>>
      /\ Go(e, IF r.ok /\ d = version THEN "name" ELSE "leave")
  BY DEF Confirm, At, Unchanged, own, shared, outside
<1>2. /\ d \in Nat /\ version \in Nat /\ w \in World /\ r \in Records(d) /\ Removed("confirm", w, r)
  BY <1>1, AtWork DEF Cleaning
<1>3. CASE r.ok /\ d = version
  <2>1. w = Fresh
    <3>1. w.unpacked = 0 /\ ~w.running /\ w.tagged = {} /\ w.saved = {}
          /\ w.image["solver"] = 0 /\ w.image["verifier"] = 0
      BY <1>2, <1>3 DEF Removed, Cleaning
    <3>2. w.image = [a \in Artifacts |-> 0]
      BY <1>2, <3>1 DEF World, Artifacts
    <3> QED
      BY <1>2, <3>1, <3>2 DEF World, Fresh
  <2>2. r.image = d /\ (subject.separate => r.verifier = d)
    BY <1>2, <1>3 DEF Records, Dates
  <2>3. Sound("name", w, r, d, artifact[e])
    BY <1>2, <1>3, <2>1, <2>2 DEF Sound, Records, Early, Driving, Saving, Cleaning
  <2> QED
    BY <1>1, <1>3, <2>3, StillKeeps
<1>4. CASE ~(r.ok /\ d = version)
  <2>1. Sound("leave", w, r, d, artifact[e])
    BY DEF Sound, Early, Driving, Saving, Cleaning
  <2> QED
    BY <1>1, <1>4, <2>1, StillKeeps
<1> QED
  BY <1>3, <1>4

\* The name is of what is there now.
LEMMA NameKeeps ==
    ASSUME DriveInv, NEW e \in Exporter, Name(e)
    PROVE  Keeps(e)
<1> DEFINE r == record[e]
           named == [r EXCEPT !.named = version]
<1>1. /\ pc[e] = "name" /\ UNCHANGED <<sandbox, digest, artifact, subject, version, files>>
      /\ Go(e, "commit") /\ Said(e, named)
  BY DEF Name, At, own, shared, outside
<1>2. version \in Nat /\ digest[e] \in Nat /\ r \in Record /\ Sound("name", sandbox[e], r, digest[e], artifact[e])
  BY <1>1 DEF DriveInv, SoundOf, TypeOK
<1>3. named.named = version /\ named.ok = r.ok /\ named.image = r.image /\ named.verifier = r.verifier
  BY <1>2 DEF Record
<1> HIDE DEF named
<1>4. Sound("commit", sandbox[e], named, digest[e], artifact[e])
  BY <1>2, <1>3 DEF Sound, Early, Driving, Saving, Cleaning
<1> QED
  BY <1>1, <1>4, StillKeeps DEF named

\* Before there is a sandbox, and once what was in it has been let go.
LEMMA SoundEarly ==
    ASSUME NEW p \in Early, NEW d
    PROVE  Sound(p, Fresh, Blank, d, "solver")
BY DEF Sound, Early, Driving, Saving, Cleaning

LEMMA EarlyKeeps ==
    ASSUME DriveInv, NEW e \in Exporter, Begin(e) \/ OpenLock(e) \/ Lock(e) \/ Connect(e)
    PROVE  Keeps(e)
<1>1. /\ pc[e] \in Early /\ UNCHANGED <<sandbox, record, digest, artifact, subject, version, files>>
      /\ UNCHANGED pc \/ \E p \in Early \union {"leave"} : Go(e, p)
  <2>1. CASE Begin(e)
    BY <2>1 DEF Begin, At, Early, outside
  <2>2. CASE OpenLock(e)
    BY <2>2 DEF OpenLock, At, Early, outside
  <2>3. CASE Lock(e)
    BY <2>3 DEF Lock, At, Early, outside, shared
  <2>4. CASE Connect(e)
    <3>1. /\ pc[e] = "connect" /\ UNCHANGED <<sandbox, record, own, shared, subject, version, crashes>>
          /\ \E o \in Opens : Go(e, IF o.ok THEN "digest" ELSE "leave")
      BY <2>4 DEF Connect, At
    <3> QED
      BY <3>1 DEF Early, own, shared
  <2> QED
    BY <2>1, <2>2, <2>3, <2>4
<1>2. sandbox[e] = Fresh /\ record[e] = Blank /\ artifact[e] = "solver"
  BY <1>1 DEF DriveInv, SoundOf, Sound
<1>3. PICK p \in Early \union {"leave"} : Go(e, p)
  BY <1>1 DEF Go, DriveInv, TypeOK
<1>4. Sound(p, sandbox[e], record[e], digest[e], artifact[e])
  BY <1>2, SoundEarly DEF Sound, Early, Driving, Saving, Cleaning
<1> QED
  BY <1>1, <1>3, <1>4, StillKeeps

LEMMA DigestKeeps ==
    ASSUME DriveInv, NEW e \in Exporter, Digest(e)
    PROVE  Keeps(e)
<1>1. /\ pc[e] = "digest" /\ Go(e, "push") /\ digest' = [digest EXCEPT ![e] = version]
      /\ UNCHANGED <<sandbox, record, artifact, subject, version, files>>
  BY DEF Digest, At, shared, outside
<1>2. TypeOK /\ version \in Nat /\ subject \in Subjects
  BY DEF DriveInv, TypeOK
<1>3. Others(e)
  BY <1>1, <1>2 DEF Others, Go, TypeOK
<1>4. sandbox[e] = Fresh /\ record[e] = Blank
  BY <1>1 DEF DriveInv, SoundOf, Sound, Early
<1>5. Sound("push", Fresh, Blank, version, artifact[e])
  <2>1. Fresh \in Worlds(version)
    BY DEF Worlds, World, Fresh, Dates, Artifacts
  <2>2. Blank \in Records(version)
    BY DEF Records, Record, Blank, Dates, Stages
  <2>3. Driven("push", Fresh, Blank)
    BY DEF Driven, Fresh, Blank
  <2> QED
    BY <1>2, <2>1, <2>2, <2>3, SoundDriving DEF Driving
<1>6. pc'[e] = "push" /\ sandbox'[e] = Fresh /\ record'[e] = Blank /\ digest'[e] = version /\ artifact'[e] = artifact[e]
  BY <1>1, <1>2, <1>4 DEF Go, TypeOK
<1>7. SoundOf(e)'
  BY <1>1, <1>2, <1>5, <1>6, SoundLater
<1> QED
  BY <1>1, <1>3, <1>7 DEF Keeps

\* An exporter that is through, or has died, begins anew.
LEMMA EndKeeps ==
    ASSUME DriveInv, NEW e \in Exporter, Close(e) \/ Crash(e)
    PROVE  Keeps(e)
<1>1. Go(e, "idle") /\ Ended(e) /\ UNCHANGED <<subject, version, files>>
  BY DEF Close, Crash, shared, outside
<1>2. TypeOK
  BY DEF DriveInv
<1>3. Others(e)
  BY <1>1, <1>2 DEF Others, Go, Ended, TypeOK
<1>4. pc'[e] = "idle" /\ sandbox'[e] = Fresh /\ record'[e] = Blank /\ digest'[e] = 0 /\ artifact'[e] = "solver"
  BY <1>1, <1>2 DEF Go, Ended, TypeOK
<1>5. Sound("idle", Fresh, Blank, 0, "solver")
  BY SoundEarly DEF Early
<1>6. version \in Nat
  BY DEF DriveInv, TypeOK
<1>7. SoundOf(e)'
  BY <1>1, <1>4, <1>5, <1>6, SoundLater
<1> QED
  BY <1>1, <1>3, <1>7 DEF Keeps

LEMMA UnlinkKeeps ==
    ASSUME DriveInv, NEW e \in Exporter, Unlink(e) \/ LinkFails(e)
    PROVE  Keeps(e)
<1>1. /\ UNCHANGED <<sandbox, record, digest, artifact, subject, version, files>>
      /\ \/ Go(e, "close")
         \/ pc[e] = "commit" /\ Go(e, "rollback")
  BY DEF Unlink, LinkFails, At, own, shared, outside
<1>2. Sound("close", sandbox[e], record[e], digest[e], artifact[e])
  BY DEF Sound, Early, Driving, Saving, Cleaning
<1>3. pc[e] = "commit" => Sound("rollback", sandbox[e], record[e], digest[e], artifact[e])
  BY DEF DriveInv, SoundOf, Sound, Early, Driving, Saving, Cleaning
<1> QED
  BY <1>1, <1>2, <1>3, StillKeeps

-----------------------------------------------------------------------------
(* Every step.                                                             *)

\* It is enough that the one who moves stays sound, and that what is new among the files is good.
LEMMA MoveKeeps ==
    ASSUME DriveInv, TypeOK', NEW e \in Exporter, Others(e), SoundOf(e)',
           \A f \in Files : files'[f] \in {files[f], Nothing} \/ GoodFile(files'[f])
    PROVE  DriveInv'
<1>1. version \in Nat /\ UNCHANGED <<subject, version>>
  BY DEF DriveInv, TypeOK, Others
<1>2. ASSUME NEW x \in Exporter PROVE SoundOf(x)'
  <2>1. CASE x # e
    <3>1. /\ pc'[x] = pc[x] /\ sandbox'[x] = sandbox[x] /\ record'[x] = record[x]
          /\ digest'[x] = digest[x] /\ artifact'[x] = artifact[x] /\ digest[x] \in Nat
      BY <2>1 DEF Others, DriveInv, TypeOK
    <3>2. Sound(pc[x], sandbox[x], record[x], digest[x], artifact[x])
      BY DEF DriveInv, SoundOf
    <3> QED
      BY <1>1, <3>1, <3>2, SoundLater
  <2> QED
    BY <2>1
<1>3. ASSUME NEW f \in Files, files'[f] # Nothing PROVE GoodFile(files'[f])
  BY <1>3 DEF DriveInv
<1>4. \A f \in Files : files'[f] # Nothing => GoodFile(files[f])'
  BY <1>1, <1>3 DEF GoodFile
<1> QED
  BY <1>2, <1>4 DEF DriveInv

\* What is linked is what its exporter was let commit.
LEMMA CommitKeeps ==
    ASSUME DriveInv, TypeOK', NEW e \in Exporter, Link(e) \/ Rollback(e)
    PROVE  DriveInv'
<1>1. TypeOK
  BY DEF DriveInv
<1>2. /\ UNCHANGED <<sandbox, record, digest, artifact, subject, version>>
      /\ pc[e] \in {"commit", "rollback"}
      /\ UNCHANGED pc \/ Go(e, "rollback") \/ Go(e, "leave")
  BY DEF Link, Rollback, At, outside
<1>3. Others(e)
  BY <1>1, <1>2 DEF Others, Go, TypeOK
<1>4. /\ version \in Nat /\ digest[e] \in Nat
      /\ Sound(pc[e], sandbox[e], record[e], digest[e], artifact[e])
  BY <1>1 DEF DriveInv, SoundOf, TypeOK
<1>5. SoundOf(e)'
  <2>1. pc'[e] \in {"commit", "rollback", "leave"}
    BY <1>1, <1>2 DEF Go, TypeOK
  <2>2. Sound(pc'[e], sandbox[e], record[e], digest[e], artifact[e])
    BY <1>2, <1>4, <2>1 DEF Sound, Early, Driving, Saving, Cleaning
  <2> QED
    BY <1>2, <1>4, <2>2, SoundLater
<1>6. GoodFile(Export(e))
  BY <1>2, <1>4 DEF Sound, GoodFile, Export
<1>7. ASSUME NEW f \in Files PROVE files'[f] \in {files[f], Nothing} \/ GoodFile(files'[f])
  <2>1. \/ UNCHANGED files
        \/ \E g : files' = [files EXCEPT ![g] = Export(e)] \/ files' = [files EXCEPT ![g] = Nothing]
    BY DEF Link, Rollback
  <2>2. \A g : [files EXCEPT ![g] = Export(e)][f] \in {files[f], Export(e)}
               /\ [files EXCEPT ![g] = Nothing][f] \in {files[f], Nothing}
    BY <1>1 DEF TypeOK
  <2> QED
    BY <1>6, <2>1, <2>2
<1> QED
  BY <1>3, <1>5, <1>7, MoveKeeps

LEMMA RewriteKeeps ==
    ASSUME DriveInv, TypeOK', Rewrite \/ UNCHANGED vars
    PROVE  DriveInv'
<1>1. /\ version \in Nat /\ version' \in Nat /\ version <= version'
      /\ UNCHANGED <<pc, sandbox, record, digest, artifact, subject, files>>
  BY DEF DriveInv, TypeOK, Rewrite, vars, own, shared, outside
<1>2. ASSUME NEW e \in Exporter PROVE SoundOf(e)'
  <2>1. digest[e] \in Nat /\ Sound(pc[e], sandbox[e], record[e], digest[e], artifact[e])
    BY DEF DriveInv, SoundOf, TypeOK
  <2> QED
    BY <1>1, <2>1, SoundLater
<1>3. \A f \in Files : files'[f] # Nothing => GoodFile(files[f])'
  BY <1>1 DEF DriveInv, GoodFile
<1> QED
  BY <1>2, <1>3 DEF DriveInv

LEMMA DriveStep ==
    ASSUME DriveInv, [Next]_vars
    PROVE  DriveInv'
<1>1. TypeOK'
  BY TypeStep DEF DriveInv
<1>2. ASSUME NEW e \in Exporter, Work(e) \/ Crash(e) PROVE DriveInv'
  <2>1. CASE Keeps(e)
    BY <1>1, <2>1, MoveKeeps DEF Keeps
  <2>2. CASE Link(e) \/ Rollback(e)
    BY <1>1, <2>2, CommitKeeps
  <2>3. CASE \/ Begin(e) \/ OpenLock(e) \/ Lock(e) \/ Connect(e) \/ Digest(e)
             \/ Unlink(e) \/ LinkFails(e) \/ Close(e) \/ Crash(e) \/ Confirm(e) \/ Name(e)
    BY <2>1, <2>3, EarlyKeeps, DigestKeeps, UnlinkKeeps, EndKeeps, ConfirmKeeps, NameKeeps
  <2>4. CASE \/ Push(e) \/ Chmod(e) \/ Build(e)
             \/ Identify(e, "solver", "identify", "image_identity", "inventory")
             \/ Inventory(e) \/ Verifier(e) \/ Replay(e)
    <3>1. ASSUME Identify(e, "solver", "identify", "image_identity", "inventory") PROVE Keeps(e)
      BY <3>1, IdentifyKeeps DEF Artifacts, Driving, Stages
    <3> QED
      BY <2>1, <2>4, <3>1, PushKeeps, ChmodKeeps, BuildKeeps, InventoryKeeps, VerifierKeeps, ReplayKeeps
  <2>5. CASE \/ Taken(e) \/ Tag(e) \/ SaveImage(e) \/ Pull(e) \/ Audit(e) \/ Drop(e) \/ Untag(e) \/ Cleanup(e)
    BY <2>1, <2>5, TakenKeeps, TagKeeps, PullKeeps, AuditKeeps, DropKeeps, UntagKeeps, CleanupKeeps
  <2> QED
    BY <1>2, <2>2, <2>3, <2>4, <2>5, Zenon DEF Work
<1> QED
  BY <1>1, <1>2, RewriteKeeps DEF Next

\* What is delivered was built from the bytes digested before the push, earned
\* full marks inside that image and left nothing in its sandbox, and is named
\* after nothing older (replay.py drive, its cleanup, the check after it and the
\* digest after that): for any number of failures of the wire, each of which may
\* have made a command run twice, of rewrites of the task and of exporters.
THEOREM DrivenDelivery == Spec => []DeliveredWasDriven
<1>1. Init => DriveInv
  <2>1. Init => TypeOK
    BY TypeInit
  <2>2. ASSUME Init, NEW e \in Exporter PROVE SoundOf(e)
    <3>1. pc[e] = "idle" /\ sandbox[e] = Fresh /\ record[e] = Blank /\ artifact[e] = "solver"
      BY <2>2 DEF Init
    <3> QED
      BY <3>1, SoundEarly DEF SoundOf, Early
  <2>3. Init => \A f \in Files : files[f] = Nothing
    BY DEF Init
  <2> QED
    BY <2>1, <2>2, <2>3 DEF DriveInv
<1>2. DriveInv => DeliveredWasDriven
  BY DEF DriveInv, DeliveredWasDriven, Delivered, GoodFile, Files
<1> QED
  BY <1>1, <1>2, DriveStep, PTL DEF Spec

=============================================================================
