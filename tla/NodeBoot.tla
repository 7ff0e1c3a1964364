------------------------------ MODULE NodeBoot ------------------------------
(***************************************************************************)
(* One node from its image to vllm serve: docker build runs the patch      *)
(* scripts of the Dockerfile, the container's start script runs its own    *)
(* list over the same package on every start, and a container that is      *)
(* restarted keeps the files a killed run left behind, a container that is *)
(* created anew has those of the image.                                    *)
(***************************************************************************)
EXTENDS PatchSet

CONSTANTS
    Drifts,      \* the ways a base image may differ from the pinned one: <<edit, kind>>
    Omitted,     \* the sets of scripts the Dockerfile of an older image did not run yet
    Settings,    \* the settings a container may be created with
    MaxFaults    \* restarts and re-creations of the container

ASSUME NodeBootAssumption ==
    /\ Drifts \subseteq AllEdits \X {"gone", "twice", "upstream", "nofile"}
    /\ Omitted \subseteq SUBSET {p.name : p \in Patches}
    /\ Settings \subseteq [swa : {"off", "keep"}, yoco : {"off", "compact"},
                            spin : {"stock", "ms"}]
    /\ MaxFaults \in Nat

VARIABLES
    phase,    \* "build", "nobuild" (docker build failed), "boot", "serving", "failed"
    script,       \* the script that runs next
    plan,     \* the writes the running script has left
    text,     \* the package in the build or in the container
    image,    \* the package in the image
    mode,     \* the settings of the container
    drift,    \* how the base image differs
    omitted,  \* the scripts its Dockerfile lacks
    served,   \* the package the first vllm serve of this container saw
    faults    \* restarts and re-creations so far

nvars == <<phase, script, plan, text, image, mode, drift, omitted, served, faults>>

BuildMode == [swa |-> "off", yoco |-> "off", spin |-> "stock"]
None == <<>>
NoWrites == [i \in {} |-> None]

BuildList == <<Overrides, PackedNames, LmHead, EngramSecondary, EngramFile, Suppress,
               DecodeFloor, Grammar, Spinwait, H2dStage, Sm120, MemoryLog, Yoco, SwaFinal>>
BootList  == <<Suppress, DecodeFloor, Grammar, Spinwait, Responses, Effort, ControlGuard,
               OutputSplit, PackedNames, LmHead, EngramSecondary, EngramFile, H2dStage,
               Sm120, MemoryLog, SwaFinal, Yoco>>
List == IF phase = "build" THEN BuildList ELSE BootList

\* RUN ... || echo WARN, and the loop of the start script: an error is a warning.
Tolerated(p) ==
    IF phase = "build" THEN p \in {Suppress, DecodeFloor, Grammar, Spinwait}
    ELSE p \notin {SwaFinal, Yoco}

\* --check and --preflight look for the anchors and write nothing.
CheckOnly(p) == phase = "build" /\ p \in {Spinwait, Yoco, SwaFinal}

\* The start script does not run the two optional scripts when they are off.
Skipped(p) ==
    IF phase = "build" THEN p.name \in omitted
    ELSE (p = SwaFinal /\ mode.swa = "off") \/ (p = Yoco /\ mode.yoco = "off")

\* GLM53_SPINWAIT_MS unset or stock: the stock line must be there, and stays.
Stock(p) == p = Spinwait /\ (phase = "build" \/ mode.spin = "stock")
StockLine == \A e \in Edits(Spinwait) : text.anchor[e] = 1

NodeInit ==
    /\ phase = "build" /\ script = 1 /\ plan = NoWrites
    /\ drift \in {{}} \cup {{d} : d \in Drifts}
    /\ omitted \in Omitted
    /\ text = Base(drift) /\ image = None /\ served = None
    /\ mode = BuildMode
    /\ faults = 0

\* The parts of the running script that are not written yet, the next one first.
Idle == DOMAIN plan = {}
IsNext(i) == i \in DOMAIN plan /\ \A j \in DOMAIN plan : i <= j

\* One script reads its files and decides: it fails, or these are its writes.
Errs(p) == IF Stock(p) THEN ~StockLine ELSE Fails(text, p)

Run ==
    /\ phase \in {"build", "boot"} /\ Idle /\ script <= Len(List)
    /\ LET p == List[script]
           fatal == ~Skipped(p) /\ Errs(p) /\ ~Tolerated(p)
       IN /\ phase' = IF ~fatal THEN phase
                      ELSE IF phase = "build" THEN "nobuild" ELSE "failed"
          /\ plan' = IF fatal \/ Skipped(p) \/ CheckOnly(p) \/ Stock(p) THEN NoWrites
                     ELSE Writes(text, p)
    /\ script' = script + 1
    /\ UNCHANGED <<text, image, mode, drift, omitted, served, faults>>

Write ==
    /\ phase \in {"build", "boot"}
    /\ \E i \in DOMAIN plan :
         /\ IsNext(i)
         /\ text' = Put(text, plan[i])
         /\ plan' = [j \in DOMAIN plan \ {i} |-> plan[j]]
    /\ UNCHANGED <<phase, script, image, mode, drift, omitted, served, faults>>

\* docker build is done; docker run of the first container, with any settings.
Built ==
    /\ phase = "build" /\ Idle /\ script > Len(List)
    /\ phase' = "boot" /\ script' = 1
    /\ image' = text
    /\ mode' \in Settings
    /\ UNCHANGED <<plan, text, drift, omitted, served, faults>>

\* exec vllm serve: a truncated module does not import.
Serve ==
    /\ phase = "boot" /\ Idle /\ script > Len(List)
    /\ IF text.torn = {}
       THEN /\ phase' = "serving"
            /\ served' = IF served = None THEN text ELSE served
       ELSE phase' = "failed" /\ UNCHANGED served
    /\ UNCHANGED <<script, plan, text, image, mode, drift, omitted, faults>>

\* docker restart (the stall watchdog, an operator): the start script runs again
\* over the files as they are. A write_text under way may leave its file empty.
Restart ==
    /\ phase \in {"boot", "serving", "failed"} /\ faults < MaxFaults
    /\ phase' = "boot" /\ script' = 1 /\ plan' = NoWrites
    /\ text' \in {text} \cup {Tear(text, plan[i].file) :
                                i \in {j \in DOMAIN plan : IsNext(j) /\ ~Atomic(plan[j])}}
    /\ faults' = faults + 1
    /\ UNCHANGED <<image, mode, drift, omitted, served>>

\* start.sh removes the container and runs a new one, with any settings.
Recreate ==
    /\ phase \in {"boot", "serving", "failed"} /\ faults < MaxFaults
    /\ phase' = "boot" /\ script' = 1 /\ plan' = NoWrites
    /\ text' = image /\ served' = None
    /\ mode' \in Settings
    /\ faults' = faults + 1
    /\ UNCHANGED <<image, drift, omitted>>

NodeNext == Run \/ Write \/ Built \/ Serve \/ Restart \/ Recreate

NodeSpec == NodeInit /\ [][NodeNext]_nvars

-----------------------------------------------------------------------------
\* What a reader of the repository expects of the package vllm serve imports.

Enabled(p) ==
    CASE p = SwaFinal -> mode.swa = "keep"
      [] p = Yoco -> mode.yoco = "compact"
      [] p = Spinwait -> mode.spin = "ms"
      [] p = Overrides -> FALSE
      [] OTHER -> TRUE

\* The edits a drift touches, and the edits that stand or fall with e.
Drifted == {e \in AllEdits : \E d \in drift : e = d[1] \/ (d[2] = "nofile" /\ e[2] = d[1][2])}
Group(p, e) ==
    IF p.whole THEN Edits(p) \cup (IF p = ControlGuard THEN {EncoderCheck} ELSE {})
    ELSE IF p = Sm120 THEN {e}
    ELSE {x \in Edits(p) : x[2] = e[2]}

NodeTypes ==
    /\ phase \in {"build", "nobuild", "boot", "serving", "failed"}
    /\ script \in 1..(Len(BootList) + 1)
    /\ ~Idle => phase \in {"build", "boot"}
    /\ \A i \in DOMAIN plan : plan[i].edits \subseteq AllEdits
    /\ DOMAIN text.put = AllEdits /\ \A e \in AllEdits : text.put[e] \in 0..3
    /\ \A e \in AllEdits : text.anchor[e] \in 0..2
    /\ text.torn \cup text.absent \subseteq Files
    /\ mode \in Settings \cup {BuildMode} /\ faults \in 0..MaxFaults

\* The scripts run in the build and again on every start of the container, over
\* what the earlier runs left, a killed one included: no replacement is ever
\* made a second time.
AppliedOnce == \A e \in AllEdits : text.put[e] <= 1

\* When vllm serve starts, every enabled edit whose anchors the image has is in
\* the package exactly once, however often the start script was killed half way
\* and whatever else of the image drifted.
ServedComplete ==
    phase = "serving" =>
        \A p \in Patches : Enabled(p) =>
            \A e \in Edits(p) : Group(p, e) \cap Drifted = {} => text.put[e] = 1

\* A script that edits several files as one change is served whole or not at all,
\* whichever of its files drifted: the two xgrammar files, the final window, YOCO.
AllOrNothing ==
    phase = "serving" =>
        \A p \in {q \in Patches : q.whole} :
            \/ \A e \in Edits(p) : text.put[e] = 0
            \/ \A e \in Edits(p) : text.put[e] = 1

\* The two optional scripts: when one is on, vllm serve starts only with all of
\* it, and a container where it is off has none of it.
StrictServed ==
    phase = "serving" =>
        /\ \A e \in Edits(SwaFinal) : text.put[e] = (IF mode.swa = "keep" THEN 1 ELSE 0)
        /\ \A e \in Edits(Yoco) : text.put[e] = (IF mode.yoco = "compact" THEN 1 ELSE 0)

\* With the image of this Dockerfile, a loader that was switched to the staged
\* copy finds the helper it imports from weight_utils: the build of an image
\* where that file drifted fails.
H2dLinked ==
    (phase = "serving" /\ omitted = {}) =>
        \A e \in Edits(H2dStage) :
            text.put[e] > 0 => text.put[<<"h2d_stage", "weight_utils", "all">>] > 0

\* A container that served once and is restarted serves the same package again.
RestartStable == (phase = "serving" /\ served # None) => text = served

\* Running the scripts again, in a build, a boot or a restart, changes nothing that
\* is already there.
Idempotent == NodeTypes /\ AppliedOnce /\ RestartStable

\* vllm serve starts with what was asked for, and with nothing that lacks its other
\* half.
ServedFit == ServedComplete /\ StrictServed /\ H2dLinked

-----------------------------------------------------------------------------
\* What makes Idempotent inductive. An edit that is made has lost its anchor or is
\* marked, so that no script finds it undone.
TextInv(t) ==
    /\ t \in [anchor : [AllEdits -> 0..2], put : [AllEdits -> 0..1],
              mark : SUBSET ({p.name : p \in Patches} \X Files),
              absent : SUBSET Files, torn : SUBSET Files]
    /\ \A p \in Patches : p.present = "mark" =>
         \A i \in DOMAIN p.parts : \A e \in PartEdits(p, p.parts[i]) :
             t.put[e] = 0 \/ t.anchor[e] = 0 \/ Marked(t, p, p.parts[i])
    /\ \A r \in Rewritten : t.put[r[1]] = 0 \/ t.anchor[r[1]] = 0

\* The writes that are left are the ones a new run of the script would plan.
PlanInv == ~Idle => /\ phase \in {"build", "boot"} /\ script - 1 \in DOMAIN List
                    /\ plan = Writes(text, List[script - 1])

\* A script that ran in this boot would find nothing to write any more.
Settled(p) == Skipped(p) \/ Stock(p) \/ Todo(text, p) = {}
BootInv ==
    phase = "boot" =>
        \A i \in 1..(script - 1) : Settled(BootList[i]) \/ (i = script - 1 /\ ~Idle)

ServedInv ==
    served # None =>
        /\ phase \notin {"build", "nobuild"} /\ text = served /\ Idle
        /\ \A i \in DOMAIN BootList : Settled(BootList[i])

NodeInv ==
    /\ phase \in {"build", "nobuild", "boot", "serving", "failed"}
    /\ script \in 1..(Len(List) + 1)
    /\ mode \in Settings \cup {BuildMode} /\ faults \in 0..MaxFaults
    /\ TextInv(text) /\ (phase \notin {"build", "nobuild"} => TextInv(image))
    /\ PlanInv /\ BootInv /\ ServedInv

-----------------------------------------------------------------------------
\* What makes AllOrNothing and ServedFit inductive.

\* The scripts whose edits in several files are one change.
Several == {Grammar, SwaFinal, Yoco}

\* Some base image has a part of the final window or of YOCO already, without the mark
\* their scripts go by: they fail on it, and it stays a part.
HalfMerged == \E d \in Drifts : d[2] = "upstream" /\ d[1] \in Edits(SwaFinal) \cup Edits(Yoco)

\* Marks are true. Where no write was cut off: an edit that no drift touches can be found
\* or is made and recognised, and a script of several files that began can finish.
FitText(t) ==
    /\ \A p \in Patches : p.present \in {"mark", "verified"} =>
         \A i \in DOMAIN p.parts : Marked(t, p, p.parts[i]) =>
             \A e \in PartEdits(p, p.parts[i]) : t.put[e] = 1
    /\ t.torn = {} =>
         /\ \A e \in AllEdits \ Drifted :
              /\ e[2] \notin t.absent
              /\ t.put[e] = 0 => t.anchor[e] = 1
              /\ t.put[e] = 1 => e # EncoderCheck /\ (t.anchor[e] = 0 \/ e \in Keeps)
         /\ \A p \in Patches : p.present = "mark" =>
              \A i \in DOMAIN p.parts : \A e \in PartEdits(p, p.parts[i]) \ Drifted :
                  t.put[e] = 1 => Marked(t, p, p.parts[i])
         /\ \A p \in Several : (\A e \in Edits(p) : t.put[e] = 0) \/ Missing(t, p) = {}

NoneOf(t, p) == \A e \in Edits(p) : t.put[e] = 0
Off(p) == (p = SwaFinal /\ mode.swa = "off") \/ (p = Yoco /\ mode.yoco = "off")

\* The scripts whose failure stops the build or the boot passed.
Must(p) == ~Skipped(p) /\ ~CheckOnly(p) /\ ~Stock(p) /\ ~Tolerated(p) /\ p # EngramSecondary
MustInv ==
    phase \in {"build", "boot"} =>
        \A i \in 1..(script - 1) : Must(List[i]) =>
            /\ Missing(text, List[i]) = {}
            /\ Todo(text, List[i]) = {} \/ (i = script - 1 /\ ~Idle)

Helper == <<"h2d_stage", "weight_utils", "all">>

FitInv ==
    /\ NodeInv /\ FitText(text) /\ MustInv
    /\ phase \in {"build", "nobuild"} => text.torn = {} /\ mode = BuildMode
    /\ phase \notin {"build", "nobuild"} =>
         /\ FitText(image) /\ image.torn = {} /\ NoneOf(image, SwaFinal) /\ NoneOf(image, Yoco)
         /\ omitted = {} => image.put[Helper] = 1 /\ (text.torn = {} => text.put[Helper] = 1)
    /\ \A p \in {SwaFinal, Yoco} : Off(p) => NoneOf(text, p)
    /\ ~Idle => ~Off(List[script - 1])
    /\ phase = "serving" =>
         /\ text.torn = {}
         /\ \A i \in DOMAIN BootList :
              /\ Settled(BootList[i])
              /\ Must(BootList[i]) => Missing(text, BootList[i]) = {}
=============================================================================
