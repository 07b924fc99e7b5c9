------------------------------ MODULE ModelServing ------------------------------
(***************************************************************************)
(* The artifact directory through which the trainer hands a model to the   *)
(* scoring service.  A retraining run writes the challenger into the       *)
(* shadow slot, has it registered and promoted by the backend, and writes  *)
(* it into the champion slot: the model file, then the manifest that names *)
(* its version.  A request resolves a slot from the manifest and loads the *)
(* model file, unless a model is cached under that version.                *)
(*                                                                         *)
(* A version is a hash of the model's bytes, so a file is known by the     *)
(* version of what is in it; a file that is being written is Torn.         *)
(***************************************************************************)
EXTENDS Naturals

CONSTANTS
  Versions,  \* the models training can come up with: none of the values below
  Requests,  \* requests to score
  Runs,      \* bound on retraining runs
  Heuristic, \* what scores without a model, and its version
  Torn,      \* a file opened for writing and not yet written
  None

VARIABLES
  file,     \* file[s]: the model and the manifest of slot s
  trainer,  \* the retraining run: its model and its next step
  runs,     \* retraining runs begun
  request,  \* request[r]: what the request has resolved and answered
  cache     \* cache[v]: the model the service holds under version v

vars == <<file, trainer, runs, request, cache>>

Slots == {"champion", "shadow"}

\* The steps of a run, in order.
Steps == <<"shadow model", "shadow manifest", "register", "promote",
           "champion model", "champion manifest", "clear manifest", "clear model">>

NoRun == [step |-> 0, version |-> None, promote |-> FALSE]
NoRequest == [pc |-> "idle", refine |-> FALSE, version |-> None, ref |-> None, scores |-> {}]

Init ==
  /\ file = [s \in Slots |-> [model |-> None, manifest |-> None]]
  /\ trainer = NoRun /\ runs = 0
  /\ request = [r \in Requests |-> NoRequest]
  /\ cache = [v \in Versions |-> None]

-----------------------------------------------------------------------------
(* The retraining run *)

Step(name) == trainer.step # 0 /\ Steps[trainer.step] = name
Proceed == trainer' = [trainer EXCEPT !.step = @ + 1]
Exit == trainer' = NoRun

\* A challenger whose gates pass; --promote says whether the run goes on to promote.
Train(v, promote) ==
  /\ trainer.step = 0 /\ runs < Runs
  /\ runs' = runs + 1
  /\ trainer' = [step |-> 1, version |-> v, promote |-> promote]
  /\ UNCHANGED <<file, request, cache>>

\* Writing a file truncates it first.
WriteFile(s, part) ==
  /\ IF file[s][part] = Torn
       THEN file' = [file EXCEPT ![s][part] = trainer.version] /\ Proceed
       ELSE file' = [file EXCEPT ![s][part] = Torn] /\ UNCHANGED trainer
  /\ UNCHANGED <<runs, request, cache>>

WriteArtifact ==
  \/ Step("shadow model") /\ WriteFile("shadow", "model")
  \/ Step("shadow manifest") /\ WriteFile("shadow", "manifest")
  \/ Step("champion model") /\ WriteFile("champion", "model")
  \/ Step("champion manifest") /\ WriteFile("champion", "manifest")

\* The backend is asked first; an answer other than success ends the run.
AskBackend ==
  /\ \/ Step("register") /\ (IF trainer.promote THEN Proceed ELSE Exit)
     \/ Step("promote") /\ Proceed
     \/ (Step("register") \/ Step("promote")) /\ Exit
  /\ UNCHANGED <<file, runs, request, cache>>

ClearShadow ==
  /\ \/ Step("clear manifest") /\ file' = [file EXCEPT !["shadow"].manifest = None] /\ Proceed
     \/ Step("clear model") /\ file' = [file EXCEPT !["shadow"].model = None] /\ Exit
  /\ UNCHANGED <<runs, request, cache>>

\* The run dies and leaves the files as they are.
TrainerCrash == trainer.step # 0 /\ Exit /\ UNCHANGED <<file, runs, request, cache>>

-----------------------------------------------------------------------------
(* Scoring: the champion for the caller, then the challenger for the log *)

\* The version of the slot, or nothing when the pair is incomplete or unreadable.
Resolved(s) ==
  IF file[s].manifest \in Versions /\ file[s].model # None THEN file[s].manifest ELSE None

ActiveVersion == IF Resolved("champion") = None THEN Heuristic ELSE Resolved("champion")

At(r, pc) == request[r].pc = pc
Goto(r, pc) == request' = [request EXCEPT ![r].pc = pc, ![r].ref = None]
Served(r, version, model, pc) ==
  request' = [request EXCEPT ![r].pc = pc, ![r].ref = None,
                             ![r].scores = @ \cup {[version |-> version, model |-> model]}]

\* The score endpoint reads the active version before the champion; refining
\* needs a champion.
Begin(r) ==
  /\ At(r, "idle")
  /\ \E refine \in BOOLEAN :
       request' = [request EXCEPT ![r].pc = "champion", ![r].refine = refine,
                                  ![r].version = IF refine THEN None ELSE ActiveVersion]
  /\ UNCHANGED <<file, trainer, runs, cache>>

\* Without a champion the heuristic score is served under the version read before.
ResolveChampion(r) ==
  LET ref == Resolved("champion") IN
  /\ At(r, "champion")
  /\ \/ ref # None /\ request' = [request EXCEPT ![r].pc = "predict", ![r].ref = ref]
     \/ ref = None /\ request[r].refine /\ Goto(r, "done")
     \/ ref = None /\ ~request[r].refine /\ Served(r, request[r].version, Heuristic, "shadow")
  /\ UNCHANGED <<file, trainer, runs, cache>>

\* A cached model is not read again, and one that is read is cached.
Load(v, s) ==
  /\ cache[v] # None \/ file[s].model \in Versions
  /\ cache' = IF cache[v] # None THEN cache ELSE [cache EXCEPT ![v] = file[s].model]

Unloadable(v, s) == cache[v] = None /\ file[s].model \notin Versions

\* A champion that cannot be loaded leaves the heuristic score, under the active
\* version; refining declines.
PredictChampion(r) ==
  LET v == request[r].ref IN
  /\ At(r, "predict")
  /\ \/ Load(v, "champion") /\ Served(r, v, cache'[v], "shadow")
     \/ /\ Unloadable(v, "champion") /\ UNCHANGED cache
        /\ IF request[r].refine THEN Goto(r, "done")
           ELSE Served(r, ActiveVersion, Heuristic, "shadow")
  /\ UNCHANGED <<file, trainer, runs>>

ResolveShadow(r) ==
  LET ref == Resolved("shadow") IN
  /\ At(r, "shadow")
  /\ IF ref = None THEN Goto(r, "done")
     ELSE request' = [request EXCEPT ![r].pc = "compare", ![r].ref = ref]
  /\ UNCHANGED <<file, trainer, runs, cache>>

\* A challenger that cannot be loaded is not logged.
PredictShadow(r) ==
  LET v == request[r].ref IN
  /\ At(r, "compare")
  /\ \/ Load(v, "shadow") /\ Served(r, v, cache'[v], "done")
     \/ Unloadable(v, "shadow") /\ Goto(r, "done") /\ UNCHANGED cache
  /\ UNCHANGED <<file, trainer, runs>>

\* The service restarts with an empty cache.
Restart == cache' = [v \in Versions |-> None] /\ UNCHANGED <<file, trainer, runs, request>>

Next ==
  \/ \E v \in Versions, promote \in BOOLEAN : Train(v, promote)
  \/ WriteArtifact \/ AskBackend \/ ClearShadow \/ TrainerCrash
  \/ \E r \in Requests :
       \/ Begin(r) \/ ResolveChampion(r) \/ PredictChampion(r)
       \/ ResolveShadow(r) \/ PredictShadow(r)
  \/ Restart

Spec == Init /\ [][Next]_vars
-----------------------------------------------------------------------------
(* Properties *)

\* A score that is labelled with a version was computed by the model of that
\* version: "a version pins the precise model that produced a score" (artifact.py,
\* and the cache of supervised.py that is keyed by it).
VersionPinsModel ==
  \A r \in Requests : \A score \in request[r].scores : score.model = score.version
=============================================================================
