---------------------------- MODULE ModuleCutover ----------------------------
(***************************************************************************)
(* ModuleCodeService: the source files of a module are replaced by those   *)
(* of a verified artifact, file by file, after the files in place were     *)
(* saved in a transaction directory, and put back when a step fails.  One  *)
(* process may run one cutover at a time; a process that stops leaves the  *)
(* files as they are at that moment.                                       *)
(***************************************************************************)
EXTENDS Naturals

CONSTANTS
  Workers,   \* handlers of the process that may ask for a cutover
  Files,     \* files of the module, over all its versions
  Base,      \* the version in place at first
  Versions,  \* the artifacts that hold a version
  Carries,   \* Carries[v]: the files of the module in version v
  None

VARIABLES
  active,    \* active[f]: the version of a file in the active tree
  saved,     \* saved[w]: the transaction directory of the cutover of w
  cut,       \* cut[w]: the cutover of w
  torn       \* history: a cutover was cut off, or could not be undone or closed

AllVersions == Versions \cup {Base}
Tree(v) == [f \in Files |-> IF f \in Carries[v] THEN v ELSE None]
Nothing == [f \in Files |-> None]
NoCut == [phase |-> "idle", to |-> None, managed |-> {}, left |-> {}, hand |-> None]
Phases == {"idle", "clear", "verify", "discard", "undo", "copy", "done", "failed"}

CutoverInit ==
  /\ active = Tree(Base)
  /\ saved = [w \in Workers |-> Nothing]
  /\ cut = [w \in Workers |-> NoCut]
  /\ torn = FALSE

In(w, phase) == cut[w].phase = phase
Busy == \E w \in Workers : cut[w].phase \notin {"idle", "done", "failed"}
Step(w, phase) == cut' = [cut EXCEPT ![w].phase = phase]

beginUnlocked(w, v) ==              (* mutant: cutoverInProgress is not looked at *)
  LET current == {f \in Files : active[f] # None} IN
  /\ saved' = [saved EXCEPT ![w] = active]
  /\ cut' = [cut EXCEPT ![w] = [phase |-> "clear", to |-> v, hand |-> None,
                                managed |-> current \cup Carries[v], left |-> current \cup Carries[v]]]
  /\ UNCHANGED <<active, torn>>

\* The files in place are saved, and every managed file is still to be dealt
\* with.  While another cutover runs, the request is refused.
begin(w, v) ==
  LET current == {f \in Files : active[f] # None} IN
  /\ ~ Busy
  /\ saved' = [saved EXCEPT ![w] = active]
  /\ cut' = [cut EXCEPT ![w] = [phase |-> "clear", to |-> v, hand |-> None,
                                managed |-> current \cup Carries[v], left |-> current \cup Carries[v]]]
  /\ UNCHANGED <<active, torn>>

refuse(w) ==
  /\ Step(w, "failed") /\ UNCHANGED <<active, saved, torn>>

\* A file that the version lacks is removed; any other is removed and, in the
\* next step, its new content is renamed into its place.
removeFile(w, f) ==
  /\ In(w, "clear") /\ cut[w].hand = None /\ f \in cut[w].left
  /\ \A g \in cut[w].left : g \notin Carries[cut[w].to] => f \notin Carries[cut[w].to]
  /\ active' = [active EXCEPT ![f] = None]
  /\ cut' = [cut EXCEPT ![w].left = @ \ {f},
                        ![w].hand = IF f \in Carries[cut[w].to] THEN f ELSE None]
  /\ UNCHANGED <<saved, torn>>

renameFile(w) ==
  /\ In(w, "clear") /\ cut[w].hand # None
  /\ active' = [active EXCEPT ![cut[w].hand] = cut[w].to]
  /\ cut' = [cut EXCEPT ![w].hand = None]
  /\ UNCHANGED <<saved, torn>>

allApplied(w) ==
  /\ In(w, "clear") /\ cut[w].hand = None /\ cut[w].left = {}
  /\ Step(w, "verify") /\ UNCHANGED <<active, saved, torn>>

\* The hashes of the files that were applied are compared once more.
verifyApplied(w) ==
  /\ In(w, "verify")
  /\ Step(w, IF \A f \in Carries[cut[w].to] : active[f] = cut[w].to THEN "discard" ELSE "undo")
  /\ UNCHANGED <<active, saved, torn>>

stepFailsLate(w) ==                 (* mutant: only what fails half way is undone *)
  /\ cut[w].phase \in {"clear", "verify"}
  /\ Step(w, IF In(w, "clear") THEN "undo" ELSE "failed") /\ UNCHANGED <<active, saved, torn>>

stepFails(w) ==
  /\ cut[w].phase \in {"clear", "verify"}
  /\ Step(w, "undo") /\ UNCHANGED <<active, saved, torn>>

\* The transaction directory is removed; if that fails half way, the cutover
\* is undone from what is left of it.
discardSaved(w) ==
  /\ In(w, "discard")
  /\ saved' = [saved EXCEPT ![w] = Nothing]
  /\ Step(w, "done")
  /\ UNCHANGED <<active, torn>>

discardFails(w) ==
  /\ In(w, "discard")
  /\ \E Lost \in SUBSET Files :
       saved' = [saved EXCEPT ![w] = [f \in Files |-> IF f \in Lost THEN None ELSE @[f]]]
  /\ Step(w, "undo") /\ torn' = TRUE
  /\ UNCHANGED active

\* restoreTransactionSnapshot removes what is managed, then copies back what
\* the directory holds; the directory is removed when that went through.
undoRemove(w) ==
  /\ In(w, "undo")
  /\ active' = [f \in Files |-> IF f \in cut[w].managed THEN None ELSE active[f]]
  /\ Step(w, "copy")
  /\ UNCHANGED <<saved, torn>>

undoCopy(w) ==
  /\ In(w, "copy")
  /\ active' = [f \in Files |-> IF saved[w][f] # None THEN saved[w][f] ELSE active[f]]
  /\ saved' = [saved EXCEPT ![w] = Nothing]
  /\ Step(w, "failed")
  /\ UNCHANGED torn

undoFails(w) ==
  /\ cut[w].phase \in {"undo", "copy"}
  /\ \E F \in SUBSET cut[w].managed :
       active' = [f \in Files |-> IF f \notin F THEN active[f]
                                  ELSE IF In(w, "undo") THEN None ELSE saved[w][f]]
  /\ Step(w, "failed") /\ torn' = TRUE
  /\ UNCHANGED saved

CutoverStep(w) ==
  \/ \E f \in Files : removeFile(w, f)
  \/ renameFile(w) \/ allApplied(w) \/ verifyApplied(w) \/ stepFails(w)
  \/ discardSaved(w) \/ discardFails(w) \/ undoRemove(w) \/ undoCopy(w) \/ undoFails(w)

\* the handler is told the outcome; the next cutover may begin
leave(w) ==
  /\ cut' = [cut EXCEPT ![w] = NoCut]
  /\ UNCHANGED <<active, saved, torn>>

Whole == \E v \in AllVersions : active = Tree(v)
=============================================================================
