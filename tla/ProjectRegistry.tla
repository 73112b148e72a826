-------------------------- MODULE ProjectRegistry --------------------------
(***************************************************************************)
(* The file projects.toml: the commands `project add` and `project remove` *)
(* that rewrite it (lifecycle.py), an editor that may do so too, and the   *)
(* Bridge's registry, which notices a change by the file's fingerprint and *)
(* reloads it between requests (project_registry.py).                      *)
(*                                                                         *)
(* GRAIN.  One action for each access to the file system: every `stat`,    *)
(* every reading or writing of a file, os.replace.  Other processes act    *)
(* between any two of them.  refresh_if_changed looks at the fingerprint   *)
(* twice before it loads; the first look only saves the lock.              *)
(* write_text is two accesses: it opens the file, which empties it, and    *)
(* writes.  All commands use one name for their temporary file, so that a  *)
(* handle may come to be that of projects.toml, or of no file at all.      *)
(*                                                                         *)
(* DATA.  A valid configuration gives each project a root or none; all     *)
(* that is not valid is Broken.  Entries have one length, so the size of a *)
(* file is the number of its projects; an empty file is valid and has      *)
(* none.                                                                   *)
(***************************************************************************)
EXTENDS Naturals, FiniteSets

CONSTANTS
  Project, Root, Unregistered,
  Broken,    \* the content of a file that does not load
  Missing,   \* the content where there is no file
  Editor,    \* `project add` and `project remove` commands that may run
  Windows,   \* a rare event: "startup"; see MayWrite
  MaxTime    \* bound: writes

ASSUME RootAssumption == Unregistered \notin Root
ASSUME WindowsAssumption == Windows \subseteq {"startup"}
ASSUME ContentAssumption == /\ Broken # Missing
                            /\ {Broken, Missing} \cap [Project -> Root \cup {Unregistered}] = {}
ASSUME ProjectAssumption == IsFiniteSet(Project)
ASSUME MaxTimeAssumption == MaxTime \in Nat \ {0}

VARIABLES
  file,      \* projects.toml: what it holds and when that was written
  temporary, \* projects.toml.tmp, one name for all commands
  now,       \* the time of the last write: the file system's clock is finer than writes
  editor,    \* the commands under way
  bridge,    \* the registry of the running Bridge
  offered    \* valid configurations of the file in this Bridge's life (history)

registryVars == <<file, temporary, now, editor, bridge, offered>>

Valid == [Project -> Root \cup {Unregistered}]
NoFile == [content |-> Missing, time |-> 0]
File == [content : Valid \cup {Broken}, time : 1 .. MaxTime]

Registered(c) == {p \in Project : c[p] # Unregistered}

\* _projects_config_fingerprint: time of the last modification and size.
Size(f) == IF f.content \in Valid THEN Cardinality(Registered(f.content)) ELSE 0
Fingerprint(f) == [time |-> f.time, size |-> Size(f)]
NoFingerprint == [time |-> 0, size |-> 0]

\* No project that both know has another root.
SameRoots(c, d) ==
  \A p \in Registered(c) \cap Registered(d) : c[p] = d[p]

Nobody == [p \in Project |-> Unregistered]
Rest == [at |-> "idle", candidate |-> Nobody]
Down == [at |-> "down", projects |-> Nobody, fingerprint |-> NoFingerprint,
         failed |-> NoFingerprint, observed |-> NoFingerprint, candidate |-> Nobody]

\* Unless "startup" is a window, nobody writes the file between the two looks that a
\* starting Bridge takes at it.
MayWrite == "startup" \in Windows \/ bridge.at # "loaded"

\* The file holds f from now on.
Holds(f) ==
  /\ file' = f
  /\ offered' = IF bridge.at # "down" /\ f.content \in Valid THEN offered \cup {f.content}
                                                            ELSE offered
Written(c) == [content |-> c, time |-> now + 1]

\* What a file may hold when c was written over it from its beginning: c, or, if it was longer,
\* anything that the rest of it makes of c.
Overwritten(f, c) ==
  IF f.content \in Valid /\ Size(f) <= Cardinality(Registered(c)) THEN {c}
                                                                 ELSE Valid \cup {Broken}

\* Where the handle is of a command that has opened the temporary file and not yet written: it
\* is that of the temporary file ("opened"), of projects.toml ("installed") or of no file ("lost").
Unwritten == {"opened", "installed", "lost"}
EditorPoints == {"idle", "read", "written", "validated"} \cup Unwritten

\* The commands after e went to rest and the temporary file became `to`.
Moved(e, to) ==
  [x \in Editor |->
     IF x = e THEN Rest
     ELSE IF editor[x].at = "opened" THEN [editor[x] EXCEPT !.at = to]
     ELSE IF editor[x].at = "installed" /\ to = "installed" THEN [editor[x] EXCEPT !.at = "lost"]
     ELSE editor[x]]
-----------------------------------------------------------------------------
RegistryInit ==
  /\ file \in {[content |-> c, time |-> 1] : c \in Valid}
  /\ temporary = NoFile
  /\ now = 1
  /\ editor = [e \in Editor |-> Rest]
  /\ bridge = Down
  /\ offered = {}

(***************************************************************************)
(* add_project, remove_project, an editor                                  *)
(***************************************************************************)
\* The command reads the file.  It goes on if the file is valid and does not know the project.
AddReads(e, p, r) ==
  /\ editor[e].at = "idle"
  /\ file.content \in Valid /\ file.content[p] = Unregistered
  /\ editor' = [editor EXCEPT ![e] = [at |-> "read",
                                      candidate |-> [file.content EXCEPT ![p] = r]]]
  /\ UNCHANGED <<file, temporary, now, bridge, offered>>

\* It goes on if the project is registered with the root the operator expects.
RemoveReads(e, p, r) ==
  /\ editor[e].at = "idle"
  /\ file.content \in Valid /\ file.content[p] = r
  /\ editor' = [editor EXCEPT ![e] = [at |-> "read",
                                      candidate |-> [file.content EXCEPT ![p] = Unregistered]]]
  /\ UNCHANGED <<file, temporary, now, bridge, offered>>

\* write_text opens the temporary file, be it its own or another command's, and empties it ...
OpensTemporary(e) ==
  /\ editor[e].at = "read" /\ now < MaxTime
  /\ temporary' = Written(Nobody)
  /\ now' = now + 1
  /\ editor' = [editor EXCEPT ![e].at = "opened"]
  /\ UNCHANGED <<file, bridge, offered>>

\* ... and writes to the handle, wherever that file is by now.
WritesTemporary(e) ==
  /\ editor[e].at \in Unwritten
  /\ \/ /\ editor[e].at = "opened" /\ now < MaxTime
        /\ \E c \in Overwritten(temporary, editor[e].candidate) : temporary' = Written(c)
        /\ now' = now + 1
        /\ UNCHANGED <<file, offered>>
     \/ /\ editor[e].at = "installed" /\ now < MaxTime /\ MayWrite
        /\ \E c \in Overwritten(file, editor[e].candidate) : Holds(Written(c))
        /\ now' = now + 1
        /\ UNCHANGED temporary
     \/ /\ editor[e].at = "lost"
        /\ UNCHANGED <<file, temporary, now, offered>>
  /\ editor' = [editor EXCEPT ![e].at = "written"]
  /\ UNCHANGED bridge

\* load_settings of the temporary file; what does not load is unlinked.
Validates(e) ==
  /\ editor[e].at = "written"
  /\ IF temporary.content \in Valid
       THEN /\ editor' = [editor EXCEPT ![e].at = "validated"]
            /\ UNCHANGED temporary
       ELSE /\ editor' = Moved(e, "lost")
            /\ temporary' = NoFile
  /\ UNCHANGED <<file, now, bridge, offered>>

\* os.replace, of whatever the temporary file is by now; the time comes with it.
Replaces(e) ==
  /\ editor[e].at = "validated" /\ MayWrite
  /\ IF temporary = NoFile
       THEN /\ editor' = [editor EXCEPT ![e] = Rest]
            /\ UNCHANGED <<file, temporary, offered>>
       ELSE /\ editor' = Moved(e, "installed")
            /\ Holds(temporary) /\ temporary' = NoFile
  /\ UNCHANGED <<now, bridge>>

\* The command is killed; its temporary file stays, empty or not.
Killed(e) ==
  /\ editor[e].at # "idle"
  /\ editor' = [editor EXCEPT ![e] = Rest]
  /\ UNCHANGED <<file, temporary, now, bridge, offered>>

\* A handle of projects.toml is one of no file once that was removed or replaced.
Dropped ==
  [e \in Editor |-> IF editor[e].at = "installed" THEN [editor[e] EXCEPT !.at = "lost"]
                                                   ELSE editor[e]]

\* The operator writes the file by other means, in place or by a new file (external).
EditsByHand ==
  /\ now < MaxTime /\ MayWrite
  /\ \E c \in Valid \cup {Broken} : Holds(Written(c))
  /\ now' = now + 1
  /\ editor' \in {editor, Dropped}
  /\ UNCHANGED <<temporary, bridge>>

DeletesByHand ==
  /\ file # NoFile /\ MayWrite
  /\ Holds(NoFile)
  /\ editor' = Dropped
  /\ UNCHANGED <<temporary, now, bridge>>

(***************************************************************************)
(* ProjectRegistry                                                         *)
(***************************************************************************)
\* main: load_settings reads the file ...
LoadsAnything == \* a mutant: a file that does not load stops nobody
  /\ bridge.at = "down"
  /\ bridge' = [Down EXCEPT !.at = "loaded", !.projects = file.content]
  /\ offered' = {file.content}
  /\ UNCHANGED <<file, temporary, now, editor>>
Loads ==
  /\ bridge.at = "down"
  /\ file.content \in Valid
  /\ bridge' = [Down EXCEPT !.at = "loaded", !.projects = file.content]
  /\ offered' = {file.content}
  /\ UNCHANGED <<file, temporary, now, editor>>

\* ... and the registry is made: it takes the fingerprint.
TakesFingerprint ==
  /\ bridge.at = "loaded"
  /\ bridge' = [bridge EXCEPT !.at = "serving",
                  !.fingerprint = IF file = NoFile THEN NoFingerprint ELSE Fingerprint(file)]
  /\ UNCHANGED <<file, temporary, now, editor, offered>>

Stops ==
  /\ bridge.at # "down"
  /\ bridge' = Down /\ offered' = {}
  /\ UNCHANGED <<file, temporary, now, editor>>

\* refresh_if_changed: a fingerprint that is neither the running nor the failed one.
Observes ==
  /\ bridge.at = "serving"
  /\ file # NoFile
  /\ Fingerprint(file) \notin {bridge.fingerprint, bridge.failed}
  /\ bridge' = [bridge EXCEPT !.at = "observed", !.observed = Fingerprint(file)]
  /\ UNCHANGED <<file, temporary, now, editor, offered>>

\* A candidate that does not load, or redirects a root, fails this fingerprint for good.
LoadsAnyRoot == \* a mutant: roots may move
  /\ bridge.at = "observed" /\ file.content \in Valid
  /\ bridge' = [bridge EXCEPT !.at = "candidate", !.candidate = file.content]
  /\ UNCHANGED <<file, temporary, now, editor, offered>>
LoadsCandidate ==
  /\ bridge.at = "observed"
  /\ bridge' = IF file.content \in Valid /\ SameRoots(bridge.projects, file.content)
                 THEN [bridge EXCEPT !.at = "candidate", !.candidate = file.content]
                 ELSE [bridge EXCEPT !.at = "serving", !.failed = bridge.observed,
                                     !.observed = NoFingerprint]
  /\ UNCHANGED <<file, temporary, now, editor, offered>>

VerifiesNothing == \* a mutant: the last fingerprint is taken, not compared
  /\ bridge.at = "candidate" /\ file # NoFile
  /\ bridge' = [bridge EXCEPT !.at = "serving", !.projects = bridge.candidate,
                              !.fingerprint = Fingerprint(file), !.candidate = Nobody]
  /\ UNCHANGED <<file, temporary, now, editor, offered>>

VerifiesOnce == \* a mutant: a file that changed meanwhile counts as failed
  /\ bridge.at = "candidate" /\ file # NoFile
  /\ bridge' = [bridge EXCEPT !.at = "serving", !.failed = Fingerprint(file),
                              !.candidate = Nobody]
  /\ UNCHANGED <<file, temporary, now, editor, offered>>

\* The candidate is installed if the file still is the one that was observed.
Verifies ==
  /\ bridge.at = "candidate"
  /\ LET rest == [bridge EXCEPT !.at = "serving", !.observed = NoFingerprint,
                                !.candidate = Nobody]
     IN  bridge' = IF file # NoFile /\ Fingerprint(file) = bridge.observed
                     THEN [rest EXCEPT !.projects = bridge.candidate,
                                       !.fingerprint = bridge.observed,
                                       !.failed = NoFingerprint]
                     ELSE rest
  /\ UNCHANGED <<file, temporary, now, editor, offered>>
-----------------------------------------------------------------------------
EditorStep(e) ==
  \/ \E p \in Project, r \in Root : AddReads(e, p, r) \/ RemoveReads(e, p, r)
  \/ OpensTemporary(e) \/ WritesTemporary(e) \/ Validates(e) \/ Replaces(e) \/ Killed(e)
Refresh == Observes \/ LoadsCandidate \/ Verifies
BridgeStep == Loads \/ TakesFingerprint \/ Stops \/ Refresh

RegistryNext ==
  (\E e \in Editor : EditorStep(e)) \/ EditsByHand \/ DeletesByHand \/ BridgeStep
RegistrySpec == RegistryInit /\ [][RegistryNext]_registryVars

\* Requests keep coming, and each of them refreshes; a refresh awaits nothing.
FairRegistry == RegistrySpec /\ WF_registryVars(Refresh)
-----------------------------------------------------------------------------
(***************************************************************************)
(* Properties                                                              *)
(***************************************************************************)
Fingerprints == [time : 0 .. MaxTime, size : Nat]

\* The type invariant.
RegistryTypeOK ==
  /\ file \in File \cup {NoFile} /\ temporary \in File \cup {NoFile}
  /\ now \in 1 .. MaxTime
  /\ editor \in [Editor -> [at : EditorPoints, candidate : Valid]]
  /\ bridge \in [at : {"down", "loaded", "serving", "observed", "candidate"},
                 projects : Valid, candidate : Valid, fingerprint : Fingerprints,
                 failed : Fingerprints, observed : Fingerprints]
  /\ offered \subseteq Valid

Serving == bridge.at \in {"serving", "observed", "candidate"}

\* Whenever the file has the fingerprint that the registry takes for the running one, the registry
\* serves what the file holds: no change is overlooked (refresh_if_changed returns early on an
\* equal fingerprint; hot-reload plan: "Running Bridge sees the changed fingerprint on the next
\* project-authorized request").
NothingOverlooked ==
  Serving /\ file # NoFile /\ Fingerprint(file) = bridge.fingerprint
    => bridge.projects = file.content

\* The registry implements SnapshotPromise: a reload whose looks at the file are spread over other
\* processes' writes still installs one whole configuration that the file has held, and never
\* one that moves a root (load_projects between two fingerprints; the root check).
P == INSTANCE SnapshotPromise WITH served <- IF bridge.at = "down" THEN {} ELSE {bridge.projects}
KeepsSnapshotPromise == P!Promise

\* A usable configuration that stays in the file is served in the end, whatever was there
\* before and however its writing fell between the looks of earlier reloads.
EventuallyServed ==
  \A c \in Valid :
    <>[](Serving /\ file.content = c /\ SameRoots(bridge.projects, c))
      => <>[](bridge.projects = c)

\* project-registry-hot-reload-plan.md:156 "The Bridge must never expose or consume a half-written
\* configuration.  Local CLI writes should continue using temporary-file + atomic replace
\* semantics.": no reload takes for a configuration what a command has yet to write something else
\* over.  No run checks this: it does not hold, since all commands write one temporary file.
ConsumesWholeFiles ==
  [][bridge.at = "observed" /\ bridge'.at = "candidate" =>
       \A e \in Editor : editor[e].at = "installed" => editor[e].candidate = file.content
    ]_registryVars
=============================================================================
