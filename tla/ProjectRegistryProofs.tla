----------------------- MODULE ProjectRegistryProofs -----------------------
(***************************************************************************)
(* For any projects, roots, commands and number of writes: the registry is *)
(* typed, it overlooks no change of its file, and it keeps the promise of  *)
(* SnapshotPromise.                                                        *)
(***************************************************************************)
EXTENDS ProjectRegistry, FiniteSetTheorems, TLAPS

USE RootAssumption, ContentAssumption, ProjectAssumption, MaxTimeAssumption

LEMMA SizeType == ASSUME NEW f PROVE Size(f) \in Nat
<1>1. CASE f.content \in Valid
  <2>1. Registered(f.content) \subseteq Project
    BY DEF Registered
  <2>2. IsFiniteSet(Registered(f.content))
    BY <2>1, FS_Subset
  <2> QED
    BY <1>1, <2>2, FS_CardinalityType DEF Size
<1>2. CASE f.content \notin Valid
  BY <1>2 DEF Size
<1> QED
  BY <1>1, <1>2

LEMMA FingerprintType == ASSUME NEW f \in File PROVE Fingerprint(f) \in Fingerprints
  BY SizeType DEF Fingerprint, Fingerprints, File

LEMMA NobodyIsValid == Nobody \in Valid
  BY DEF Nobody, Valid

LEMMA FileIsNot == NoFile \notin File
  BY DEF NoFile, File

LEMMA DownType ==
  Down \in [at : {"down", "loaded", "serving", "observed", "candidate"},
            projects : Valid, candidate : Valid, fingerprint : Fingerprints,
            failed : Fingerprints, observed : Fingerprints]
  BY NobodyIsValid DEF Down, NoFingerprint, Fingerprints

LEMMA HoldsType ==
  ASSUME RegistryTypeOK, NEW f \in File \cup {NoFile}, Holds(f)
  PROVE  file' \in File \cup {NoFile} /\ offered' \subseteq Valid
  BY DEF Holds, RegistryTypeOK

LEMMA WrittenType ==
  ASSUME RegistryTypeOK, now < MaxTime, NEW c \in Valid \cup {Broken}
  PROVE  Written(c) \in File /\ now + 1 \in 1 .. MaxTime
  BY DEF Written, File, RegistryTypeOK

LEMMA OverwrittenType ==
  ASSUME NEW f, NEW c \in Valid PROVE Overwritten(f, c) \subseteq Valid \cup {Broken}
  BY DEF Overwritten

EditorRecord == [at : EditorPoints, candidate : Valid]

\* What becomes of the commands when one of them goes to rest, or the file is replaced.
LEMMA MovedType ==
  ASSUME RegistryTypeOK, NEW e \in Editor, NEW to \in {"installed", "lost"}
  PROVE  Moved(e, to) \in [Editor -> EditorRecord]
<1>1. Rest \in EditorRecord
  BY NobodyIsValid DEF Rest, EditorRecord, EditorPoints
<1>2. ASSUME NEW x \in Editor, NEW point \in EditorPoints
      PROVE  editor[x] \in EditorRecord /\ [editor[x] EXCEPT !.at = point] \in EditorRecord
  BY DEF RegistryTypeOK, EditorRecord
<1>3. {"installed", "lost"} \subseteq EditorPoints
  BY DEF EditorPoints, Unwritten
<1> QED
  BY <1>1, <1>2, <1>3 DEF Moved

LEMMA DroppedType ==
  ASSUME RegistryTypeOK PROVE Dropped \in [Editor -> EditorRecord]
  BY DEF Dropped, RegistryTypeOK, EditorRecord, EditorPoints, Unwritten

\* Every reachable state is typed: what the registry serves, keeps as a candidate or has been
\* offered is a valid configuration, whatever is written to the file (load_projects).
LEMMA TypeStep == RegistryTypeOK /\ [RegistryNext]_registryVars => RegistryTypeOK'
<1> SUFFICES ASSUME RegistryTypeOK, [RegistryNext]_registryVars PROVE RegistryTypeOK'
  OBVIOUS
<1> DEFINE Files == file' \in File \cup {NoFile} /\ temporary' \in File \cup {NoFile}
           Editors == editor' \in [Editor -> EditorRecord]
           Bridge == bridge' \in [at : {"down", "loaded", "serving", "observed", "candidate"},
                                  projects : Valid, candidate : Valid, fingerprint : Fingerprints,
                                  failed : Fingerprints, observed : Fingerprints]
           Times == now' \in 1 .. MaxTime
           Offers == offered' \subseteq Valid
<1>1. ASSUME Files, Editors, Bridge, Times, Offers PROVE RegistryTypeOK'
  BY <1>1 DEF RegistryTypeOK, EditorRecord
<1>2. /\ UNCHANGED <<file, temporary>> => Files
      /\ UNCHANGED editor => Editors
      /\ UNCHANGED bridge => Bridge
      /\ UNCHANGED now => Times
      /\ UNCHANGED offered => Offers
  BY DEF RegistryTypeOK, EditorRecord
<1>3. ASSUME NEW e \in Editor, EditorStep(e) PROVE RegistryTypeOK'
  <2>1. editor[e] \in EditorRecord
    BY DEF RegistryTypeOK, EditorRecord
  <2>2. ASSUME NEW r, r \in EditorRecord,
               editor' = [editor EXCEPT ![e] = r]
        PROVE  Editors
    BY <2>2 DEF RegistryTypeOK, EditorRecord
  <2>3. Rest \in EditorRecord
    BY NobodyIsValid DEF Rest, EditorRecord, EditorPoints
  <2>9. \A point \in EditorPoints : [editor[e] EXCEPT !.at = point] \in EditorRecord
    BY <2>1 DEF EditorRecord
  <2>10. {"opened", "written", "validated"} \subseteq EditorPoints
    BY DEF EditorPoints, Unwritten
  <2>4. ASSUME NEW p \in Project, NEW r \in Root, AddReads(e, p, r) \/ RemoveReads(e, p, r)
        PROVE  RegistryTypeOK'
    <3>1. \A x \in Root \cup {Unregistered} :
            [at |-> "read", candidate |-> [file.content EXCEPT ![p] = x]]
              \in EditorRecord
      BY <2>4 DEF AddReads, RemoveReads, Valid, EditorRecord, EditorPoints
    <3>2. Editors
      BY <2>2, <2>4, <3>1 DEF AddReads, RemoveReads
    <3> QED
      BY <1>1, <1>2, <2>4, <3>2 DEF AddReads, RemoveReads
  <2>11. CASE OpensTemporary(e)
    <3>1. editor' = [editor EXCEPT ![e] = [editor[e] EXCEPT !.at = "opened"]]
      BY <2>11 DEF OpensTemporary
    <3>2. Editors
      BY <2>2, <2>9, <2>10, <3>1
    <3>3. Files /\ Times
      BY <2>11, WrittenType, NobodyIsValid DEF OpensTemporary, RegistryTypeOK
    <3> QED
      BY <1>1, <1>2, <2>11, <3>2, <3>3 DEF OpensTemporary
  <2>5. CASE WritesTemporary(e)
    <3>1. editor' = [editor EXCEPT ![e] = [editor[e] EXCEPT !.at = "written"]]
      BY <2>5 DEF WritesTemporary
    <3>2. Editors
      BY <2>2, <2>9, <2>10, <3>1
    <3>3. editor[e].candidate \in Valid
      BY <2>1 DEF EditorRecord
    <3>4. CASE editor[e].at = "opened"
      <4>1. PICK c \in Overwritten(temporary, editor[e].candidate) : temporary' = Written(c)
        BY <2>5, <3>4 DEF WritesTemporary
      <4>2. c \in Valid \cup {Broken}
        BY <3>3, <4>1, OverwrittenType
      <4>3. Files /\ Times /\ UNCHANGED offered
        BY <2>5, <3>4, <4>1, <4>2, WrittenType DEF WritesTemporary, RegistryTypeOK
      <4> QED
        BY <1>1, <1>2, <2>5, <3>2, <4>3 DEF WritesTemporary
    <3>5. CASE editor[e].at = "installed"
      <4>1. PICK c \in Overwritten(file, editor[e].candidate) : Holds(Written(c))
        BY <2>5, <3>5 DEF WritesTemporary
      <4>2. c \in Valid \cup {Broken}
        BY <3>3, <4>1, OverwrittenType
      <4>3. Files /\ Times /\ Offers
        BY <2>5, <3>5, <4>1, <4>2, HoldsType, WrittenType DEF WritesTemporary, RegistryTypeOK
      <4> QED
        BY <1>1, <1>2, <2>5, <3>2, <4>3 DEF WritesTemporary
    <3>6. CASE editor[e].at = "lost"
      BY <1>1, <1>2, <2>5, <3>2, <3>6 DEF WritesTemporary
    <3> QED
      BY <2>5, <3>4, <3>5, <3>6 DEF WritesTemporary, Unwritten
  <2>6. CASE Validates(e)
    <3>1. \/ editor' = [editor EXCEPT ![e] = [editor[e] EXCEPT !.at = "validated"]]
          \/ editor' = Moved(e, "lost")
      BY <2>6 DEF Validates
    <3>3. Editors
      BY <2>2, <2>9, <2>10, <3>1, MovedType
    <3>2. Files
      BY <2>6 DEF Validates, RegistryTypeOK
    <3> QED
      BY <1>1, <1>2, <2>6, <3>2, <3>3 DEF Validates
  <2>7. CASE Replaces(e)
    <3>1. Editors
      BY <2>2, <2>3, <2>7, MovedType DEF Replaces
    <3>2. Files /\ Offers
      BY <2>7, HoldsType DEF Replaces, RegistryTypeOK
    <3> QED
      BY <1>1, <1>2, <2>7, <3>1, <3>2 DEF Replaces
  <2>8. CASE Killed(e)
    BY <1>1, <1>2, <2>2, <2>3, <2>8 DEF Killed
  <2> QED
    BY <1>3, <2>4, <2>5, <2>6, <2>7, <2>8, <2>11 DEF EditorStep
<1>4. CASE EditsByHand
  <2>1. PICK c \in Valid \cup {Broken} : Holds(Written(c))
    BY <1>4 DEF EditsByHand
  <2>2. Files /\ Offers /\ Times
    BY <1>4, <2>1, HoldsType, WrittenType DEF EditsByHand, RegistryTypeOK
  <2>3. Editors
    <3>1. CASE editor' = editor
      BY <1>2, <3>1
    <3>2. CASE editor' = Dropped
      BY <3>2, DroppedType
    <3> QED
      BY <1>4, <3>1, <3>2 DEF EditsByHand
  <2> QED
    BY <1>1, <1>2, <1>4, <2>2, <2>3 DEF EditsByHand
<1>5. CASE DeletesByHand
  <2>1. Files /\ Offers
    BY <1>5, HoldsType DEF DeletesByHand, RegistryTypeOK
  <2>2. Editors
    BY <1>5, DroppedType DEF DeletesByHand
  <2> QED
    BY <1>1, <1>2, <1>5, <2>1, <2>2 DEF DeletesByHand
<1>6. CASE Loads
  <2>1. Bridge /\ Offers
    BY <1>6, DownType DEF Loads
  <2> QED
    BY <1>1, <1>2, <1>6, <2>1 DEF Loads
<1>7. CASE TakesFingerprint
  <2>1. (IF file = NoFile THEN NoFingerprint ELSE Fingerprint(file)) \in Fingerprints
    BY FingerprintType DEF RegistryTypeOK, NoFingerprint, Fingerprints
  <2>2. Bridge
    BY <1>7, <2>1 DEF TakesFingerprint, RegistryTypeOK
  <2> QED
    BY <1>1, <1>2, <1>7, <2>2 DEF TakesFingerprint
<1>8. CASE Stops
  BY <1>1, <1>2, <1>8, DownType DEF Stops
<1>9. CASE Observes
  <2>1. Bridge
    BY <1>9, FingerprintType DEF Observes, RegistryTypeOK
  <2> QED
    BY <1>1, <1>2, <1>9, <2>1 DEF Observes
<1>10. CASE LoadsCandidate
  <2>2. NoFingerprint \in Fingerprints
    BY DEF NoFingerprint, Fingerprints
  <2>3. ASSUME file.content \in Valid /\ SameRoots(bridge.projects, file.content) PROVE Bridge
    <3>1. bridge' = [bridge EXCEPT !.at = "candidate", !.candidate = file.content]
      BY <1>10, <2>3 DEF LoadsCandidate
    <3> QED
      BY <2>3, <3>1 DEF RegistryTypeOK
  <2>4. ASSUME ~(file.content \in Valid /\ SameRoots(bridge.projects, file.content)) PROVE Bridge
    <3>1. bridge' = [bridge EXCEPT !.at = "serving", !.failed = bridge.observed,
                                   !.observed = NoFingerprint]
      BY <1>10, <2>4 DEF LoadsCandidate
    <3> QED
      BY <2>2, <3>1 DEF RegistryTypeOK
  <2>1. Bridge
    BY <2>3, <2>4
  <2> QED
    BY <1>1, <1>2, <1>10, <2>1 DEF LoadsCandidate
<1>11. CASE Verifies
  <2> DEFINE rest == [bridge EXCEPT !.at = "serving", !.observed = NoFingerprint,
                                    !.candidate = Nobody]
  <2>2. NoFingerprint \in Fingerprints
    BY DEF NoFingerprint, Fingerprints
  <2>3. rest \in [at : {"down", "loaded", "serving", "observed", "candidate"},
                  projects : Valid, candidate : Valid, fingerprint : Fingerprints,
                  failed : Fingerprints, observed : Fingerprints]
    BY <2>2, NobodyIsValid DEF RegistryTypeOK
  <2>4. \/ bridge' = rest
        \/ bridge' = [rest EXCEPT !.projects = bridge.candidate,
                                  !.fingerprint = bridge.observed, !.failed = NoFingerprint]
    BY <1>11 DEF Verifies
  <2>5. bridge.candidate \in Valid /\ bridge.observed \in Fingerprints
    BY DEF RegistryTypeOK
  <2> HIDE DEF rest
  <2>1. Bridge
    BY <2>2, <2>3, <2>4, <2>5
  <2> QED
    BY <1>1, <1>2, <1>11, <2>1 DEF Verifies
<1>12. CASE UNCHANGED registryVars
  BY <1>1, <1>2, <1>12 DEF registryVars
<1> QED
  BY <1>3, <1>4, <1>5, <1>6, <1>7, <1>8, <1>9, <1>10, <1>11, <1>12
  DEF RegistryNext, BridgeStep, Refresh

LEMMA InitType == RegistryInit => RegistryTypeOK
<1> SUFFICES ASSUME RegistryInit PROVE RegistryTypeOK
  OBVIOUS
<1>1. file \in File
  BY DEF RegistryInit, File
<1>2. Rest \in [at : EditorPoints, candidate : Valid]
  BY NobodyIsValid DEF Rest, EditorPoints
<1> QED
  BY <1>1, <1>2, DownType DEF RegistryInit, RegistryTypeOK

\* Every reachable state is typed: what the registry serves, keeps as a candidate or has been
\* offered is a valid configuration, whatever is written to the file (load_projects).
THEOREM RegistryTypeCorrect == RegistrySpec => []RegistryTypeOK
  BY InitType, TypeStep, PTL DEF RegistrySpec
-----------------------------------------------------------------------------
(***************************************************************************)
(* Nothing is overlooked.  The file and the temporary file never have one  *)
(* time between them, and no time comes back: so a fingerprint stands for  *)
(* one content.                                                            *)
(***************************************************************************)
\* Whenever the file has the time of fingerprint x, it holds c; and no later writing gives it
\* that time.
Knows(x, c) ==
  /\ x.time <= now
  /\ temporary # NoFile => temporary.time # x.time
  /\ file # NoFile /\ file.time = x.time => file.content = c

TimesApart ==
  /\ file.time <= now /\ temporary.time <= now
  /\ file # NoFile /\ temporary # NoFile => file.time # temporary.time

LookInv ==
  /\ TimesApart
  /\ bridge.at = "loaded" => file # NoFile /\ file.content = bridge.projects
  /\ Serving => Knows(bridge.fingerprint, bridge.projects)
  /\ bridge.at \in {"observed", "candidate"} =>
       /\ bridge.observed.time <= now
       /\ temporary # NoFile => temporary.time # bridge.observed.time
  /\ bridge.at = "candidate" => Knows(bridge.observed, bridge.candidate)

\* What a step may do to the two files, the registry aside.
FileStep ==
  \/ file' = file /\ temporary' = temporary /\ now' = now
  \/ file' = file /\ temporary'.time = now + 1 /\ now' = now + 1
  \/ file' = file /\ temporary' = NoFile /\ now' = now
  \/ temporary # NoFile /\ file' = temporary /\ temporary' = NoFile /\ now' = now
  \/ file'.time = now + 1 /\ temporary' = temporary /\ now' = now + 1
  \/ file' = NoFile /\ temporary' = temporary /\ now' = now

LEMMA TimesAreNat ==
  ASSUME RegistryTypeOK
  PROVE  /\ now \in Nat /\ file.time \in Nat /\ temporary.time \in Nat
         /\ bridge.fingerprint.time \in Nat /\ bridge.observed.time \in Nat
         /\ NoFile.time \in Nat
<1>1. now \in Nat /\ file.time \in Nat /\ temporary.time \in Nat /\ NoFile.time \in Nat
  BY DEF RegistryTypeOK, File, NoFile
<1>2. bridge.fingerprint \in Fingerprints /\ bridge.observed \in Fingerprints
  BY DEF RegistryTypeOK
<1> QED
  BY <1>1, <1>2 DEF Fingerprints

\* A step of another process keeps what the registry knows.
LEMMA FilesChange ==
  ASSUME RegistryTypeOK, LookInv, FileStep, bridge' = bridge,
         file' = file \/ bridge.at # "loaded"
  PROVE  LookInv'
<1> USE TimesAreNat DEF FileStep
<1>0. NoFile.time = 0
  BY DEF NoFile
<1>1. TimesApart'
  BY <1>0 DEF LookInv, TimesApart
<1>2. ASSUME Serving PROVE Knows(bridge.fingerprint, bridge.projects)'
  <2>1. Knows(bridge.fingerprint, bridge.projects)
    BY <1>2 DEF LookInv
  <2> QED
    BY <2>1 DEF LookInv, TimesApart, Knows
<1>3. ASSUME bridge.at \in {"observed", "candidate"}
      PROVE  /\ bridge.observed.time <= now'
             /\ temporary' # NoFile => temporary'.time # bridge.observed.time
  BY <1>3 DEF LookInv, TimesApart
<1>4. ASSUME bridge.at = "candidate" PROVE Knows(bridge.observed, bridge.candidate)'
  <2>1. Knows(bridge.observed, bridge.candidate)
    BY <1>4 DEF LookInv
  <2> QED
    BY <2>1 DEF LookInv, TimesApart, Knows
<1>5. bridge.at = "loaded" => (file # NoFile /\ file.content = bridge.projects)'
  BY DEF LookInv
<1> QED
  BY <1>1, <1>2, <1>3, <1>4, <1>5 DEF LookInv, Serving

LEMMA LookInit == RegistryInit => LookInv
<1> SUFFICES ASSUME RegistryInit PROVE LookInv
  OBVIOUS
<1> QED
  BY DEF RegistryInit, Down, NoFile, LookInv, TimesApart, Serving

LEMMA LookStep ==
  ASSUME "startup" \notin Windows,
         RegistryTypeOK, LookInv, [RegistryNext]_registryVars
  PROVE  LookInv'
<1>1. ASSUME NEW e \in Editor, EditorStep(e) PROVE LookInv'
  <2>1. bridge' = bridge
    BY <1>1 DEF EditorStep, AddReads, RemoveReads, OpensTemporary, WritesTemporary, Validates,
       Replaces, Killed
  <2>6. CASE OpensTemporary(e)
    BY <2>1, <2>6, FilesChange DEF OpensTemporary, FileStep, Written
  <2>2. CASE WritesTemporary(e)
    <3>1. CASE editor[e].at = "installed"
      <4>1. PICK c \in Overwritten(file, editor[e].candidate) : Holds(Written(c))
        BY <2>2, <3>1 DEF WritesTemporary
      <4> QED
        BY <2>1, <2>2, <3>1, <4>1, FilesChange DEF WritesTemporary, FileStep, Holds, Written, MayWrite
    <3>2. CASE editor[e].at # "installed"
      BY <2>1, <2>2, <3>2, FilesChange DEF WritesTemporary, FileStep, Written
    <3> QED
      BY <3>1, <3>2
  <2>3. CASE Validates(e)
    BY <2>1, <2>3, FilesChange DEF Validates, FileStep
  <2>4. CASE Replaces(e)
    BY <2>1, <2>4, FilesChange DEF Replaces, FileStep, Holds, MayWrite
  <2>5. CASE UNCHANGED <<file, temporary, now>>
    BY <2>1, <2>5, FilesChange DEF FileStep
  <2> QED
    BY <1>1, <2>2, <2>3, <2>4, <2>5, <2>6 DEF EditorStep, AddReads, RemoveReads, Killed
<1>2. CASE EditsByHand
  <2>1. PICK c \in Valid \cup {Broken} : Holds(Written(c))
    BY <1>2 DEF EditsByHand
  <2> QED
    BY <1>2, <2>1, FilesChange DEF EditsByHand, FileStep, Holds, Written, MayWrite
<1>3. CASE DeletesByHand
  BY <1>3, FilesChange DEF DeletesByHand, FileStep, Holds, MayWrite
<1>4. CASE Loads
  <2>1. file # NoFile
    BY <1>4 DEF Loads, NoFile, Valid
  <2>2. bridge'.at = "loaded" /\ bridge'.projects = file.content /\ UNCHANGED <<file, temporary, now>>
    BY <1>4 DEF Loads, Down
  <2> QED
    BY <2>1, <2>2 DEF LookInv, TimesApart, Serving
<1>5. CASE TakesFingerprint
  <2>1. /\ bridge' = [bridge EXCEPT !.at = "serving", !.fingerprint = Fingerprint(file)]
        /\ UNCHANGED <<file, temporary, now>>
        /\ file # NoFile /\ file.content = bridge.projects
    BY <1>5 DEF TakesFingerprint, LookInv
  <2>2. /\ bridge'.at = "serving" /\ bridge'.projects = bridge.projects
        /\ bridge'.fingerprint.time = file.time
    BY <2>1 DEF RegistryTypeOK, Fingerprint
  <2> QED
    BY <2>1, <2>2 DEF LookInv, TimesApart, Knows, Serving
<1>6. CASE Stops
  <2>1. bridge'.at = "down" /\ UNCHANGED <<file, temporary, now>>
    BY <1>6 DEF Stops, Down
  <2> QED
    BY <2>1 DEF LookInv, TimesApart, Serving
<1>7. CASE Observes
  <2>1. /\ bridge' = [bridge EXCEPT !.at = "observed", !.observed = Fingerprint(file)]
        /\ UNCHANGED <<file, temporary, now>>
        /\ file # NoFile /\ bridge.at = "serving"
    BY <1>7 DEF Observes
  <2>2. /\ bridge'.at = "observed" /\ bridge'.projects = bridge.projects
        /\ bridge'.fingerprint = bridge.fingerprint /\ bridge'.observed.time = file.time
    BY <2>1 DEF RegistryTypeOK, Fingerprint
  <2> QED
    BY <2>1, <2>2 DEF LookInv, TimesApart, Knows, Serving
<1>8. CASE LoadsCandidate
  <2>1. /\ bridge.at = "observed" /\ UNCHANGED <<file, temporary, now>>
        /\ bridge'.projects = bridge.projects /\ bridge'.fingerprint = bridge.fingerprint
        /\ \/ bridge'.at = "serving"
           \/ /\ bridge'.at = "candidate" /\ bridge'.observed = bridge.observed
              /\ bridge'.candidate = file.content
    BY <1>8 DEF LoadsCandidate, RegistryTypeOK
  <2> QED
    BY <2>1 DEF LookInv, TimesApart, Knows, Serving
<1>9. CASE Verifies
  <2>1. /\ bridge.at = "candidate" /\ UNCHANGED <<file, temporary, now>> /\ bridge'.at = "serving"
        /\ \/ bridge'.projects = bridge.projects /\ bridge'.fingerprint = bridge.fingerprint
           \/ bridge'.projects = bridge.candidate /\ bridge'.fingerprint = bridge.observed
    BY <1>9 DEF Verifies, RegistryTypeOK
  <2> QED
    BY <2>1 DEF LookInv, TimesApart, Knows, Serving
<1>10. CASE UNCHANGED registryVars
  BY <1>10, FilesChange DEF registryVars, FileStep
<1> QED
  BY <1>1, <1>2, <1>3, <1>4, <1>5, <1>6, <1>7, <1>8, <1>9, <1>10
  DEF RegistryNext, BridgeStep, Refresh

LEMMA LookInvGivesIt == RegistryTypeOK /\ LookInv => NothingOverlooked
  BY DEF RegistryTypeOK, LookInv, Knows, NothingOverlooked, Fingerprint

\* If nobody writes the file while the Bridge starts, no number of commands, edits and reloads
\* makes the registry take a changed file for the one it serves (refresh_if_changed).
THEOREM NoChangeOverlooked ==
  ASSUME "startup" \notin Windows
  PROVE  RegistrySpec => []NothingOverlooked
<1>1. RegistryTypeOK /\ LookInv /\ [RegistryNext]_registryVars => LookInv'
  BY LookStep
<1> QED
  BY <1>1, LookInit, InitType, TypeStep, LookInvGivesIt, PTL DEF RegistrySpec
-----------------------------------------------------------------------------
(***************************************************************************)
(* The registry keeps the promise.  The history holds every valid content  *)
(* the file has had, so a candidate is one of them.                        *)
(***************************************************************************)
OfferInv ==
  /\ bridge.at = "down" => offered = {}
  /\ bridge.at # "down" /\ file.content \in Valid => file.content \in offered
  /\ bridge.at = "candidate" => /\ bridge.candidate \in offered
                                /\ SameRoots(bridge.projects, bridge.candidate)

ServedNow == IF bridge.at = "down" THEN {} ELSE {bridge.projects}

\* Promised steps, on what the registry serves.
PromisedStep == [P!PromiseNext]_<<ServedNow, offered>>

LEMMA SameRootsAgree ==
  ASSUME NEW c \in Valid, NEW d \in Valid, SameRoots(c, d) PROVE P!SameRoots(c, d)
  BY DEF SameRoots, P!SameRoots, Registered

LEMMA HoldsOffers ==
  ASSUME RegistryTypeOK, OfferInv, bridge' = bridge, NEW f, Holds(f)
  PROVE  OfferInv' /\ PromisedStep
<1>1. OfferInv'
  BY DEF Holds, OfferInv
<1>2. CASE bridge.at # "down" /\ f.content \in Valid
  <2>1. ServedNow # {} /\ ServedNow' = ServedNow
    BY <1>2 DEF ServedNow
  <2>2. offered' = offered \cup {f.content}
    BY <1>2 DEF Holds
  <2> QED
    BY <1>1, <1>2, <2>1, <2>2 DEF PromisedStep, P!PromiseNext, P!Offer, ServedNow
<1>3. CASE ~(bridge.at # "down" /\ f.content \in Valid)
  BY <1>1, <1>3 DEF Holds, PromisedStep, ServedNow
<1> QED
  BY <1>2, <1>3

LEMMA OfferStep ==
  ASSUME RegistryTypeOK, OfferInv, [RegistryNext]_registryVars
  PROVE  OfferInv' /\ PromisedStep
<1> DEFINE Quiet == UNCHANGED <<file, bridge, offered>>
<1>1. ASSUME Quiet PROVE OfferInv' /\ PromisedStep
  BY <1>1 DEF OfferInv, PromisedStep, ServedNow
<1>2. ASSUME NEW e \in Editor, EditorStep(e) PROVE OfferInv' /\ PromisedStep
  <2>1. CASE Replaces(e)
    <3>1. bridge' = bridge
      BY <2>1 DEF Replaces
    <3>2. Quiet \/ Holds(temporary)
      BY <2>1 DEF Replaces
    <3> QED
      BY <1>1, <3>1, <3>2, HoldsOffers
  <2>2. CASE WritesTemporary(e) /\ editor[e].at = "installed"
    <3>1. PICK c \in Overwritten(file, editor[e].candidate) : Holds(Written(c))
      BY <2>2 DEF WritesTemporary
    <3> QED
      BY <2>2, <3>1, HoldsOffers DEF WritesTemporary
  <2>3. CASE ~Replaces(e) /\ ~(WritesTemporary(e) /\ editor[e].at = "installed")
    BY <1>1, <1>2, <2>3
    DEF EditorStep, AddReads, RemoveReads, OpensTemporary, WritesTemporary, Validates, Killed
  <2> QED
    BY <2>1, <2>2, <2>3
<1>3. CASE EditsByHand
  <2>1. PICK c \in Valid \cup {Broken} : Holds(Written(c))
    BY <1>3 DEF EditsByHand
  <2> QED
    BY <1>3, <2>1, HoldsOffers DEF EditsByHand
<1>4. CASE DeletesByHand
  BY <1>4, HoldsOffers DEF DeletesByHand
<1>5. CASE Loads
  <2>1. /\ bridge.at = "down" /\ file.content \in Valid /\ file' = file
        /\ bridge'.at = "loaded" /\ bridge'.projects = file.content /\ offered' = {file.content}
    BY <1>5 DEF Loads, Down
  <2>2. OfferInv'
    BY <2>1 DEF OfferInv
  <2>3. ServedNow = {} /\ ServedNow' = {file.content}
    BY <2>1 DEF ServedNow
  <2>4. P!Begin
    BY <2>1, <2>3 DEF P!Begin, ServedNow
  <2> QED
    BY <2>2, <2>4 DEF PromisedStep, P!PromiseNext
<1>6. CASE TakesFingerprint
  <2>1. /\ bridge.at = "loaded" /\ bridge'.at = "serving" /\ bridge'.projects = bridge.projects
        /\ UNCHANGED <<file, offered>>
    BY <1>6 DEF TakesFingerprint, RegistryTypeOK
  <2> QED
    BY <2>1 DEF OfferInv, PromisedStep, ServedNow
<1>7. CASE Stops
  <2>1. bridge.at # "down" /\ bridge'.at = "down" /\ offered' = {}
    BY <1>7 DEF Stops, Down
  <2>2. ServedNow # {} /\ ServedNow' = {}
    BY <2>1 DEF ServedNow
  <2>3. P!End
    BY <2>1, <2>2 DEF P!End, ServedNow
  <2> QED
    BY <2>1, <2>3 DEF OfferInv, PromisedStep, P!PromiseNext
<1>8. CASE Observes
  <2>1. /\ bridge.at = "serving" /\ bridge'.at = "observed" /\ bridge'.projects = bridge.projects
        /\ UNCHANGED <<file, offered>>
    BY <1>8 DEF Observes, RegistryTypeOK
  <2> QED
    BY <2>1 DEF OfferInv, PromisedStep, ServedNow
<1>9. CASE LoadsCandidate
  <2>1. /\ bridge.at = "observed" /\ bridge'.projects = bridge.projects
        /\ UNCHANGED <<file, offered>>
        /\ \/ bridge'.at = "serving"
           \/ /\ bridge'.at = "candidate" /\ bridge'.candidate = file.content
              /\ file.content \in Valid /\ SameRoots(bridge.projects, file.content)
    BY <1>9 DEF LoadsCandidate, RegistryTypeOK
  <2> QED
    BY <2>1 DEF OfferInv, PromisedStep, ServedNow
<1>10. CASE Verifies
  <2>1. /\ bridge.at = "candidate" /\ bridge'.at = "serving"
        /\ bridge'.projects \in {bridge.projects, bridge.candidate}
        /\ UNCHANGED <<file, offered>>
    BY <1>10 DEF Verifies, RegistryTypeOK
  <2>2. OfferInv'
    BY <2>1 DEF OfferInv
  <2>3. CASE bridge'.projects = bridge.projects
    BY <2>1, <2>2, <2>3 DEF PromisedStep, ServedNow
  <2>4. CASE bridge'.projects = bridge.candidate
    <3>1. ServedNow = {bridge.projects} /\ ServedNow' = {bridge.candidate}
      BY <2>1, <2>4 DEF ServedNow
    <3>2. bridge.candidate \in offered /\ P!SameRoots(bridge.projects, bridge.candidate)
      BY <2>1, SameRootsAgree DEF OfferInv, RegistryTypeOK
    <3>3. P!Serve
      BY <2>1, <3>1, <3>2 DEF P!Serve, ServedNow
    <3> QED
      BY <2>2, <3>3 DEF PromisedStep, P!PromiseNext
  <2> QED
    BY <2>1, <2>3, <2>4
<1>11. CASE UNCHANGED registryVars
  BY <1>1, <1>11 DEF registryVars
<1> QED
  BY <1>2, <1>3, <1>4, <1>5, <1>6, <1>7, <1>8, <1>9, <1>10, <1>11
  DEF RegistryNext, BridgeStep, Refresh

LEMMA OfferInit == RegistryInit => OfferInv /\ P!PromiseInit
  BY DEF RegistryInit, Down, OfferInv, P!PromiseInit

\* Whatever else writes the file between the looks of a reload, what the registry serves changes
\* only from one whole configuration of the file to another with the same roots
\* (refresh_if_changed; SnapshotPromise says it without fingerprints).
THEOREM RegistryKeepsPromise == RegistrySpec => KeepsSnapshotPromise
<1>1. RegistryTypeOK /\ OfferInv /\ [RegistryNext]_registryVars => OfferInv' /\ PromisedStep
  BY OfferStep
<1> QED
  BY <1>1, OfferInit, InitType, TypeStep, PTL
  DEF RegistrySpec, KeepsSnapshotPromise, P!Promise, PromisedStep, ServedNow
=============================================================================
