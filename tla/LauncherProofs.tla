--------------------------- MODULE LauncherProofs ---------------------------
(***************************************************************************)
(* Theorems about the launcher: SettingsApply, for any settings, profiles  *)
(* and secrets, and Launcher, for any number of clicks, processes and      *)
(* losses.                                                                 *)
(***************************************************************************)
EXTENDS SettingsApply, Launcher, TLAPS

-----------------------------------------------------------------------------
(***************************************************************************)
(* Applying settings                                                       *)
(***************************************************************************)

Forwards == {"tunnel", "custom", "save"}
Undoing == {"undo custom", "undo tunnel", "undo profile"}

\* What an apply that is under way will make of a key.
Final(k) == IF edits[k] = "keep" THEN before.store[k]
            ELSE IF edits[k] = "clear" THEN None ELSE edits[k]

AsBefore == /\ settings = before.settings /\ profiles = before.profiles
            /\ store = before.store

Usable(ofSettings, ofProfiles, ofStore) ==
    ofSettings # None =>
        /\ ofStore["tunnel"] # None
        /\ ofSettings \in NeedsCustom => ofStore["custom"] # None
        /\ ofProfiles[ProfileOf[ofSettings]] = ofSettings

\* What an apply knows of the disk it began with, and what it has changed.
Begun ==
    phase \in {"profile"} \union Forwards \union Undoing =>
        /\ settings = before.settings
        /\ profile_backup = before.profiles[ProfileOf[staged]]
        /\ \A k \in Keys :
              /\ edits[k] # "keep" => old_secrets[k] = before.store[k]
              /\ RequiredFor(staged, k) => Final(k) # None
              /\ k \notin changed => store[k] = before.store[k]
              /\ k \in changed => edits[k] # "keep"

Written ==
    /\ phase = "profile" => profiles = before.profiles /\ changed = {}
    /\ phase \in Forwards \union Undoing =>
          profiles = [before.profiles EXCEPT ![ProfileOf[staged]] = staged]
    /\ phase \in {"custom", "save"} => store["tunnel"] = Final("tunnel")
    /\ phase = "save" => store["custom"] = Final("custom")

Undone ==
    /\ undoFailed => phase \in Undoing \union {"failed"} /\ dirty
    /\ ~undoFailed =>
          /\ phase \in {"undo tunnel", "undo profile"} =>
                store["custom"] = before.store["custom"]
          /\ phase = "undo profile" => store["tunnel"] = before.store["tunnel"]
          /\ phase = "failed" => AsBefore

\* Between two applies the disk is what "before" remembers, and usable unless
\* something was killed or not rolled back.
Kept ==
    /\ phase = "idle" => AsBefore /\ changed = {}
    /\ phase = "ok" => Usable(settings, profiles, store)
    /\ ~dirty /\ phase # "ok" =>
          Usable(before.settings, before.profiles, before.store)

ApplyInv == SettingsTypeOK /\ Begun /\ Written /\ Undone /\ Kept

-----------------------------------------------------------------------------
(***************************************************************************)
(* What the disk is made of                                                *)
(***************************************************************************)

DiskType == [settings : Drafts \union {None}, profiles : Profiles,
             store : [Keys -> Stored]]

LEMMA DiskFacts ==
  ASSUME SettingsTypeOK
  PROVE  /\ Disk \in DiskType
         /\ Disk.settings = settings /\ Disk.profiles = profiles
         /\ Disk.store = store
         /\ AsBefore => Disk = before
<1>1. /\ settings \in Drafts \union {None} /\ profiles \in Profiles
      /\ store \in [Keys -> Stored] /\ before \in DiskType
  BY DEF SettingsTypeOK, DiskType
<1>2. Disk \in DiskType
  BY <1>1 DEF Disk, DiskType
<1>3. before = [settings |-> before.settings, profiles |-> before.profiles,
                store |-> before.store]
  BY <1>1 DEF DiskType
<1> QED BY <1>2, <1>3 DEF Disk, AsBefore

LEMMA ProfileNamed ==
  ASSUME NEW d \in Drafts
  PROVE  ProfileOf[d] \in ProfileNames
BY DEF ProfileNames

LEMMA StoreIsBefore ==
  ASSUME SettingsTypeOK, \A k \in Keys : store[k] = before.store[k]
  PROVE  store = before.store
<1>1. store \in [Keys -> Stored] /\ before.store \in [Keys -> Stored]
  BY DEF SettingsTypeOK
<1> QED BY <1>1

LEMMA ApplyInvInit == SettingsInit => ApplyInv
<1> SUFFICES ASSUME SettingsInit PROVE ApplyInv
  OBVIOUS
<1>1. /\ settings \in Drafts \union {None} /\ profiles \in Profiles
      /\ store \in [Keys -> Stored] /\ staged \in Drafts \union {None}
      /\ edits \in [Keys -> Edits] /\ old_secrets \in [Keys -> Stored]
      /\ profile_backup \in Drafts \union {None, Torn}
  BY DEF SettingsInit, Profiles, Stored, Edits
<1>2. before = Disk
  BY DEF SettingsInit
<1>3. /\ before \in DiskType /\ before.settings = settings
      /\ before.profiles = profiles /\ before.store = store
  BY <1>1, <1>2 DEF Disk, DiskType
<1>4. SettingsTypeOK
  BY <1>1, <1>3 DEF SettingsInit, SettingsTypeOK, DiskType, Phases
<1>5. Begun /\ Written /\ Undone /\ Kept
  BY <1>3 DEF SettingsInit, Begun, Written, Undone, Kept, AsBefore, Usable,
              Forwards, Undoing
<1> QED BY <1>4, <1>5 DEF ApplyInv

-----------------------------------------------------------------------------
(***************************************************************************)
(* An apply begins                                                         *)
(***************************************************************************)

\* What the preflight lets pass leaves every required key with a value.
LEMMA PreflightLeavesKey ==
  ASSUME NEW d, NEW k, NEW edit, PreflightPasses(d, k, edit), RequiredFor(d, k)
  PROVE  AfterEdit(k, edit) # None
BY DEF PreflightPasses, AfterEdit

LEMMA BeginsStep ==
  ASSUME ApplyInv, NEW d \in Drafts, ApplyBegins(d)
  PROVE  ApplyInv'
<1>1. PICK t \in Edits, c \in Edits :
         /\ edits' = [k \in Keys |-> IF k = "tunnel" THEN t ELSE c]
         /\ \A k \in Keys : PreflightPasses(d, k, edits'[k])
         /\ old_secrets' = [k \in Keys |-> ReadBefore(k, edits'[k])]
  BY DEF ApplyBegins
<1>2. /\ phase = "idle" /\ phase' = "profile" /\ staged' = d
      /\ profile_backup' = profiles[ProfileOf[d]] /\ before' = Disk
      /\ platform' = platform /\ settings' = settings /\ profiles' = profiles
      /\ store' = store /\ changed' = changed /\ undoFailed' = undoFailed
      /\ dirty' = dirty
  BY DEF ApplyBegins
<1>3. SettingsTypeOK /\ AsBefore /\ changed = {} /\ ~undoFailed
  BY <1>2 DEF ApplyInv, Kept, Undone, Undoing
<1>4. /\ Disk \in DiskType /\ before' \in DiskType
      /\ before'.settings = settings /\ before'.profiles = profiles
      /\ before'.store = store
  BY <1>2, <1>3, DiskFacts
<1>5. edits' \in [Keys -> Edits] /\ old_secrets' \in [Keys -> Stored]
  <2>1. \A k \in Keys : store[k] \in Stored
    BY <1>3 DEF SettingsTypeOK
  <2>2. \A k \in Keys : ReadBefore(k, edits'[k]) \in Stored
    BY <2>1 DEF ReadBefore, Stored
  <2> QED BY <1>1, <2>2
<1>6. profile_backup' \in Drafts \union {None, Torn}
  BY <1>2, <1>3, ProfileNamed DEF SettingsTypeOK, Profiles
<1>7. SettingsTypeOK'
  BY <1>2, <1>3, <1>4, <1>5, <1>6 DEF SettingsTypeOK, DiskType, Phases
<1>8. ASSUME NEW k \in Keys
      PROVE  /\ edits'[k] # "keep" => old_secrets'[k] = store[k]
             /\ RequiredFor(d, k) => (Final(k))' # None
  <2>1. edits'[k] # "keep" => old_secrets'[k] = store[k]
    BY <1>1 DEF ReadBefore
  <2>2. (Final(k))' = AfterEdit(k, edits'[k])
    BY <1>4 DEF Final, AfterEdit
  <2> QED BY <1>1, <2>1, <2>2, PreflightLeavesKey
<1>9. Begun'
  BY <1>2, <1>3, <1>4, <1>8 DEF Begun, RequiredFor
<1>10. Written' /\ Undone'
  BY <1>2, <1>3, <1>4 DEF Written, Undone, Forwards, Undoing
<1>11. Kept'
  BY <1>2, <1>3, <1>4 DEF ApplyInv, Kept, AsBefore
<1> QED BY <1>7, <1>9, <1>10, <1>11 DEF ApplyInv

-----------------------------------------------------------------------------
(***************************************************************************)
(* Its writes                                                              *)
(***************************************************************************)

LEMMA WriteProfileStep ==
  ASSUME ApplyInv, WriteProfile
  PROVE  ApplyInv'
<1> USE DEF applyVars
<1>1. /\ phase = "profile" /\ staged \in Drafts /\ ProfileOf[staged] \in ProfileNames
      /\ profiles = before.profiles /\ changed = {} /\ ~undoFailed
      /\ \A k \in Keys : store[k] = before.store[k]
      /\ settings = before.settings
  BY ProfileNamed DEF WriteProfile, ApplyInv, SettingsTypeOK, Written, Undone,
     Begun, Undoing
<1>2. store = before.store
  BY <1>1, StoreIsBefore DEF ApplyInv
<1>3. CASE phase' = "failed" /\ profiles' = profiles
  <2>1. SettingsTypeOK'
    BY <1>3 DEF WriteProfile, ApplyInv, SettingsTypeOK, Phases
  <2> QED BY <1>1, <1>2, <1>3, <2>1 DEF WriteProfile, ApplyInv, Begun, Written,
             Undone, Kept, AsBefore, Forwards, Undoing
<1>4. CASE /\ profiles' = [profiles EXCEPT ![ProfileOf[staged]] = staged]
           /\ phase' = "tunnel"
  <2>1. profiles' \in Profiles
    BY <1>1, <1>4 DEF ApplyInv, SettingsTypeOK, Profiles
  <2>2. SettingsTypeOK'
    BY <1>1, <1>4, <2>1 DEF WriteProfile, ApplyInv, SettingsTypeOK, Phases
  <2>3. Begun'
    BY <1>1, <1>4 DEF WriteProfile, ApplyInv, Begun, Final, RequiredFor
  <2>4. Written' /\ Undone' /\ Kept'
    BY <1>1, <1>4 DEF WriteProfile, ApplyInv, Written, Undone, Kept, Undoing
  <2> QED BY <2>2, <2>3, <2>4 DEF ApplyInv
<1> QED BY <1>3, <1>4 DEF WriteProfile

LEMMA KeyStep ==
  ASSUME ApplyInv, NEW k \in Keys, KeepKey(k) \/ ChangeKey(k)
  PROVE  ApplyInv'
<1> USE DEF applyVars
<1>1. /\ phase = k /\ phase \in Forwards /\ phase # "save" /\ phase' = Forward(k)
      /\ phase' \in Forwards \ {"tunnel"} /\ ~undoFailed
      /\ platform' = platform /\ settings' = settings /\ profiles' = profiles
      /\ staged' = staged /\ edits' = edits /\ old_secrets' = old_secrets
      /\ profile_backup' = profile_backup /\ before' = before
      /\ undoFailed' = undoFailed /\ dirty' = dirty
  BY DEF KeepKey, ChangeKey, Keys, Forward, Forwards, ApplyInv, Undone, Undoing
<1>2. /\ store' \in [Keys -> Stored] /\ changed' \subseteq Keys
      /\ store'[k] = Final(k)
      /\ k \in changed' => edits[k] # "keep"
      /\ k \notin changed' => store'[k] = before.store[k]
      /\ \A q \in Keys :
            q # k => store'[q] = store[q] /\ (q \in changed' <=> q \in changed)
  <2>1. CASE KeepKey(k)
    BY <1>1, <2>1 DEF KeepKey, ApplyInv, SettingsTypeOK, Begun, Final
  <2>2. CASE ChangeKey(k)
    <3>1. AfterEdit(k, edits[k]) = Final(k)
      BY <2>2 DEF ChangeKey, AfterEdit, Final
    <3>2. edits[k] \in Edits
      BY DEF ApplyInv, SettingsTypeOK
    <3>3. Final(k) \in Stored
      BY <2>2, <3>2 DEF ChangeKey, Final, Edits, Stored
    <3> QED BY <2>2, <3>1, <3>3 DEF ChangeKey, ApplyInv, SettingsTypeOK
  <2> QED BY <2>1, <2>2
<1>3. SettingsTypeOK'
  BY <1>1, <1>2 DEF ApplyInv, SettingsTypeOK, Phases, Forwards
<1>4. \A q \in Keys : (Final(q))' = Final(q)
  BY <1>1 DEF Final
<1>5. Begun'
  <2>1. /\ settings = before.settings
        /\ profile_backup = before.profiles[ProfileOf[staged]]
    BY <1>1 DEF ApplyInv, Begun
  <2>2. ASSUME NEW q \in Keys
        PROVE  /\ edits[q] # "keep" => old_secrets[q] = before.store[q]
               /\ RequiredFor(staged, q) => Final(q) # None
               /\ q \notin changed' => store'[q] = before.store[q]
               /\ q \in changed' => edits[q] # "keep"
    <3>1. CASE q = k
      BY <1>1, <1>2, <3>1 DEF ApplyInv, Begun
    <3>2. CASE q # k
      BY <1>1, <1>2, <3>2 DEF ApplyInv, Begun
    <3> QED BY <3>1, <3>2
  <2> QED BY <1>1, <1>4, <2>1, <2>2 DEF Begun, RequiredFor
<1>6. Written'
  <2>1. "tunnel" \in Keys /\ "custom" \in Keys
    BY DEF Keys
  <2>2. k = "custom" => store["tunnel"] = Final("tunnel")
    BY <1>1 DEF ApplyInv, Written
  <2>3. /\ k = "tunnel" => phase' = "custom"
        /\ k = "custom" => phase' = "save"
        /\ k \in {"tunnel", "custom"}
    BY <1>1 DEF Forward, Keys
  <2>4. profiles = [before.profiles EXCEPT ![ProfileOf[staged]] = staged]
    BY <1>1 DEF ApplyInv, Written
  <2>5. phase' \in {"custom", "save"} => store'["tunnel"] = Final("tunnel")
    BY <1>2, <2>1, <2>2, <2>3
  <2>6. phase' = "save" => store'["custom"] = Final("custom")
    BY <1>2, <2>1, <2>3
  <2>7. phase' # "profile"
    BY <1>1 DEF Forwards
  <2> QED BY <1>1, <1>4, <2>1, <2>4, <2>5, <2>6, <2>7 DEF Written
<1>7. Undone' /\ Kept'
  BY <1>1 DEF ApplyInv, Undone, Kept, Forwards
<1> QED BY <1>3, <1>5, <1>6, <1>7 DEF ApplyInv

LEMMA SaveStep ==
  ASSUME ApplyInv, SaveSettings
  PROVE  ApplyInv'
<1> USE DEF applyVars
<1>1. /\ phase = "save" /\ staged \in Drafts /\ ProfileOf[staged] \in ProfileNames
      /\ ~undoFailed
  BY ProfileNamed DEF SaveSettings, ApplyInv, SettingsTypeOK, Undone, Undoing
<1>2. SettingsTypeOK'
  BY <1>1 DEF SaveSettings, ApplyInv, SettingsTypeOK, Phases
<1>3. profiles[ProfileOf[staged]] = staged
  <2>1. profiles = [before.profiles EXCEPT ![ProfileOf[staged]] = staged]
    BY <1>1 DEF ApplyInv, Written, Forwards
  <2>2. before.profiles \in Profiles
    BY DEF ApplyInv, SettingsTypeOK
  <2> QED BY <1>1, <2>1, <2>2 DEF Profiles
<1>4. /\ store["tunnel"] # None
      /\ staged \in NeedsCustom => store["custom"] # None
  BY <1>1 DEF ApplyInv, Begun, Written, Keys, RequiredFor, Forwards
<1>5. Usable(staged, profiles, store)
  BY <1>3, <1>4 DEF Usable
<1>6. /\ phase' = "ok" /\ settings' = staged /\ profiles' = profiles
      /\ store' = store /\ undoFailed' = undoFailed
  BY DEF SaveSettings
<1> QED BY <1>1, <1>2, <1>5, <1>6 DEF ApplyInv, Begun, Written, Undone, Kept,
           Forwards, Undoing

-----------------------------------------------------------------------------
(***************************************************************************)
(* The rollback                                                            *)
(***************************************************************************)

LEMMA WriteRaisesStep ==
  ASSUME ApplyInv, WriteRaises
  PROVE  ApplyInv'
<1> USE DEF applyVars
<1>1. /\ phase \in Forwards /\ phase' = "undo custom" /\ ~undoFailed
      /\ platform' = platform /\ settings' = settings /\ profiles' = profiles
      /\ store' = store /\ staged' = staged /\ edits' = edits
      /\ old_secrets' = old_secrets /\ profile_backup' = profile_backup
      /\ changed' = changed /\ before' = before
      /\ undoFailed' = undoFailed /\ dirty' = dirty
  BY DEF WriteRaises, Keys, Forwards, ApplyInv, Undone, Undoing
<1>2. SettingsTypeOK'
  BY <1>1 DEF ApplyInv, SettingsTypeOK, Phases, Forwards
<1>3. Begun'
  BY <1>1 DEF ApplyInv, Begun, Final, RequiredFor
<1>4. Written' /\ Undone' /\ Kept'
  BY <1>1 DEF ApplyInv, Written, Undone, Kept, Forwards, Undoing
<1> QED BY <1>2, <1>3, <1>4 DEF ApplyInv

LEMMA UndoKeyStep ==
  ASSUME ApplyInv, NEW k \in Keys, UndoKey(k)
  PROVE  ApplyInv'
<1> USE DEF applyVars
<1>1. /\ phase \in {"undo custom", "undo tunnel"} /\ phase' = Back(phase)
      /\ phase = "undo custom" => k = "custom" /\ phase' = "undo tunnel"
      /\ phase = "undo tunnel" => k = "tunnel" /\ phase' = "undo profile"
      /\ platform' = platform /\ settings' = settings /\ profiles' = profiles
      /\ staged' = staged /\ edits' = edits
      /\ old_secrets' = old_secrets /\ profile_backup' = profile_backup
      /\ changed' = changed /\ before' = before
      /\ undoFailed' = undoFailed /\ dirty' = dirty
  BY DEF UndoKey, UndoPhase, Back, Keys
<1>2. /\ store' \in [Keys -> Stored] /\ store'[k] = before.store[k]
      /\ \A q \in Keys : q # k => store'[q] = store[q]
  <2>1. CASE k \in changed /\ store' = [store EXCEPT ![k] = old_secrets[k]]
    BY <1>1, <2>1 DEF ApplyInv, SettingsTypeOK, Begun, Undoing
  <2>2. CASE k \notin changed /\ store' = store
    BY <1>1, <2>2 DEF ApplyInv, SettingsTypeOK, Begun, Undoing
  <2> QED BY <2>1, <2>2 DEF UndoKey, ToUndo
<1>3. SettingsTypeOK'
  BY <1>1, <1>2 DEF ApplyInv, SettingsTypeOK, Phases
<1>4. Begun'
  BY <1>1, <1>2 DEF ApplyInv, Begun, Final, RequiredFor, Undoing
<1>5. Written' /\ Kept'
  BY <1>1 DEF ApplyInv, Written, Kept, Forwards, Undoing
<1>6. Undone'
  BY <1>1, <1>2 DEF ApplyInv, Undone, Undoing, Keys
<1> QED BY <1>3, <1>4, <1>5, <1>6 DEF ApplyInv

LEMMA UndoProfileStep ==
  ASSUME ApplyInv, UndoProfile
  PROVE  ApplyInv'
<1> USE DEF applyVars
<1>1. /\ phase = "undo profile" /\ phase' = "failed"
      /\ profiles' = [profiles EXCEPT ![ProfileOf[staged]] = profile_backup]
      /\ platform' = platform /\ settings' = settings /\ store' = store
      /\ staged' = staged /\ edits' = edits
      /\ old_secrets' = old_secrets /\ profile_backup' = profile_backup
      /\ changed' = changed /\ before' = before
      /\ undoFailed' = undoFailed /\ dirty' = dirty
  BY DEF UndoProfile
<1>2. staged \in Drafts /\ ProfileOf[staged] \in ProfileNames
  BY <1>1, ProfileNamed DEF ApplyInv, SettingsTypeOK
<1>3. profiles' = before.profiles
  <2>1. /\ profiles = [before.profiles EXCEPT ![ProfileOf[staged]] = staged]
        /\ profile_backup = before.profiles[ProfileOf[staged]]
        /\ before.profiles \in Profiles
    BY <1>1 DEF ApplyInv, SettingsTypeOK, Begun, Written, Undoing
  <2> QED BY <1>1, <1>2, <2>1 DEF Profiles
<1>4. SettingsTypeOK'
  BY <1>1, <1>3 DEF ApplyInv, SettingsTypeOK, Phases
<1>5. ~undoFailed => store = before.store
  BY <1>1, StoreIsBefore DEF ApplyInv, Undone, Keys
<1>6. ~undoFailed => AsBefore'
  BY <1>1, <1>3, <1>5 DEF ApplyInv, Begun, AsBefore, Undoing
<1> QED BY <1>1, <1>4, <1>6 DEF ApplyInv, Begun, Written, Undone, Kept,
           Forwards, Undoing

LEMMA HalfRestoredType ==
  ASSUME SettingsTypeOK, phase # "idle", HalfRestored
  PROVE  profiles' \in Profiles /\ (phase # "undo profile" => profiles' = profiles)
<1>1. ProfileOf[staged] \in ProfileNames
  BY ProfileNamed DEF SettingsTypeOK
<1> QED BY <1>1 DEF HalfRestored, SettingsTypeOK, Profiles

LEMMA UndoRaisesStep ==
  ASSUME ApplyInv, UndoRaises
  PROVE  ApplyInv'
<1> USE DEF applyVars
<1>1. /\ platform' = platform /\ settings' = settings /\ store' = store
      /\ staged' = staged /\ edits' = edits
      /\ old_secrets' = old_secrets /\ profile_backup' = profile_backup
      /\ changed' = changed /\ before' = before
      /\ undoFailed' = TRUE /\ dirty' = TRUE
  BY DEF UndoRaises
<1>2. \/ phase \in {"undo custom", "undo tunnel"}
         /\ phase' \in {"undo tunnel", "undo profile"}
      \/ phase = "undo profile" /\ phase' = "failed"
  BY DEF UndoRaises, UndoPhase, Back
<1>3. /\ profiles' \in Profiles
      /\ phase # "undo profile" => profiles' = profiles
  BY <1>2, HalfRestoredType DEF UndoRaises, ApplyInv
<1>4. SettingsTypeOK'
  BY <1>1, <1>2, <1>3 DEF ApplyInv, SettingsTypeOK, Phases
<1>5. Begun'
  BY <1>1, <1>2 DEF ApplyInv, Begun, Final, RequiredFor, Forwards, Undoing
<1>6. Written'
  BY <1>1, <1>2, <1>3 DEF ApplyInv, Written, Forwards, Undoing
<1>7. Undone' /\ Kept'
  BY <1>1, <1>2 DEF Undone, Kept, Undoing
<1> QED BY <1>4, <1>5, <1>6, <1>7 DEF ApplyInv

-----------------------------------------------------------------------------
(***************************************************************************)
(* Its end                                                                 *)
(***************************************************************************)

LEMMA ForgetType ==
  ASSUME Forget
  PROVE  /\ phase' = "idle" /\ phase' \in Phases /\ staged' \in Drafts \union {None}
         /\ edits' \in [Keys -> Edits] /\ old_secrets' \in [Keys -> Stored]
         /\ profile_backup' \in Drafts \union {None, Torn}
         /\ changed' = {} /\ undoFailed' = FALSE
BY DEF Forget, Phases, Edits, Stored

LEMMA ReturnsStep ==
  ASSUME ApplyInv, ApplyReturns
  PROVE  ApplyInv'
<1>1. /\ platform' = platform /\ settings' = settings /\ profiles' = profiles
      /\ store' = store /\ dirty' = dirty /\ before' = Disk
      /\ phase \in {"ok", "failed"} /\ Forget
  BY DEF ApplyReturns
<1>2. /\ before' \in DiskType /\ before'.settings = settings
      /\ before'.profiles = profiles /\ before'.store = store
  BY <1>1, DiskFacts DEF ApplyInv
<1>3. SettingsTypeOK'
  BY <1>1, <1>2, ForgetType DEF ApplyInv, SettingsTypeOK, DiskType
<1>4. dirty \/ Usable(settings, profiles, store)
  BY <1>1 DEF ApplyInv, Kept, Undone, AsBefore
<1>5. phase' = "idle" /\ changed' = {} /\ undoFailed' = FALSE
  BY <1>1, ForgetType
<1>6. AsBefore'
  BY <1>1, <1>2 DEF AsBefore
<1>7. Kept'
  BY <1>1, <1>2, <1>4, <1>5, <1>6 DEF Kept
<1> QED BY <1>3, <1>5, <1>7 DEF ApplyInv, Begun, Written, Undone, Forwards,
           Undoing

LEMMA KilledStep ==
  ASSUME ApplyInv, LauncherKilled
  PROVE  ApplyInv'
<1>1. /\ platform' = platform /\ settings' = settings /\ store' = store
      /\ before' = [Disk EXCEPT !.profiles = profiles']
      /\ dirty' = (dirty \/ before' # before)
      /\ phase \notin {"idle", "ok", "failed"} /\ HalfRestored /\ Forget
  BY DEF LauncherKilled
<1>2. profiles' \in Profiles
  BY <1>1, HalfRestoredType DEF ApplyInv
<1>3. /\ before' \in DiskType /\ before'.settings = settings
      /\ before'.profiles = profiles' /\ before'.store = store
  BY <1>1, <1>2, DiskFacts DEF ApplyInv, DiskType
<1>4. SettingsTypeOK'
  <2>1. dirty' \in BOOLEAN
    BY <1>1
  <2> QED BY <1>1, <1>2, <1>3, <2>1, ForgetType
          DEF ApplyInv, SettingsTypeOK, DiskType
<1>5. phase' = "idle" /\ changed' = {} /\ undoFailed' = FALSE
  BY <1>1, ForgetType
<1>6. AsBefore'
  BY <1>1, <1>3 DEF AsBefore
<1>7. Kept'
  <2>1. ~dirty' => ~dirty /\ before' = before
    BY <1>1
  <2>2. ~dirty => Usable(before.settings, before.profiles, before.store)
    BY <1>1 DEF ApplyInv, Kept
  <2>3. ~dirty' => Usable(before.settings, before.profiles, before.store)'
    BY <2>1, <2>2 DEF Usable
  <2> QED BY <1>5, <1>6, <2>3 DEF Kept
<1> QED BY <1>4, <1>5, <1>7 DEF ApplyInv, Begun, Written, Undone, Forwards,
           Undoing

LEMMA ApplyInvariant == SettingsSpec => []ApplyInv
<1>1. ASSUME ApplyInv, [SettingsNext]_settingsVars
      PROVE  ApplyInv'
  <2>1. CASE UNCHANGED settingsVars
    <3>1. /\ phase' = phase /\ settings' = settings /\ profiles' = profiles
          /\ store' = store /\ staged' = staged /\ edits' = edits
          /\ old_secrets' = old_secrets /\ profile_backup' = profile_backup
          /\ before' = before /\ changed' = changed
          /\ undoFailed' = undoFailed /\ dirty' = dirty /\ platform' = platform
      BY <2>1 DEF settingsVars, applyVars
    <3>2. SettingsTypeOK'
      BY <1>1, <3>1 DEF ApplyInv, SettingsTypeOK
    <3>3. Begun'
      BY <1>1, <3>1 DEF ApplyInv, Begun, Final, RequiredFor
    <3>4. Written' /\ Undone'
      BY <1>1, <3>1 DEF ApplyInv, Written, Undone, Final, AsBefore
    <3>5. Kept'
      BY <1>1, <3>1 DEF ApplyInv, Kept, AsBefore, Usable
    <3> QED BY <3>2, <3>3, <3>4, <3>5 DEF ApplyInv
  <2>2. CASE OpenLauncher
    <3>1. /\ phase' = phase /\ settings' = settings /\ profiles' = profiles
          /\ store' = store /\ staged' = staged /\ edits' = edits
          /\ old_secrets' = old_secrets /\ profile_backup' = profile_backup
          /\ before' = before /\ changed' = changed
          /\ undoFailed' = undoFailed /\ dirty' = dirty
      BY <2>2 DEF OpenLauncher, applyVars
    <3>2. SettingsTypeOK'
      BY <1>1, <2>2, <3>1 DEF OpenLauncher, ApplyInv, SettingsTypeOK
    <3>3. Begun'
      BY <1>1, <3>1 DEF ApplyInv, Begun, Final, RequiredFor
    <3>4. Written' /\ Undone'
      BY <1>1, <3>1 DEF ApplyInv, Written, Undone, Final, AsBefore
    <3>5. Kept'
      BY <1>1, <3>1 DEF ApplyInv, Kept, AsBefore, Usable
    <3> QED BY <3>2, <3>3, <3>4, <3>5 DEF ApplyInv
  <2> QED BY <1>1, <2>1, <2>2, BeginsStep, WriteProfileStep, KeyStep, SaveStep,
             WriteRaisesStep, UndoKeyStep, UndoProfileStep, UndoRaisesStep,
             ReturnsStep, KilledStep DEF SettingsNext
<1>2. ApplyInv /\ [SettingsNext]_settingsVars => ApplyInv'
  BY <1>1
<1> QED BY <1>2, ApplyInvInit, PTL DEF SettingsSpec

-----------------------------------------------------------------------------
\* Every file and key keeps the kind of content it has.
THEOREM SettingsTypeCorrect == SettingsSpec => []SettingsTypeOK
<1>1. ApplyInv => SettingsTypeOK
  BY DEF ApplyInv
<1> QED BY <1>1, ApplyInvariant, PTL

\* An apply that fails at any of its writes, on either platform and whatever
\* it was about to change, has restored the disk, if its rollback has not
\* failed as well.
THEOREM RollbackIsComplete == SettingsSpec => []FailedApplyRestores
<1>1. ApplyInv => FailedApplyRestores
  BY DiskFacts DEF ApplyInv, Undone, FailedApplyRestores
<1> QED BY <1>1, ApplyInvariant, PTL

\* Settings that were applied can be used: no sequence of applies, failures
\* and rollbacks takes away a key they need or leaves another profile behind.
THEOREM AppliedIsUsable == SettingsSpec => []SettingsUsable
<1>1. ASSUME ApplyInv, phase \in {"idle", "ok", "failed"}, ~dirty
      PROVE  Usable(settings, profiles, store)
  BY <1>1 DEF ApplyInv, Undone, Kept, AsBefore
<1>2. ApplyInv => SettingsUsable
  BY <1>1 DEF SettingsUsable, Usable, FirstRunRequired
<1> QED BY <1>2, ApplyInvariant, PTL

-----------------------------------------------------------------------------
(***************************************************************************)
(* Starting and stopping                                                   *)
(*                                                                         *)
(* One thread works at a time, since is_busy is set from the click to the  *)
(* end.  Its start launches a supervisor only where a scan has seen no     *)
(* process of the component, and nothing but a supervisor starts one there *)
(* meanwhile, except a task that is said not to have started and has: then *)
(* the component is doubtful.  Its stop ends a child only when the         *)
(* supervisor above it has been ended or has resisted.                     *)
(***************************************************************************)

\* One thread is between a click and its end, and is_busy says so.
BusyInv ==
    /\ \A b \in Buttons : at[b] # "idle" => is_busy
    /\ \A b, c \in Buttons : at[b] # "idle" /\ at[c] # "idle" => b = c

\* Nobody's parent has a number not given yet, and no supervisor has a parent.
NumbersInv ==
    /\ \A p \in alive \union ended :
          /\ p.by <= generation[p.component]["supervisor"]
          /\ p.role = "supervisor" => p.by = 0
    /\ \A s \in Supervisors(alive) :
          s.n # 0 /\ s.n <= generation[s.component]["supervisor"]

\* The children of a component belong to its supervisor, if it has but one.
FamilyInv ==
    ~blind => \A s \in Supervisors(alive), p \in alive :
        p.role = "child" /\ p.component = s.component =>
            p.by = s.n \/ p.component \in doubtful

\* A supervisor whose child was ended by a stop had resisted before.
ExcuseInv == ~blind => \A s \in Supervisors(alive) : Excused(s)

\* No two supervisors of a component run.
Single(c) == \A r, s \in Supervisors(alive) :
                 r.component = c /\ s.component = c => r = s

\* What a start is about to launch is still missing, but for the component
\* that it tries to launch a second time.
LaunchInv ==
    ~blind => \A b \in Buttons : at[b] \in {"launch", "fallback"} => \A p \in todo[b] :
        /\ \A q \in todo[b] : q.component = p.component => q = p
        /\ \/ StoppedIn(alive, p.component)
           \/ /\ at[b] = "fallback" /\ NextToLaunch(b, p)
              /\ p.component \in doubtful /\ Single(p.component)

\* What a stop has not seen was started behind its back.
SignalInv ==
    ~blind => \A b \in Buttons : at[b] = "signal" =>
        /\ alive \subseteq tree[b] \union reborn
        /\ Supervisors(alive) \subseteq tree[b]
        /\ Supervisors(alive) \subseteq todo[b] \union refused

\* What is inductive.
LauncherInv ==
    /\ LauncherTypeOK /\ BusyInv /\ NumbersInv /\ OneOfEach /\ FamilyInv /\ ExcuseInv
    /\ LaunchInv /\ SignalInv /\ StopLeavesNothingBehind
-----------------------------------------------------------------------------
LEMMA LauncherInvInit == LauncherInit => LauncherInv
<1> SUFFICES ASSUME LauncherInit PROVE LauncherInv
  OBVIOUS
<1>1. LauncherTypeOK
  BY DEF LauncherInit, LauncherTypeOK, Places
<1> QED BY <1>1
        DEF LauncherInit, LauncherInv, BusyInv, NumbersInv, OneOfEach, FamilyInv,
            ExcuseInv, LaunchInv, SignalInv, StopLeavesNothingBehind, Supervisors

\* What is started is a process with a number of its own.
LEMMA StartedProcess ==
  ASSUME LauncherTypeOK, NEW c \in Parts, NEW r \in Roles, NEW by \in Nat
  PROVE  /\ Started(c, r, by) \in Process
         /\ Started(c, r, by).component = c /\ Started(c, r, by).role = r
         /\ Started(c, r, by).by = by
         /\ Started(c, r, by).n = generation[c][r] + 1
         /\ generation[c][r] \in Nat
BY DEF LauncherTypeOK, Process, Started

LEMMA StartsType ==
  ASSUME LauncherTypeOK, NEW p \in Process, Starts(p)
  PROVE  /\ alive' = alive \union {p} /\ alive' \subseteq Process
         /\ generation' \in [Parts -> [Roles -> Nat]]
         /\ generation'[p.component][p.role] = p.n
         /\ \A c \in Parts, r \in Roles : c # p.component \/ r # p.role =>
               generation'[c][r] = generation[c][r]
<1>1. p.component \in Parts /\ p.role \in Roles /\ p.n \in Nat
  BY DEF Process
<1> QED BY <1>1 DEF Starts, LauncherTypeOK

LEMMA EnterType ==
  ASSUME at \in [Buttons -> Places], NEW b \in Buttons, NEW place \in Places,
         Enter(b, place)
  PROVE  /\ at' \in [Buttons -> Places] /\ at'[b] = place
         /\ \A c \in Buttons : c # b => at'[c] = at[c]
BY DEF Enter

\* With nobody starting processes, fewer of them keep all that is said about
\* those there are.
LEMMA FewerAlive ==
  ASSUME LauncherInv, alive' \subseteq alive, ended' = ended,
         UNCHANGED <<generation, refused>>, blind => blind',
         \A p \in alive' : p.component \in doubtful => p.component \in doubtful'
  PROVE  NumbersInv' /\ OneOfEach' /\ FamilyInv' /\ ExcuseInv'
<1>1. NumbersInv' /\ ExcuseInv' /\ FamilyInv'
  BY DEF LauncherInv, NumbersInv, FamilyInv, ExcuseInv, Excused, Supervisors
<1>2. OneOfEach'
  BY DEF LauncherInv, OneOfEach, Supervisors
<1> QED BY <1>1, <1>2

-----------------------------------------------------------------------------
\* A supervisor has one child at a time, and it is one of its own.
LEMMA SupervisorStartsChildStep ==
  ASSUME LauncherInv, NEW s \in alive, SupervisorStartsChild(s)
  PROVE  LauncherInv'
<1> DEFINE p == Started(s.component, "child", s.n)
<1>1. /\ s \in Supervisors(alive) /\ s \in Process /\ s.role = "supervisor"
      /\ s.component \in Parts /\ s.n \in Nat /\ ChildrenOf(s) = {}
  BY DEF SupervisorStartsChild, Supervisors, LauncherInv, LauncherTypeOK, Process
<1>2. /\ p \in Process /\ p.component = s.component /\ p.role = "child"
      /\ p.by = s.n
  BY <1>1, StartedProcess DEF LauncherInv, Roles
<1>3. /\ alive' = alive \union {p} /\ alive' \subseteq Process
      /\ generation' \in [Parts -> [Roles -> Nat]]
      /\ \A c \in Parts : generation'[c]["supervisor"] = generation[c]["supervisor"]
  <2>1. Starts(p)
    BY DEF SupervisorStartsChild
  <2> HIDE DEF p
  <2> QED BY <1>2, <2>1, StartsType DEF LauncherInv, Roles
<1>4. /\ UNCHANGED <<losses, is_busy, clicks, at, tree, todo, refused, ended,
           doubtful, blind>>
      /\ reborn' = IF (\E b \in Buttons : s \in tree[b]) /\ Excused(s)
                   THEN reborn \union {p} ELSE reborn
  BY DEF SupervisorStartsChild
<1> HIDE DEF p
<1>5. LauncherTypeOK'
  BY <1>2, <1>3, <1>4 DEF LauncherInv, LauncherTypeOK
<1>6. Supervisors(alive') = Supervisors(alive)
  BY <1>2, <1>3 DEF Supervisors
<1>7. BusyInv'
  BY <1>4 DEF LauncherInv, BusyInv
<1>8. NumbersInv'
  <2>1. \A q \in alive \union ended : q.component \in Parts
    BY DEF LauncherInv, LauncherTypeOK, Process
  <2>2. s.n <= generation[s.component]["supervisor"]
    BY <1>1 DEF LauncherInv, NumbersInv
  <2> QED BY <1>1, <1>2, <1>3, <1>4, <1>6, <2>1, <2>2
          DEF LauncherInv, NumbersInv, Supervisors
<1>9. OneOfEach' /\ FamilyInv'
  <2> SUFFICES ASSUME ~blind PROVE OneOfEach' /\ FamilyInv'
    BY <1>4 DEF OneOfEach, FamilyInv
  <2>1. \A q \in alive : q.role = "child" /\ q.component = s.component =>
            q.component \in doubtful /\ q.by # s.n
    BY <1>1 DEF LauncherInv, FamilyInv, ChildrenOf
  <2>2. \A r \in Supervisors(alive) : r.component = s.component =>
            r = s \/ s.component \in doubtful
    BY <1>1 DEF LauncherInv, OneOfEach, Supervisors
  <2>3. OneOfEach'
    BY <1>2, <1>3, <1>4, <1>6, <2>1 DEF LauncherInv, OneOfEach
  <2>4. FamilyInv'
    BY <1>2, <1>3, <1>4, <1>6, <2>2 DEF LauncherInv, FamilyInv
  <2> QED BY <2>3, <2>4
<1>10. ExcuseInv'
  BY <1>4, <1>6 DEF LauncherInv, ExcuseInv, Excused
<1>11. LaunchInv'
  BY <1>1, <1>2, <1>3, <1>4, <1>6
     DEF LauncherInv, LaunchInv, StoppedIn, Single, NextToLaunch, Supervisors
<1>12. SignalInv'
  <2> SUFFICES ASSUME ~blind, NEW b \in Buttons, at[b] = "signal"
               PROVE  /\ alive' \subseteq tree[b] \union reborn'
                      /\ Supervisors(alive) \subseteq tree[b]
                      /\ Supervisors(alive) \subseteq todo[b] \union refused
    BY <1>4, <1>6 DEF SignalInv
  <2>1. s \in tree[b] /\ Excused(s)
    BY <1>1 DEF LauncherInv, SignalInv, ExcuseInv
  <2> QED BY <1>3, <1>4, <2>1 DEF LauncherInv, SignalInv
<1>13. StopLeavesNothingBehind'
  BY <1>1, <1>4 DEF LauncherInv, StopLeavesNothingBehind
<1> QED BY <1>5, <1>7, <1>8, <1>9, <1>10, <1>11, <1>12, <1>13 DEF LauncherInv

LEMMA ProcessDiesStep ==
  ASSUME LauncherInv, NEW p \in alive, ProcessDies(p)
  PROVE  LauncherInv'
<1>1. /\ alive' = alive \ {p} /\ losses' = losses + 1
      /\ UNCHANGED <<generation, is_busy, clicks, at, tree, todo, refused, ended,
                     reborn, doubtful, blind>>
  BY DEF ProcessDies, stopHistory
<1>2. LauncherTypeOK'
  BY <1>1 DEF LauncherInv, LauncherTypeOK
<1>3. NumbersInv' /\ OneOfEach' /\ FamilyInv' /\ ExcuseInv'
  BY <1>1, FewerAlive
<1>4. BusyInv' /\ SignalInv' /\ StopLeavesNothingBehind'
  BY <1>1 DEF LauncherInv, BusyInv, SignalInv, Supervisors, StopLeavesNothingBehind
<1>5. LaunchInv'
  BY <1>1 DEF LauncherInv, LaunchInv, StoppedIn, Single, NextToLaunch, Supervisors
<1> QED BY <1>2, <1>3, <1>4, <1>5 DEF LauncherInv

-----------------------------------------------------------------------------
\* A step of the one thread at work.
LEMMA OnlyOneAtWork ==
  ASSUME LauncherInv, NEW b \in Buttons, at[b] # "idle", NEW place \in Places,
         Enter(b, place), is_busy' = is_busy \/ place = "idle"
  PROVE  /\ at' \in [Buttons -> Places] /\ at'[b] = place
         /\ \A c \in Buttons : c # b => at[c] = "idle" /\ at'[c] = "idle"
         /\ BusyInv'
BY EnterType DEF LauncherInv, LauncherTypeOK, BusyInv

LEMMA ClickStep ==
  ASSUME LauncherInv, NEW b \in Buttons, Click(b)
  PROVE  LauncherInv'
<1>1. /\ ~is_busy /\ at[b] = "idle" /\ is_busy' = TRUE /\ clicks' = clicks + 1
      /\ Enter(b, IF b = "start" THEN "check" ELSE "tasks")
      /\ UNCHANGED <<alive, generation, losses, tree, todo, refused, ended, reborn, doubtful, blind>>
  BY DEF Click, MayHandle, stopHistory
<1>2. \A c \in Buttons : at[c] = "idle"
  BY <1>1 DEF LauncherInv, BusyInv
<1>3. /\ at' \in [Buttons -> Places] /\ at'[b] \in {"check", "tasks"}
      /\ \A c \in Buttons : c # b => at'[c] = "idle"
  BY <1>1, <1>2 DEF LauncherInv, LauncherTypeOK, Enter, Places
<1>4. LauncherTypeOK'
  BY <1>1, <1>3 DEF LauncherInv, LauncherTypeOK
<1>5. NumbersInv' /\ OneOfEach' /\ FamilyInv' /\ ExcuseInv'
  BY <1>1, FewerAlive
<1>6. BusyInv' /\ LaunchInv' /\ SignalInv' /\ StopLeavesNothingBehind'
  BY <1>1, <1>3 DEF BusyInv, LaunchInv, SignalInv, StopLeavesNothingBehind
<1> QED BY <1>4, <1>5, <1>6 DEF LauncherInv

\* A thread that moves on without touching a process, to a place about which
\* nothing is said.
LEMMA QuietStep ==
  ASSUME LauncherInv, NEW b \in Buttons, at[b] # "idle",
         NEW place \in Places \ {"launch", "fallback", "signal", "stopped"}, Enter(b, place),
         alive' \subseteq alive, is_busy' = is_busy \/ place = "idle",
         is_busy' \in BOOLEAN,
         tree' \in [Buttons -> SUBSET Process], todo' \in [Buttons -> SUBSET Process],
         UNCHANGED <<generation, losses, clicks, refused, ended, reborn>>,
         blind' \in BOOLEAN, blind => blind', doubtful' \subseteq Parts,
         \A p \in alive' : p.component \in doubtful => p.component \in doubtful'
  PROVE  LauncherInv'
<1>1. /\ at' \in [Buttons -> Places] /\ at'[b] = place
      /\ \A c \in Buttons : c # b => at[c] = "idle" /\ at'[c] = "idle"
      /\ BusyInv'
  BY OnlyOneAtWork
<1>2. LauncherTypeOK'
  BY <1>1 DEF LauncherInv, LauncherTypeOK
<1>3. NumbersInv' /\ OneOfEach' /\ FamilyInv' /\ ExcuseInv'
  BY FewerAlive
<1>4. LaunchInv' /\ SignalInv' /\ StopLeavesNothingBehind'
  BY <1>1 DEF LaunchInv, SignalInv, StopLeavesNothingBehind
<1> QED BY <1>1, <1>2, <1>3, <1>4 DEF LauncherInv

LEMMA ClearBusyStep ==
  ASSUME LauncherInv, NEW b \in Buttons, ClearBusy(b)
  PROVE  LauncherInv'
BY QuietStep DEF ClearBusy, Places, stopHistory, LauncherInv, LauncherTypeOK

LEMMA StopScheduledTasksStep ==
  ASSUME LauncherInv, NEW b \in Buttons, StopScheduledTasks(b)
  PROVE  LauncherInv'
BY QuietStep DEF StopScheduledTasks, Places, stopHistory, LauncherInv, LauncherTypeOK

\* A stop sees all there is, and nothing has come back yet.
LEMMA LocateTreeStep ==
  ASSUME LauncherInv, NEW b \in Buttons, LocateTree(b)
  PROVE  LauncherInv'
<1>1. PICK scan \in Scans :
        /\ blind' = (blind \/ scan # alive)
        /\ tree' = [tree EXCEPT ![b] = scan] /\ todo' = [todo EXCEPT ![b] = scan]
        /\ Enter(b, IF scan = {} THEN "stopped" ELSE "signal")
  BY DEF LocateTree, NotesScan
<1>2. /\ at[b] = "scan" /\ reborn' = {}
      /\ UNCHANGED <<alive, generation, losses, is_busy, clicks, refused, ended,
                     doubtful>>
  BY DEF LocateTree
<1>3. scan \subseteq Process
  BY <1>1 DEF Scans, LauncherInv, LauncherTypeOK
<1>4. /\ at' \in [Buttons -> Places]
      /\ at'[b] = IF scan = {} THEN "stopped" ELSE "signal"
      /\ \A c \in Buttons : c # b => at'[c] = "idle"
      /\ BusyInv'
  <2>1. (IF scan = {} THEN "stopped" ELSE "signal") \in Places
    BY DEF Places
  <2> QED BY <1>1, <1>2, <2>1, OnlyOneAtWork
<1>5. tree'[b] = scan /\ todo'[b] = scan
  BY <1>1 DEF LauncherInv, LauncherTypeOK
<1>6. LauncherTypeOK'
  BY <1>1, <1>2, <1>3, <1>4 DEF LauncherInv, LauncherTypeOK
<1>7. NumbersInv' /\ OneOfEach' /\ FamilyInv' /\ ExcuseInv'
  BY <1>1, <1>2, FewerAlive
<1>8. LaunchInv'
  BY <1>4 DEF LaunchInv
<1>9. ~blind' => scan = alive
  BY <1>1
<1>10. SignalInv'
  BY <1>2, <1>4, <1>5, <1>9 DEF SignalInv, Supervisors
<1>11. StopLeavesNothingBehind'
  BY <1>2, <1>4, <1>9 DEF StopLeavesNothingBehind, Supervisors
<1> QED BY <1>4, <1>6, <1>7, <1>8, <1>10, <1>11 DEF LauncherInv

\* A child is ended only after its supervisor is, or has resisted.
LEMMA TerminateStep ==
  ASSUME LauncherInv, NEW b \in Buttons, NEW p \in todo[b], Terminate(b, p)
  PROVE  LauncherInv'
<1>1. /\ at[b] = "signal" /\ NextToEnd(b, p)
      /\ todo' = [todo EXCEPT ![b] = @ \ {p}]
      /\ UNCHANGED <<generation, losses, is_busy, clicks, at, tree, reborn, doubtful, blind>>
  BY DEF Terminate
<1>2. \/ /\ alive' = alive \ {p} /\ refused' = refused
         /\ ended' = ended \union ({p} \intersect alive)
      \/ /\ p \in alive /\ refused' = refused \union {p}
         /\ alive' = alive /\ ended' = ended
  BY DEF Terminate
<1>3. todo'[b] = todo[b] \ {p} /\ p \in Process
  BY <1>1 DEF LauncherInv, LauncherTypeOK
<1>4. \A c \in Buttons : c # b => at[c] = "idle"
  BY <1>1 DEF LauncherInv, BusyInv
<1>5. LauncherTypeOK'
  BY <1>1, <1>2, <1>3 DEF LauncherInv, LauncherTypeOK
<1>6. NumbersInv' /\ OneOfEach' /\ FamilyInv'
  BY <1>1, <1>2 DEF LauncherInv, NumbersInv, OneOfEach, FamilyInv, Supervisors
<1>7. BusyInv'
  BY <1>1 DEF LauncherInv, BusyInv
<1>8. LaunchInv' /\ StopLeavesNothingBehind'
  BY <1>1, <1>4 DEF LaunchInv, StopLeavesNothingBehind
<1>9. SignalInv'
  BY <1>1, <1>2, <1>3, <1>4 DEF LauncherInv, SignalInv, Supervisors
<1>10. ExcuseInv'
  <2> SUFFICES ASSUME ~blind, NEW s \in Supervisors(alive'), s \notin refused',
                      NEW q \in ended', q.component = s.component, q.by = s.n
               PROVE  FALSE
    BY <1>1 DEF ExcuseInv, Excused
  <2>1. s \in Supervisors(alive) /\ s \notin refused
    BY <1>2 DEF Supervisors
  <2>2. q \notin ended
    BY <2>1 DEF LauncherInv, ExcuseInv, Excused
  <2>3. q = p /\ p \in alive /\ alive' = alive \ {p}
    BY <1>2, <2>2
  <2>4. s \in todo[b]
    BY <1>1, <2>1 DEF LauncherInv, SignalInv
  <2>5. p.role = "supervisor"
    BY <1>1, <2>1, <2>4 DEF NextToEnd, Rank, Supervisors
  <2>6. p.by = 0 /\ s.n # 0
    BY <2>1, <2>3, <2>5 DEF LauncherInv, NumbersInv
  <2> QED BY <2>3, <2>6
<1> QED BY <1>5, <1>6, <1>7, <1>8, <1>9, <1>10 DEF LauncherInv

\* What a stop has verified to be gone was all there was, or has come back.
LEMMA VerifiedStep ==
  ASSUME LauncherInv, NEW b \in Buttons, Verified(b)
  PROVE  LauncherInv'
<1>1. /\ at[b] = "signal" /\ todo[b] = {}
      /\ Enter(b, IF tree[b] \intersect alive = {} THEN "stopped" ELSE "sweep")
      /\ UNCHANGED <<alive, generation, losses, is_busy, clicks, tree, todo,
                     refused, ended, reborn, doubtful, blind>>
  BY DEF Verified, stopHistory
<1>2. CASE tree[b] \intersect alive # {}
  <2>1. "sweep" \in Places \ {"launch", "fallback", "signal", "stopped"} /\ Enter(b, "sweep")
    BY <1>1, <1>2 DEF Places
  <2> QED BY <1>1, <2>1, QuietStep DEF LauncherInv, LauncherTypeOK
<1>3. CASE tree[b] \intersect alive = {}
  <2>1. /\ at' \in [Buttons -> Places] /\ at'[b] = "stopped"
        /\ \A c \in Buttons : c # b => at'[c] = "idle"
        /\ BusyInv'
    BY <1>1, <1>3, OnlyOneAtWork DEF Places
  <2>2. LauncherTypeOK'
    BY <1>1, <2>1 DEF LauncherInv, LauncherTypeOK
  <2>3. NumbersInv' /\ OneOfEach' /\ FamilyInv' /\ ExcuseInv'
    BY <1>1, FewerAlive
  <2>4. ~blind => Supervisors(alive) = {} /\ alive \subseteq reborn
    BY <1>1, <1>3 DEF LauncherInv, SignalInv, Supervisors
  <2>5. LaunchInv' /\ SignalInv' /\ StopLeavesNothingBehind'
    BY <1>1, <2>1, <2>4 DEF LaunchInv, SignalInv, StopLeavesNothingBehind
  <2> QED BY <2>1, <2>2, <2>3, <2>5 DEF LauncherInv
<1> QED BY <1>2, <1>3

LEMMA SweepStep ==
  ASSUME LauncherInv, NEW b \in Buttons, Sweep(b)
  PROVE  LauncherInv'
<1>1. /\ at[b] = "sweep" /\ Enter(b, "rescan") /\ alive' \subseteq alive
      /\ UNCHANGED <<generation, losses, is_busy, clicks, tree, todo, refused,
                     ended, reborn, doubtful, blind>>
  BY DEF Sweep, stopHistory
<1>2. "rescan" \in Places \ {"launch", "fallback", "signal", "stopped"}
  BY DEF Places
<1> QED BY <1>1, <1>2, QuietStep DEF LauncherInv, LauncherTypeOK

LEMMA RescanStep ==
  ASSUME LauncherInv, NEW b \in Buttons, Rescan(b)
  PROVE  LauncherInv'
<1>1. PICK scan \in Scans :
        /\ blind' = (blind \/ scan # alive)
        /\ Enter(b, IF scan = {} THEN "stopped" ELSE "failed")
  BY DEF Rescan, NotesScan
<1>2. /\ at[b] = "rescan"
      /\ UNCHANGED <<alive, generation, losses, is_busy, clicks, tree, todo,
                     refused, ended, reborn, doubtful>>
  BY DEF Rescan, stopHistory
<1>3. CASE scan # {}
  <2>1. "failed" \in Places \ {"launch", "fallback", "signal", "stopped"} /\ Enter(b, "failed")
    BY <1>1, <1>3 DEF Places
  <2> QED BY <1>1, <1>2, <2>1, QuietStep DEF LauncherInv, LauncherTypeOK
<1>4. CASE scan = {}
  <2>1. /\ at' \in [Buttons -> Places] /\ at'[b] = "stopped"
        /\ \A c \in Buttons : c # b => at'[c] = "idle"
        /\ BusyInv'
    BY <1>1, <1>2, <1>4, OnlyOneAtWork DEF Places
  <2>2. LauncherTypeOK'
    BY <1>1, <1>2, <2>1 DEF LauncherInv, LauncherTypeOK
  <2>3. NumbersInv' /\ OneOfEach' /\ FamilyInv' /\ ExcuseInv'
    BY <1>1, <1>2, FewerAlive
  <2>4. ~blind' => alive = {}
    BY <1>1, <1>4
  <2>5. LaunchInv' /\ SignalInv' /\ StopLeavesNothingBehind'
    BY <1>2, <2>1, <2>4 DEF LaunchInv, SignalInv, StopLeavesNothingBehind, Supervisors
  <2> QED BY <2>1, <2>2, <2>3, <2>5 DEF LauncherInv
<1> QED BY <1>3, <1>4

LEMMA StopReturnsStep ==
  ASSUME LauncherInv, NEW b \in Buttons, StopReturns(b)
  PROVE  LauncherInv'
<1> DEFINE place == IF b = "restart" /\ at[b] = "stopped" THEN "check" ELSE "clearing"
<1>1. /\ at[b] \in {"stopped", "failed"} /\ tree' = [tree EXCEPT ![b] = {}]
      /\ Enter(b, place)
      /\ UNCHANGED <<alive, generation, losses, is_busy, clicks, todo, refused,
                     ended, reborn, doubtful, blind>>
  BY DEF StopReturns, stopHistory
<1>2. place \in Places \ {"launch", "fallback", "signal", "stopped"}
  BY DEF Places
<1>3. tree' \in [Buttons -> SUBSET Process]
  BY <1>1 DEF LauncherInv, LauncherTypeOK
<1> HIDE DEF place
<1> QED BY <1>1, <1>2, <1>3, QuietStep DEF LauncherInv, LauncherTypeOK

-----------------------------------------------------------------------------
\* A start launches what it has seen stopped.
LEMMA CheckStatusStep ==
  ASSUME LauncherInv, NEW b \in Buttons, CheckStatus(b)
  PROVE  LauncherInv'
<1>1. /\ at[b] = "check"
      /\ UNCHANGED <<alive, generation, losses, is_busy, clicks, tree, refused,
                     ended, reborn>>
      /\ doubtful' = {d \in doubtful : ~StoppedIn(alive, d)}
  BY DEF CheckStatus
<1>2. /\ doubtful' \subseteq Parts
      /\ \A p \in alive' : p.component \in doubtful => p.component \in doubtful'
  BY <1>1 DEF StoppedIn, LauncherInv, LauncherTypeOK
<1>3. PICK scan \in Scans :
        /\ blind' = (blind \/ scan # alive)
        /\ \/ Enter(b, "clearing") /\ todo' = todo
           \/ /\ Enter(b, "launch")
              /\ todo' = [todo EXCEPT ![b] = {Started(c, "supervisor", 0) :
                                       c \in {d \in Parts : StoppedIn(scan, d)}}]
  BY DEF CheckStatus, NotesScan
<1>4. CASE Enter(b, "clearing") /\ todo' = todo
  <2>1. "clearing" \in Places \ {"launch", "fallback", "signal", "stopped"}
    BY DEF Places
  <2> QED BY <1>1, <1>3, <1>4, <1>2, <2>1, QuietStep DEF LauncherInv, LauncherTypeOK
<1>5. CASE /\ Enter(b, "launch")
           /\ todo' = [todo EXCEPT ![b] = {Started(c, "supervisor", 0) :
                                     c \in {d \in Parts : StoppedIn(scan, d)}}]
  <2>1. /\ at' \in [Buttons -> Places] /\ at'[b] = "launch"
        /\ \A c \in Buttons : c # b => at'[c] = "idle"
        /\ BusyInv'
    BY <1>1, <1>5, OnlyOneAtWork DEF Places
  <2>2. todo'[b] = {Started(c, "supervisor", 0) : c \in {d \in Parts : StoppedIn(scan, d)}}
    BY <1>5 DEF LauncherInv, LauncherTypeOK
  <2>3. \A p \in todo'[b] : \E c \in Parts :
           StoppedIn(scan, c) /\ p = Started(c, "supervisor", 0)
    BY <2>2
  <2>4. \A p \in todo'[b] : /\ p \in Process /\ StoppedIn(scan, p.component)
                            /\ p = Started(p.component, "supervisor", 0)
    BY <2>3, StartedProcess DEF LauncherInv, Roles
  <2>5. LauncherTypeOK'
    <3>1. todo' \in [Buttons -> SUBSET Process]
      <4>1. todo'[b] \subseteq Process
        BY <2>4
      <4> QED BY <1>5, <2>2, <4>1 DEF LauncherInv, LauncherTypeOK
    <3> QED BY <1>1, <1>3, <1>2, <2>1, <3>1 DEF LauncherInv, LauncherTypeOK
  <2>6. NumbersInv' /\ OneOfEach' /\ FamilyInv' /\ ExcuseInv'
    BY <1>1, <1>3, <1>2, FewerAlive
  <2>7. LaunchInv'
    <3>1. \A p, q \in todo'[b] : q.component = p.component => q = p
      BY <2>4
    <3>2. ~blind' => scan = alive
      BY <1>3
    <3> QED BY <1>1, <2>1, <2>4, <3>1, <3>2 DEF LaunchInv
  <2>8. SignalInv' /\ StopLeavesNothingBehind'
    BY <2>1 DEF SignalInv, StopLeavesNothingBehind
  <2> QED BY <2>1, <2>5, <2>6, <2>7, <2>8 DEF LauncherInv
<1> QED BY <1>3, <1>4, <1>5

\* A new supervisor finds its component empty, or with one other if that is
\* doubtful, and has ended nothing.
LEMMA NewSupervisor ==
  ASSUME LauncherInv, NEW c \in Parts, Starts(Started(c, "supervisor", 0)),
         UNCHANGED <<refused, ended, blind>>, doubtful \subseteq doubtful',
         ~blind => StoppedIn(alive, c) \/ (c \in doubtful /\ Single(c))
  PROVE  /\ alive' = alive \union {Started(c, "supervisor", 0)}
         /\ alive' \subseteq Process
         /\ generation' \in [Parts -> [Roles -> Nat]]
         /\ NumbersInv' /\ OneOfEach' /\ FamilyInv' /\ ExcuseInv'
<1> DEFINE s == Started(c, "supervisor", 0)
<1>1. /\ s \in Process /\ s.component = c /\ s.role = "supervisor" /\ s.by = 0
      /\ s.n = generation[c]["supervisor"] + 1
      /\ generation[c]["supervisor"] \in Nat /\ Starts(s)
  BY StartedProcess DEF LauncherInv, Roles
<1> HIDE DEF s
<1>2. /\ alive' = alive \union {s} /\ alive' \subseteq Process
      /\ generation' \in [Parts -> [Roles -> Nat]]
      /\ generation'[c]["supervisor"] = s.n
      /\ \A d \in Parts : d # c =>
            generation'[d]["supervisor"] = generation[d]["supervisor"]
  BY <1>1, StartsType DEF LauncherInv, Roles
<1>3. \A q \in alive \union ended : q.component \in Parts /\ q.by \in Nat /\ q.n \in Nat
  BY DEF LauncherInv, LauncherTypeOK, Process
<1>4. \A d \in Parts : /\ generation[d]["supervisor"] \in Nat
                       /\ generation'[d]["supervisor"] \in Nat
                       /\ generation[d]["supervisor"] <= generation'[d]["supervisor"]
  BY <1>1, <1>2 DEF LauncherInv, LauncherTypeOK, Roles
<1>5. NumbersInv'
  <2>1. ASSUME NEW q \in alive \union ended
        PROVE  /\ q.by <= generation'[q.component]["supervisor"]
               /\ q.role = "supervisor" => q.by = 0
    <3>1. /\ q.by <= generation[q.component]["supervisor"]
          /\ q.role = "supervisor" => q.by = 0
      BY DEF LauncherInv, NumbersInv
    <3>2. /\ generation[q.component]["supervisor"] \in Nat
          /\ generation'[q.component]["supervisor"] \in Nat
          /\ generation[q.component]["supervisor"] <=
                generation'[q.component]["supervisor"]
      BY <1>3, <1>4
    <3>3. q.by \in Nat
      BY <1>3
    <3> QED BY <3>1, <3>2, <3>3
  <2>2. ASSUME NEW q \in Supervisors(alive)
        PROVE  q.n # 0 /\ q.n <= generation'[q.component]["supervisor"]
    <3>1. q.n # 0 /\ q.n <= generation[q.component]["supervisor"]
      BY DEF LauncherInv, NumbersInv
    <3>2. q \in alive
      BY DEF Supervisors
    <3>3. /\ generation[q.component]["supervisor"] \in Nat
          /\ generation'[q.component]["supervisor"] \in Nat
          /\ generation[q.component]["supervisor"] <=
                generation'[q.component]["supervisor"]
      BY <1>3, <1>4, <3>2
    <3>4. q.n \in Nat
      BY <1>3, <3>2
    <3> QED BY <3>1, <3>3, <3>4
  <2>3. s.by <= generation'[s.component]["supervisor"] /\ s.n # 0
        /\ s.n <= generation'[s.component]["supervisor"]
    BY <1>1, <1>2
  <2> QED BY <1>1, <1>2, <2>1, <2>2, <2>3 DEF NumbersInv, Supervisors
<1>6. \A q \in alive : ~blind /\ q.component = c => c \in doubtful /\ Single(c)
  BY DEF StoppedIn
<1>7. Supervisors(alive') = Supervisors(alive) \union {s}
  BY <1>1, <1>2 DEF Supervisors
<1>8. OneOfEach'
  <2> SUFFICES ASSUME ~blind, NEW p \in alive', NEW q \in alive', p # q,
                      p.component = q.component, p.role = q.role
               PROVE  /\ p.component \in doubtful'
                      /\ p.role = "child" => p.by # q.by
                      /\ \A r \in Supervisors(alive') \ {p, q} :
                            p.role = "supervisor" => r.component # p.component
    BY DEF OneOfEach
  <2>1. CASE p \in alive /\ q \in alive
    <3>1. /\ p.component \in doubtful
          /\ p.role = "child" => p.by # q.by
          /\ \A r \in Supervisors(alive) \ {p, q} :
                p.role = "supervisor" => r.component # p.component
      BY <2>1 DEF LauncherInv, OneOfEach
    <3>2. p.role = "supervisor" => p.component # c
      BY <1>6, <2>1 DEF Single, Supervisors
    <3> QED BY <1>1, <1>7, <3>1, <3>2
  <2>2. CASE p = s \/ q = s
    <3>1. PICK o \in alive : {p, q} = {s, o}
      BY <1>2, <2>2
    <3>2. /\ o.component = c /\ o.role = "supervisor" /\ p.component = c
          /\ p.role = "supervisor"
      BY <1>1, <3>1
    <3>3. c \in doubtful /\ Single(c) /\ o \in Supervisors(alive)
      BY <1>6, <3>2 DEF Supervisors
    <3>4. \A r \in Supervisors(alive) : r.component = c => r = o
      BY <3>2, <3>3 DEF Single
    <3> QED BY <1>7, <3>1, <3>2, <3>3, <3>4
  <2> QED BY <1>2, <2>1, <2>2
<1>9. FamilyInv'
  BY <1>1, <1>2, <1>6, <1>7 DEF LauncherInv, FamilyInv
<1>10. ExcuseInv'
  <2>1. \A q \in ended : ~(q.component = s.component /\ q.by = s.n)
    BY <1>1, <1>3 DEF LauncherInv, NumbersInv
  <2> QED BY <1>7, <2>1 DEF LauncherInv, ExcuseInv, Excused
<1> QED BY <1>2, <1>5, <1>8, <1>9, <1>10 DEF s

\* A scheduled task starts in an empty component, or is tried again.
LEMMA LaunchTaskStep ==
  ASSUME LauncherInv, NEW b \in Buttons, NEW p \in todo[b], LaunchTask(b, p)
  PROVE  LauncherInv'
<1> DEFINE s == Started(p.component, "supervisor", 0)
<1>1. PICK reported \in BOOLEAN :
        /\ todo' = IF reported THEN [todo EXCEPT ![b] = @ \ {p}] ELSE todo
        /\ Enter(b, IF reported THEN "launch" ELSE "fallback")
        /\ \/ /\ Starts(s) /\ losses' \in Nat
              /\ doubtful' = IF reported THEN doubtful
                                         ELSE doubtful \union {p.component}
           \/ UNCHANGED <<alive, generation, losses, doubtful>>
  BY DEF LaunchTask, LauncherInv, LauncherTypeOK
<1>2. /\ at[b] = "launch" /\ NextToLaunch(b, p)
      /\ UNCHANGED <<is_busy, clicks, tree, refused, ended, reborn, blind>>
  BY DEF LaunchTask
<1>3. p.component \in Parts /\ p \in Process
  BY DEF LauncherInv, LauncherTypeOK, Process
<1>4. /\ at' \in [Buttons -> Places]
      /\ at'[b] = IF reported THEN "launch" ELSE "fallback"
      /\ \A c \in Buttons : c # b => at'[c] = "idle"
      /\ BusyInv'
  <2>1. (IF reported THEN "launch" ELSE "fallback") \in Places
    BY DEF Places
  <2> QED BY <1>1, <1>2, <2>1, OnlyOneAtWork
<1>5. /\ todo' \in [Buttons -> SUBSET Process]
      /\ todo'[b] = IF reported THEN todo[b] \ {p} ELSE todo[b]
  BY <1>1 DEF LauncherInv, LauncherTypeOK
<1>6. SignalInv' /\ StopLeavesNothingBehind'
  BY <1>4 DEF SignalInv, StopLeavesNothingBehind
<1>7. ~blind => \A q \in todo[b] :
                   /\ StoppedIn(alive, q.component)
                   /\ \A o \in todo[b] : q.component = o.component => q = o
  BY <1>2 DEF LauncherInv, LaunchInv
<1>8. CASE UNCHANGED <<alive, generation, losses, doubtful>>
  <2>1. LauncherTypeOK'
    BY <1>2, <1>4, <1>5, <1>8 DEF LauncherInv, LauncherTypeOK
  <2>2. NumbersInv' /\ OneOfEach' /\ FamilyInv' /\ ExcuseInv'
    BY <1>2, <1>8, FewerAlive
  <2>3. LaunchInv'
    BY <1>2, <1>4, <1>5, <1>7, <1>8 DEF LauncherInv, LaunchInv
  <2> QED BY <1>4, <1>6, <2>1, <2>2, <2>3 DEF LauncherInv
<1>9. CASE /\ Starts(s) /\ losses' \in Nat
           /\ doubtful' = IF reported THEN doubtful
                                      ELSE doubtful \union {p.component}
  <2>1. /\ alive' = alive \union {s} /\ alive' \subseteq Process
        /\ generation' \in [Parts -> [Roles -> Nat]]
        /\ NumbersInv' /\ OneOfEach' /\ FamilyInv' /\ ExcuseInv'
    BY <1>2, <1>3, <1>7, <1>9, NewSupervisor
  <2>2. s.component = p.component /\ s.role = "supervisor"
    BY <1>3, StartedProcess DEF LauncherInv, Roles
  <2> HIDE DEF s
  <2>3. LauncherTypeOK'
    BY <1>2, <1>3, <1>4, <1>5, <1>9, <2>1 DEF LauncherInv, LauncherTypeOK
  <2>4. ~blind => \A q \in todo[b] : q = p \/ StoppedIn(alive', q.component)
    BY <1>7, <2>1, <2>2 DEF StoppedIn
  <2>5. ~blind => Single(p.component)'
    BY <1>7, <2>1, <2>2 DEF StoppedIn, Single, Supervisors
  <2>6. LaunchInv'
    <3>1. CASE reported
      BY <1>2, <1>4, <1>5, <1>7, <2>4, <3>1 DEF LaunchInv
    <3>2. CASE ~reported
      BY <1>2, <1>4, <1>5, <1>7, <1>9, <2>4, <2>5, <3>2 DEF LaunchInv, NextToLaunch
    <3> QED BY <3>1, <3>2
  <2> QED BY <1>4, <1>6, <2>1, <2>3, <2>6 DEF LauncherInv
<1> QED BY <1>1, <1>8, <1>9

\* The second attempt starts what the first has not, or a second supervisor.
LEMMA SpawnSupervisorStep ==
  ASSUME LauncherInv, NEW b \in Buttons, NEW p \in todo[b], SpawnSupervisor(b, p)
  PROVE  LauncherInv'
<1> DEFINE s == Started(p.component, "supervisor", 0)
<1>1. /\ at[b] = "fallback" /\ NextToLaunch(b, p)
      /\ todo' = [todo EXCEPT ![b] = @ \ {p}] /\ Enter(b, "launch")
      /\ UNCHANGED <<losses, is_busy, clicks, tree, refused, ended, reborn,
                     doubtful, blind>>
      /\ Starts(s) \/ UNCHANGED <<alive, generation>>
  BY DEF SpawnSupervisor, stopHistory
<1>2. /\ todo' \in [Buttons -> SUBSET Process] /\ todo'[b] = todo[b] \ {p}
      /\ p.component \in Parts /\ \A q \in todo[b] : q.component \in Parts
  BY <1>1 DEF LauncherInv, LauncherTypeOK, Process
<1>3. /\ at' \in [Buttons -> Places] /\ at'[b] = "launch"
      /\ \A c \in Buttons : c # b => at'[c] = "idle"
      /\ BusyInv'
  BY <1>1, OnlyOneAtWork DEF Places
<1>4. SignalInv' /\ StopLeavesNothingBehind'
  BY <1>3 DEF SignalInv, StopLeavesNothingBehind
<1>5. ~blind => \A q \in todo[b] \ {p} :
        StoppedIn(alive, q.component) /\ q.component # p.component
  <2> SUFFICES ASSUME ~blind, NEW q \in todo[b], q # p
               PROVE  StoppedIn(alive, q.component) /\ q.component # p.component
    OBVIOUS
  <2>1. q.component # p.component
    BY <1>1 DEF LauncherInv, LaunchInv
  <2>2. ~NextToLaunch(b, q)
    BY <1>1, <1>2, <2>1 DEF NextToLaunch, Parts
  <2> QED BY <1>1, <2>1, <2>2 DEF LauncherInv, LaunchInv
<1>6. CASE UNCHANGED <<alive, generation>>
  <2>1. LauncherTypeOK'
    BY <1>1, <1>2, <1>3, <1>6 DEF LauncherInv, LauncherTypeOK
  <2>2. NumbersInv' /\ OneOfEach' /\ FamilyInv' /\ ExcuseInv'
    BY <1>1, <1>6, FewerAlive
  <2>3. LaunchInv'
    BY <1>1, <1>2, <1>3, <1>5, <1>6 DEF LauncherInv, LaunchInv
  <2> QED BY <1>3, <1>4, <2>1, <2>2, <2>3 DEF LauncherInv
<1>7. CASE Starts(s)
  <2>1. ~blind => \/ StoppedIn(alive, p.component)
                  \/ p.component \in doubtful /\ Single(p.component)
    BY <1>1 DEF LauncherInv, LaunchInv
  <2>2. /\ alive' = alive \union {s} /\ alive' \subseteq Process
        /\ generation' \in [Parts -> [Roles -> Nat]]
        /\ NumbersInv' /\ OneOfEach' /\ FamilyInv' /\ ExcuseInv'
    BY <1>1, <1>2, <1>7, <2>1, NewSupervisor
  <2>3. s.component = p.component
    BY <1>2, StartedProcess DEF LauncherInv, Roles
  <2> HIDE DEF s
  <2>4. LauncherTypeOK'
    BY <1>1, <1>2, <1>3, <2>2 DEF LauncherInv, LauncherTypeOK
  <2>5. ~blind => \A q \in todo'[b] : StoppedIn(alive', q.component)
    BY <1>2, <1>5, <2>2, <2>3 DEF StoppedIn
  <2>6. LaunchInv'
    BY <1>1, <1>2, <1>3, <2>5 DEF LauncherInv, LaunchInv
  <2> QED BY <1>3, <1>4, <2>2, <2>4, <2>6 DEF LauncherInv
<1> QED BY <1>1, <1>6, <1>7

LEMMA StartWaitsStep ==
  ASSUME LauncherInv, NEW b \in Buttons,
         Launched(b) \/ StartReturns(b) \/ ThreadRaises(b)
  PROVE  LauncherInv'
<1>1. PICK place \in {"wait", "clearing", "dead"} : at[b] # "idle" /\ Enter(b, place)
  BY DEF Launched, StartReturns, ThreadRaises
<1>2. UNCHANGED <<alive, generation, losses, is_busy, clicks, tree, todo,
                  refused, ended, reborn, doubtful, blind>>
  BY DEF Launched, StartReturns, ThreadRaises, stopHistory
<1>3. place \in Places \ {"launch", "fallback", "signal", "stopped"}
  BY DEF Places
<1> QED BY <1>1, <1>2, <1>3, QuietStep DEF LauncherInv, LauncherTypeOK

LEMMA LauncherInvNext ==
  ASSUME LauncherInv, [LauncherNext]_launcherVars
  PROVE  LauncherInv'
<1>1. ASSUME NEW p \in alive, SupervisorStartsChild(p) PROVE LauncherInv'
  BY <1>1, SupervisorStartsChildStep
<1>2. ASSUME NEW p \in alive, ProcessDies(p) PROVE LauncherInv'
  BY <1>2, ProcessDiesStep
<1>3. ASSUME NEW b \in Buttons,
             Click(b) \/ ClearBusy(b) \/ StopScheduledTasks(b) \/ LocateTree(b)
      PROVE  LauncherInv'
  BY <1>3, ClickStep, ClearBusyStep, StopScheduledTasksStep, LocateTreeStep
<1>4. ASSUME NEW b \in Buttons,
             Verified(b) \/ Sweep(b) \/ Rescan(b) \/ StopReturns(b)
      PROVE  LauncherInv'
  BY <1>4, VerifiedStep, SweepStep, RescanStep, StopReturnsStep
<1>5. ASSUME NEW b \in Buttons,
             CheckStatus(b) \/ Launched(b) \/ StartReturns(b) \/ ThreadRaises(b)
      PROVE  LauncherInv'
  BY <1>5, CheckStatusStep, StartWaitsStep
<1>6. ASSUME NEW b \in Buttons, NEW p \in todo[b],
             Terminate(b, p) \/ LaunchTask(b, p) \/ SpawnSupervisor(b, p)
      PROVE  LauncherInv'
  BY <1>6, TerminateStep, LaunchTaskStep, SpawnSupervisorStep
<1>7. CASE UNCHANGED launcherVars
  BY <1>7 DEF launcherVars, LauncherInv, LauncherTypeOK, BusyInv, NumbersInv,
              OneOfEach, FamilyInv, ExcuseInv, Excused, LaunchInv, StoppedIn,
              Single, NextToLaunch, SignalInv, StopLeavesNothingBehind, Supervisors
<1> QED BY <1>1, <1>2, <1>3, <1>4, <1>5, <1>6, <1>7 DEF LauncherNext

LEMMA LauncherInvariant == LauncherSpec => []LauncherInv
BY LauncherInvInit, LauncherInvNext, PTL DEF LauncherSpec

\* Processes, clicks and what the threads remember keep their types.
THEOREM LauncherTypeCorrect == LauncherSpec => []LauncherTypeOK
<1>1. LauncherInv => LauncherTypeOK
  BY DEF LauncherInv
<1> QED BY <1>1, LauncherInvariant, PTL

\* However clicks, deaths and the supervisors' own restarts interleave, no
\* component ever has two supervisors or two children, as long as no scan of the
\* processes has failed, but for one whose scheduled task has started and was
\* said not to have: that has two at most (launcher/lifecycle.py, start_harbor,
\* start_scheduled_task and restart_harbor).
THEOREM NeverTwoOfAKind == LauncherSpec => []OneOfEach
<1>1. LauncherInv => OneOfEach
  BY DEF LauncherInv
<1> QED BY <1>1, LauncherInvariant, PTL

\* A stop that says it has succeeded leaves no supervisor and no child, but one
\* started since its scan for a reason of the child's own; no component comes
\* back because a stop has ended it (launcher/lifecycle.py, stop_harbor).
THEOREM StoppedIsStopped == LauncherSpec => []StopLeavesNothingBehind
<1>1. LauncherInv => StopLeavesNothingBehind
  BY DEF LauncherInv
<1> QED BY <1>1, LauncherInvariant, PTL
=============================================================================
