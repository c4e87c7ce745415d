--------------------------- MODULE SettingsApply ----------------------------
(***************************************************************************)
(* Applying a change of the settings in the launcher: the tunnel profile,  *)
(* the two secrets of the credential store and settings.json are four      *)
(* files (or entries of the Windows vault) that change one after the       *)
(* other, settings.json last.  A write that fails is rolled back; a        *)
(* launcher that is killed in between rolls nothing back.                  *)
(***************************************************************************)
CONSTANTS
    Drafts,         \* complete settings, by what tells them apart
    NeedsCustom,    \* those whose route needs the custom API key
    ProfileOf,      \* the profile file each one is rendered to
    Secrets,        \* what a user may enter for a key
    Blank,          \* one of them has only blanks
    None            \* no file, no entry

ASSUME SettingsAssumption ==
    /\ NeedsCustom \subseteq Drafts /\ DOMAIN ProfileOf = Drafts
    /\ Blank \in Secrets /\ None \notin Secrets \union Drafts

VARIABLES
    platform,       \* none before the launcher is opened
    phase,
    settings,       \* settings.json
    profiles,       \* the profile files
    store,          \* the credential store
    staged, edits,  \* what is applied: the settings, and per key a value, or
                    \* "keep" or "clear"
    old_secrets,    \* what the preflight has read of each key
    profile_backup, changed,
    before,         \* history: the disk when this apply began
    undoFailed,     \* history: a step of this apply's rollback failed
    dirty           \* history: an apply was killed or not rolled back, and
                    \* none has succeeded since

applyVars == <<staged, edits, old_secrets, profile_backup, before>>
settingsVars == <<platform, phase, settings, profiles, store, applyVars,
                  changed, undoFailed, dirty>>

Keys == {"tunnel", "custom"}
Phases == {"idle", "profile", "tunnel", "custom", "save", "undo custom",
           "undo tunnel", "undo profile", "ok", "failed"}
ProfileNames == {ProfileOf[d] : d \in Drafts}
Edits == Secrets \union {"keep", "clear"}
Torn == "torn"
Disk == [settings |-> settings, profiles |-> profiles, store |-> store]

SettingsInit ==
    /\ platform = "none" /\ phase = "idle"
    /\ settings = None /\ profiles = [p \in ProfileNames |-> None]
    /\ store = [k \in Keys |-> None]
    /\ staged = None /\ edits = [k \in Keys |-> "keep"]
    /\ old_secrets = [k \in Keys |-> None] /\ profile_backup = None
    /\ changed = {} /\ before = Disk
    /\ undoFailed = FALSE /\ dirty = FALSE

OpenLauncher ==
    /\ platform = "none"
    /\ platform' \in {"windows", "darwin"}
    /\ UNCHANGED <<phase, settings, profiles, store, applyVars, changed,
                   undoFailed, dirty>>

(***************************************************************************)
(* The wizard comes up by itself while the setup is incomplete.            *)
(***************************************************************************)
FirstRunRequired ==
    \/ settings = None
    \/ store["tunnel"] = None
    \/ settings \in NeedsCustom /\ store["custom"] = None

(***************************************************************************)
(* The preflight.  Windows reads every key; macOS looks at a key that      *)
(* stays only when it is required, and does not read it.                   *)
(***************************************************************************)
RequiredFor(d, k) == k = "tunnel" \/ d \in NeedsCustom

AfterEdit(k, edit) == IF edit = "keep" THEN store[k]
                      ELSE IF edit = "clear" THEN None ELSE edit

\* A common error: a required key may not be cleared, but may be missing.
BugPreflightPasses(d, k, edit) == RequiredFor(d, k) => edit # "clear"

PreflightPasses(d, k, edit) ==
    RequiredFor(d, k) =>
        IF platform = "darwin" /\ edit = "keep"
        THEN store[k] # None
        ELSE AfterEdit(k, edit) \notin {None, Blank}

ReadBefore(k, edit) ==
    IF platform = "darwin" /\ edit = "keep" THEN None ELSE store[k]

\* An apply that does not pass writes nothing, and is not a step.
ApplyBegins(d) ==
    /\ phase = "idle" /\ platform # "none"
    /\ \E t, c \in Edits :
        /\ edits' = [k \in Keys |-> IF k = "tunnel" THEN t ELSE c]
        /\ \A k \in Keys : PreflightPasses(d, k, edits'[k])
        /\ old_secrets' = [k \in Keys |-> ReadBefore(k, edits'[k])]
    /\ staged' = d
    /\ profile_backup' = profiles[ProfileOf[d]]
    /\ before' = Disk
    /\ phase' = "profile"
    /\ UNCHANGED <<platform, settings, profiles, store, changed, undoFailed, dirty>>

(***************************************************************************)
(* The writes.  Each replaces its file at once or leaves it as it was.     *)
(***************************************************************************)
Forward(p) == IF p = "tunnel" THEN "custom" ELSE "save"

WriteProfile ==
    /\ phase = "profile"
    /\ \/ /\ profiles' = [profiles EXCEPT ![ProfileOf[staged]] = staged]
          /\ phase' = "tunnel"
       \/ phase' = "failed" /\ UNCHANGED profiles
    /\ UNCHANGED <<platform, settings, store, applyVars, changed, undoFailed, dirty>>

KeepKey(k) ==
    /\ phase = k /\ edits[k] = "keep"
    /\ phase' = Forward(k)
    /\ UNCHANGED <<platform, settings, profiles, store, applyVars, changed,
                   undoFailed, dirty>>

\* The files of macOS take no blank secret, the Windows vault does.
Storable(v) == ~(platform = "darwin" /\ v = Blank)

ChangeKey(k) ==
    /\ phase = k /\ edits[k] # "keep" /\ Storable(edits[k])
    /\ store' = [store EXCEPT ![k] = AfterEdit(k, edits[k])]
    /\ changed' = changed \union {k}
    /\ phase' = Forward(k)
    /\ UNCHANGED <<platform, settings, profiles, applyVars, undoFailed, dirty>>

SaveSettings ==
    /\ phase = "save"
    /\ settings' = staged
    /\ phase' = "ok" /\ dirty' = FALSE
    /\ UNCHANGED <<platform, profiles, store, applyVars, changed, undoFailed>>

WriteRaises ==
    /\ \/ phase = "save"
       \/ phase \in Keys /\ edits[phase] # "keep"
    /\ phase' = "undo custom"
    /\ UNCHANGED <<platform, settings, profiles, store, applyVars, changed,
                   undoFailed, dirty>>

(***************************************************************************)
(* The rollback: the last change first, the profile at the end; a step     *)
(* that fails is passed over.                                              *)
(***************************************************************************)
UndoPhase(k) == IF k = "tunnel" THEN "undo tunnel" ELSE "undo custom"
Back(p) == IF p = "undo custom" THEN "undo tunnel" ELSE "undo profile"

\* A common error: every key gets back what the preflight has read.
BugToUndo == Keys

ToUndo == changed

UndoKey(k) ==
    /\ phase = UndoPhase(k)
    /\ store' = IF k \in ToUndo THEN [store EXCEPT ![k] = old_secrets[k]] ELSE store
    /\ phase' = Back(phase)
    /\ UNCHANGED <<platform, settings, profiles, applyVars, changed, undoFailed, dirty>>

UndoProfile ==
    /\ phase = "undo profile"
    /\ profiles' = [profiles EXCEPT ![ProfileOf[staged]] = profile_backup]
    /\ phase' = "failed"
    /\ UNCHANGED <<platform, settings, store, applyVars, changed, undoFailed, dirty>>

\* Unlike the writes, this one is not atomic.
HalfRestored ==
    \/ UNCHANGED profiles
    \/ /\ phase = "undo profile" /\ profile_backup # None
       /\ profiles' = [profiles EXCEPT ![ProfileOf[staged]] = Torn]

UndoRaises ==
    /\ \/ (\E k \in changed : phase = UndoPhase(k)) /\ phase' = Back(phase)
       \/ phase = "undo profile" /\ phase' = "failed"
    /\ HalfRestored
    /\ undoFailed' = TRUE /\ dirty' = TRUE
    /\ UNCHANGED <<platform, settings, store, applyVars, changed>>

(***************************************************************************)
(* The end of an apply, and of a launcher in the middle of one.            *)
(***************************************************************************)
Forget ==
    /\ phase' = "idle" /\ staged' = None /\ edits' = [k \in Keys |-> "keep"]
    /\ old_secrets' = [k \in Keys |-> None] /\ profile_backup' = None
    /\ changed' = {} /\ undoFailed' = FALSE

ApplyReturns ==
    /\ phase \in {"ok", "failed"}
    /\ Forget
    /\ before' = Disk
    /\ UNCHANGED <<platform, settings, profiles, store, dirty>>

LauncherKilled ==
    /\ phase \notin {"idle", "ok", "failed"}
    /\ HalfRestored
    /\ Forget
    /\ before' = [Disk EXCEPT !.profiles = profiles']
    /\ dirty' = (dirty \/ before' # before)
    /\ UNCHANGED <<platform, settings, store>>

SettingsNext ==
    \/ OpenLauncher \/ \E d \in Drafts : ApplyBegins(d)
    \/ WriteProfile \/ SaveSettings \/ WriteRaises \/ UndoProfile \/ UndoRaises
    \/ \E k \in Keys : KeepKey(k) \/ ChangeKey(k) \/ UndoKey(k)
    \/ ApplyReturns \/ LauncherKilled

SettingsSpec == SettingsInit /\ [][SettingsNext]_settingsVars

-----------------------------------------------------------------------------
Stored == Secrets \union {None}
Profiles == [ProfileNames -> Drafts \union {None, Torn}]

SettingsTypeOK ==
    /\ platform \in {"none", "windows", "darwin"} /\ phase \in Phases
    /\ settings \in Drafts \union {None} /\ profiles \in Profiles
    /\ store \in [Keys -> Stored]
    /\ staged \in Drafts \union {None}
    /\ phase # "idle" => staged \in Drafts
    /\ edits \in [Keys -> Edits] /\ old_secrets \in [Keys -> Stored]
    /\ profile_backup \in Drafts \union {None, Torn}
    /\ changed \subseteq Keys
    /\ before \in [settings : Drafts \union {None}, profiles : Profiles,
                   store : [Keys -> Stored]]
    /\ undoFailed \in BOOLEAN /\ dirty \in BOOLEAN

(***************************************************************************)
(* An apply that fails, at whichever of its writes, leaves the profile,    *)
(* both secrets and the settings as they were, also on macOS, where the    *)
(* secrets that stay are not read; unless the rollback itself fails.       *)
(***************************************************************************)
FailedApplyRestores == phase = "failed" /\ ~undoFailed => Disk = before

(***************************************************************************)
(* Between two applies the settings on disk are usable: the keys they need *)
(* are stored, so that the wizard does not come back by itself, and their  *)
(* profile has been rendered from them.  Only a launcher killed during an  *)
(* apply and a rollback that failed may break this, until an apply         *)
(* succeeds.                                                               *)
(***************************************************************************)
SettingsUsable ==
    phase \in {"idle", "ok", "failed"} /\ settings # None /\ ~dirty =>
        ~FirstRunRequired /\ profiles[ProfileOf[settings]] = settings
=============================================================================
