------------------------------- MODULE Builder -------------------------------
(***************************************************************************)
(* runnrr/builder.py: the agents that visitors make, as directories under  *)
(* profiles/.  Every handler is a coroutine without an await, so handlers  *)
(* do not interleave; but they write several files, and the process can    *)
(* die between two of them, or while the sweep removes a directory.        *)
(* A token stands for its owner, and for its sha256 in profile.json.       *)
(***************************************************************************)
EXTENDS Naturals, FiniteSets

CONSTANTS
    Slugs, Bundled,     \* profile ids, and those that came with the repository
    Owners, NoToken,    \* callers, with and without a token
    Notes, Hidden,      \* note paths, and those iter_kb_files leaves out (a leading dot)
    Skills,             \* skill slugs
    Absent, Torn,       \* no such file; a file whose writing was cut short
    MaxProfiles, MaxNotes, MaxSkills,
    MaxCuts             \* bound: crashes

ASSUME BuilderAssumption ==
    /\ Bundled \subseteq Slugs /\ Hidden \subseteq Notes
    /\ NoToken \notin Owners /\ Absent # Torn
    /\ IsFiniteSet(Slugs) /\ MaxProfiles \in Nat /\ MaxNotes \in Nat /\ MaxSkills \in Nat
    /\ MaxCuts \in Nat

VARIABLES
    dir,      \* per slug what its directory holds
    mixed,    \* history: slugs that had no owner at first, or whose sweep was cut
    cuts

builderVars == <<dir, mixed, cuts>>

Callers == Owners \cup {NoToken}
Config  == [builder : BOOLEAN, owner : Callers, catalog : BOOLEAN]
Text    == [by : Callers, fresh : BOOLEAN]    \* whose it is; touched within the TTL

\* Absent and Torn are also what can be wrong with catalog.json and system.md.
File == {"whole", Absent, Torn}

\* saved: one of the files that save_profile writes is fresh.  halved is history: the
\* last save was cut.
Directory == [cfg : Config \cup {Absent, Torn}, data : File, system : File,
              saved : BOOLEAN, halved : BOOLEAN,
              notes : [Notes -> Text \cup {Absent}], skills : [Skills -> Text \cup {Absent}]]

\* What is not there is told apart from what is.
ASSUME GapsAssumption ==
    /\ Absent \notin Config /\ Torn \notin Config /\ Absent \notin Text
    /\ "whole" \notin {Absent, Torn}

Nothing == [cfg |-> Absent, data |-> Absent, system |-> Absent, saved |-> FALSE, halved |-> FALSE,
            notes |-> [n \in Notes |-> Absent], skills |-> [k \in Skills |-> Absent]]

Parses(d)    == d.cfg \notin {Absent, Torn}
IsBuilder(d) == Parses(d) /\ d.cfg.builder
Written(f)   == {x \in DOMAIN f : f[x] # Absent}

\* load_profile reads system.md, and the tools catalog.json from data_root: they are
\* there, and whole.
Loads(d) == Parses(d) /\ d.system # Absent /\ (d.cfg.catalog => d.data # Absent)
Whole(d) == d.system = "whole" /\ (d.cfg.catalog => d.data = "whole")

Profiles(ds) == {s \in Slugs : IsBuilder(ds[s])}     \* _count_builder_profiles counts these

Shipped(b, o) ==
    [Nothing EXCEPT !.system = "whole", !.cfg = [builder |-> b, owner |-> o, catalog |-> FALSE]]

\* Profiles of before there were owners have none.
Init ==
    /\ \E legacy \in SUBSET (Slugs \ Bundled) :
         /\ Cardinality(legacy) <= MaxProfiles
         /\ dir = [s \in Slugs |-> IF s \in Bundled THEN Shipped(FALSE, NoToken)
                                   ELSE IF s \in legacy THEN Shipped(TRUE, NoToken) ELSE Nothing]
         /\ mixed = legacy
    /\ cuts = 0

-----------------------------------------------------------------------------
\* _require_editable: a profile.json that does not parse counts as a bundled one's.
Editable(s, caller) ==
    \/ dir[s].cfg = Absent
    \/ IsBuilder(dir[s]) /\ dir[s].cfg.owner \in {NoToken, caller}

\* Fault variant: only profile.json's own age counts.
MutExpired(d) == IsBuilder(d) /\ ~d.saved

\* The newest file is older than the TTL.
Expired(d) ==
    /\ IsBuilder(d) /\ ~d.saved
    /\ \A n \in Written(d.notes) : ~d.notes[n].fresh
    /\ \A k \in Written(d.skills) : ~d.skills[k].fresh

\* Fault variant: notes and skills stay.
MutRemoved(d) == [Nothing EXCEPT !.notes = d.notes, !.skills = d.skills]

Removed(d) == Nothing

Sweep(ds) == [s \in Slugs |-> IF Expired(ds[s]) THEN Removed(ds[s]) ELSE ds[s]]

\* What rmtree leaves of a directory if it is cut: some of its files, among them notes N
\* and skills K.
Remains(d, c, a, y, N, K) ==
    [cfg |-> c, data |-> a, system |-> y, saved |-> FALSE, halved |-> FALSE,
     notes |-> [n \in Notes |-> IF n \in N THEN d.notes[n] ELSE Absent],
     skills |-> [k \in Skills |-> IF k \in K THEN d.skills[k] ELSE Absent]]

\* A file that is opened by one write and whole after the next, being done of them.
InPlace(old, done) == IF done <= 0 THEN old ELSE IF done = 1 THEN Torn ELSE "whole"

\* Fault variant: profile.json is written first.
MutSaved(d, owner, catalog, writes) ==
    [d EXCEPT !.cfg = IF writes = 1 THEN Torn
                      ELSE [builder |-> TRUE, owner |-> owner, catalog |-> catalog],
              !.data = IF catalog THEN InPlace(@, writes - 2) ELSE @,
              !.system = InPlace(@, writes - 4), !.saved = TRUE, !.halved = writes < 6]

\* Fault variant: the file is not flushed before the handler returns.
MutUnflushed(d, owner, catalog, writes) ==
    [d EXCEPT !.data = IF catalog THEN InPlace(@, writes) ELSE @,
              !.system = InPlace(@, writes - 2),
              !.cfg = IF writes >= 5 THEN Torn ELSE @,
              !.saved = catalog \/ writes > 2 \/ @, !.halved = writes < 6]

\* save_profile's writes in their order, each file opened and written in place: the demo
\* catalog if a tool needs one, system.md, then profile.json.
Saved(d, owner, catalog, writes) ==
    [d EXCEPT !.data = IF catalog THEN InPlace(@, writes) ELSE @,
              !.system = InPlace(@, writes - 2),
              !.cfg = IF writes = 6 THEN [builder |-> TRUE, owner |-> owner, catalog |-> catalog]
                      ELSE IF writes = 5 THEN Torn ELSE @,
              !.saved = catalog \/ writes > 2 \/ @, !.halved = writes < 6]

\* Fault variant: a directory that is there is no new profile.
MutIsCreate(s) == dir[s] = Nothing

IsCreate(s) == dir[s].cfg = Absent

Swept(s) == IF IsCreate(s) THEN Sweep(dir) ELSE dir

AtCapacity(s) == IsCreate(s) /\ Cardinality(Profiles(Swept(s))) >= MaxProfiles

SaveProfile(s, o, catalog) ==
    /\ Editable(s, o) /\ ~AtCapacity(s)
    /\ dir' = [Swept(s) EXCEPT ![s] = Saved(@, o, catalog, 6)]
    /\ UNCHANGED <<mixed, cuts>>

\* 503, or 400 for a tool a builder profile may not have; the sweep is done by then.
SaveRefused(s, o) ==
    /\ Editable(s, o)
    /\ dir' = Swept(s)
    /\ UNCHANGED <<mixed, cuts>>

SaveCut(s, o, catalog, writes) ==
    /\ cuts < MaxCuts
    /\ Editable(s, o) /\ ~AtCapacity(s)
    /\ dir' = [Swept(s) EXCEPT ![s] = Saved(@, o, catalog, writes)]
    /\ cuts' = cuts + 1
    /\ UNCHANGED mixed

\* The process dies in rmtree: directory e half removed, others gone or still to come.
SweepCut(s, o, e, done) ==
    /\ cuts < MaxCuts
    /\ Editable(s, o) /\ IsCreate(s)
    /\ e \notin done /\ \A x \in done \cup {e} : Expired(dir[x])
    /\ \E c \in {dir[e].cfg, Absent}, a \in {dir[e].data, Absent}, y \in {dir[e].system, Absent},
          N \in SUBSET Written(dir[e].notes), K \in SUBSET Written(dir[e].skills) :
         dir' = [x \in Slugs |-> IF x = e THEN Remains(dir[e], c, a, y, N, K)
                                 ELSE IF x \in done THEN Nothing ELSE dir[x]]
    /\ mixed' = mixed \cup {e}
    /\ cuts' = cuts + 1

\* _kb_dir and _skills_dir
Keeps(s, caller) == Editable(s, caller) /\ dir[s].cfg # Absent

\* The limit is for a new note only, and counts what list_notes lists.
WriteNote(s, caller, n) ==
    /\ Keeps(s, caller)
    /\ dir[s].notes[n] = Absent => Cardinality(Written(dir[s].notes) \ Hidden) < MaxNotes
    /\ dir' = [dir EXCEPT ![s].notes[n] = [by |-> caller, fresh |-> TRUE]]
    /\ UNCHANGED <<mixed, cuts>>

DeleteNote(s, caller, n) ==
    /\ Keeps(s, caller) /\ dir[s].notes[n] # Absent
    /\ dir' = [dir EXCEPT ![s].notes[n] = Absent]
    /\ UNCHANGED <<mixed, cuts>>

WriteSkill(s, caller, k) ==
    /\ Keeps(s, caller)
    /\ dir[s].skills[k] = Absent => Cardinality(Written(dir[s].skills)) < MaxSkills
    /\ dir' = [dir EXCEPT ![s].skills[k] = [by |-> caller, fresh |-> TRUE]]
    /\ UNCHANGED <<mixed, cuts>>

DeleteSkill(s, caller, k) ==
    /\ Keeps(s, caller) /\ dir[s].skills[k] # Absent
    /\ dir' = [dir EXCEPT ![s].skills[k] = Absent]
    /\ UNCHANGED <<mixed, cuts>>

\* BUILDER_PROFILE_TTL_DAYS pass.
Lapse(t) == IF t = Absent THEN Absent ELSE [t EXCEPT !.fresh = FALSE]

TimePasses ==
    /\ dir' = [s \in Slugs |->
                 [dir[s] EXCEPT !.saved = FALSE,
                                !.notes = [n \in Notes |-> Lapse(@[n])],
                                !.skills = [k \in Skills |-> Lapse(@[k])]]]
    /\ UNCHANGED <<mixed, cuts>>

Next ==
    \/ \E s \in Slugs, o \in Owners :
         \/ \E catalog \in BOOLEAN :
              \/ SaveProfile(s, o, catalog)
              \/ \E writes \in 1 .. 5 : SaveCut(s, o, catalog, writes)
         \/ SaveRefused(s, o)
         \/ \E e \in Slugs, done \in SUBSET Slugs : SweepCut(s, o, e, done)
    \/ \E s \in Slugs, caller \in Callers :
         \/ \E n \in Notes : WriteNote(s, caller, n) \/ DeleteNote(s, caller, n)
         \/ \E k \in Skills : WriteSkill(s, caller, k) \/ DeleteSkill(s, caller, k)
    \/ TimePasses

Spec == Init /\ [][Next]_builderVars

-----------------------------------------------------------------------------
\* The type invariant; a profile.json that does not parse is always a crash's.
TypeOK ==
    /\ dir \in [Slugs -> Directory]
    /\ mixed \subseteq Slugs
    /\ cuts \in 0 .. MaxCuts
    /\ cuts = 0 => \A s \in Slugs : dir[s].cfg # Torn

\* The limits of config.py hold at every moment, whatever crashed before: builder
\* profiles, and in each the notes that are listed and the skills (save_profile,
\* write_note, write_skill).
CapsHold ==
    /\ Cardinality(Profiles(dir)) <= MaxProfiles
    /\ \A s \in Slugs : /\ Cardinality(Written(dir[s].notes) \ Hidden) <= MaxNotes
                        /\ Cardinality(Written(dir[s].skills)) <= MaxSkills

\* Nobody but its owner changes who a profile belongs to: it stays theirs, bundled ones
\* stay bundled, until a save of their own is cut, or a sweep finds no file in it that was
\* written within the TTL (_require_editable, _sweep_expired_builder_profiles).
OwnerKeepsProfile ==
    [][\A s \in Slugs : s \in Bundled \/ (Parses(dir[s]) /\ dir[s].cfg.owner # NoToken) =>
          \/ Parses(dir'[s]) /\ dir'[s].cfg.builder = dir[s].cfg.builder
                             /\ dir'[s].cfg.owner = dir[s].cfg.owner
          \/ s \notin Bundled /\ dir'[s].cfg = Torn
          \/ s \notin Bundled /\ dir'[s].cfg = Absent
               /\ ~dir[s].saved
               /\ \A n \in Written(dir[s].notes) : ~dir[s].notes[n].fresh
               /\ \A k \in Written(dir[s].skills) : ~dir[s].skills[k].fresh]_builderVars

\* What a profile knows was written by its owner: whoever claims a slug again inherits
\* nothing, unless the sweep of the slug was cut, or the profile began without an owner.
TextsAreTheOwners ==
    \A s \in Slugs \ mixed : dir[s].cfg # Torn =>
        \A t \in {dir[s].notes[n] : n \in Written(dir[s].notes)}
                 \cup {dir[s].skills[k] : k \in Written(dir[s].skills)} :
            IsBuilder(dir[s]) /\ t.by = dir[s].cfg.owner

\* A profile.json that parses finds the files it speaks of, a crash in any save
\* notwithstanding, so that load_profile does not fail on it, unless a sweep was cut; and
\* it finds them whole unless the last save was cut, which writes over them in place.
LoadsWhole ==
    \A s \in Slugs \ mixed : Parses(dir[s]) =>
        Loads(dir[s]) /\ (Whole(dir[s]) \/ dir[s].halved)
=============================================================================
