---------------------------- MODULE Builder_proofs ----------------------------
(***************************************************************************)
(* Proofs about the builder, for any slugs, owners, notes, skills, caps    *)
(* and crashes: typing, caps, ownership, whose texts a profile holds, and  *)
(* that a profile that parses loads.                                       *)
(***************************************************************************)
EXTENDS Builder, FiniteSetTheorems, TLAPS

(***************************************************************************)
(* The inductive invariant is one of each directory, but for the cap on    *)
(* profiles.  Caps come with finiteness; a bundled directory parses and is *)
(* nobody's; and what slugs hold that no crash and no owner of before have *)
(* mixed up rests on every builder profile having an owner.                *)
(***************************************************************************)
Capped(S, max) == IsFiniteSet(S) /\ Cardinality(S) <= max

WithinCaps(d) == Capped(Written(d.notes) \ Hidden, MaxNotes) /\ Capped(Written(d.skills), MaxSkills)

OwnersTexts(d) ==
    d.cfg # Torn =>
        /\ \A n \in Notes : d.notes[n] # Absent => IsBuilder(d) /\ d.notes[n].by = d.cfg.owner
        /\ \A k \in Skills : d.skills[k] # Absent => IsBuilder(d) /\ d.skills[k].by = d.cfg.owner

Pure(d) ==
    /\ IsBuilder(d) => d.cfg.owner # NoToken
    /\ OwnersTexts(d)
    /\ Parses(d) => Loads(d) /\ (Whole(d) \/ d.halved)

DirInv(s, d, mx) ==
    /\ d \in Directory
    /\ WithinCaps(d)
    /\ s \in Bundled => Parses(d) /\ ~d.cfg.builder
    /\ s \in mx \/ Pure(d)

Good(ds, mx) ==
    /\ ds \in [Slugs -> Directory]
    /\ \A s \in Slugs : DirInv(s, ds[s], mx)
    /\ Capped(Profiles(ds), MaxProfiles)

IInv == TypeOK /\ Good(dir, mixed)

-----------------------------------------------------------------------------
(* Sets within a cap.                                                      *)

LEMMA SubsetCapped ==
    ASSUME NEW S, NEW T, NEW max \in Nat, Capped(T, max), S \subseteq T
    PROVE  Capped(S, max)
<1>1. IsFiniteSet(S) /\ Cardinality(S) <= Cardinality(T)
  BY FS_Subset DEF Capped
<1>2. Cardinality(S) \in Nat /\ Cardinality(T) \in Nat
  BY <1>1, FS_CardinalityType DEF Capped
<1> QED
  BY <1>1, <1>2 DEF Capped

LEMMA OneMoreCapped ==
    ASSUME NEW S, NEW T, NEW x, NEW max \in Nat, Capped(T, max), Cardinality(T) < max,
           S \subseteq T \cup {x}
    PROVE  Capped(S, max)
<1>1. IsFiniteSet(T) /\ Cardinality(T) \in Nat
  BY FS_CardinalityType DEF Capped
<1>2. /\ IsFiniteSet(T \cup {x})
      /\ Cardinality(T \cup {x}) = Cardinality(T) \/ Cardinality(T \cup {x}) = Cardinality(T) + 1
  BY <1>1, FS_AddElement
<1>3. Capped(T \cup {x}, max)
  BY <1>1, <1>2 DEF Capped
<1> QED
  BY <1>3, SubsetCapped

LEMMA EmptyCapped == ASSUME NEW max \in Nat PROVE Capped({}, max)
BY FS_EmptySet DEF Capped

-----------------------------------------------------------------------------
(* What the steps make of one directory.                                   *)

LEMMA NothingIsGood ==
    ASSUME NEW s \in Slugs \ Bundled, NEW mx
    PROVE  DirInv(s, Nothing, mx) /\ ~IsBuilder(Nothing)
<1>1. Nothing \in Directory
  BY DEF Nothing, Directory, File
<1>2. Written(Nothing.notes) = {} /\ Written(Nothing.skills) = {}
  BY DEF Nothing, Written
<1>3. WithinCaps(Nothing)
  BY <1>2, EmptyCapped, BuilderAssumption DEF WithinCaps
<1>4. ~Parses(Nothing)
  BY DEF Nothing, Parses
<1>5. Pure(Nothing)
  BY <1>4 DEF Pure, OwnersTexts, IsBuilder, Nothing
<1> QED
  BY <1>1, <1>3, <1>4, <1>5 DEF DirInv, IsBuilder

LEMMA ShippedIsGood ==
    ASSUME NEW s \in Slugs, NEW b \in BOOLEAN, NEW mx,
           b => s \notin Bundled /\ s \in mx
    PROVE  DirInv(s, Shipped(b, NoToken), mx) /\ IsBuilder(Shipped(b, NoToken)) = b
<1> DEFINE d == Shipped(b, NoToken)
           cfg == [builder |-> b, owner |-> NoToken, catalog |-> FALSE]
<1>1. cfg \in Config /\ cfg \notin {Absent, Torn}
  <2>1. cfg \in Config
    BY DEF Config, Callers
  <2> QED
    BY <2>1, GapsAssumption
<1> HIDE DEF cfg
<1>2. /\ d.cfg = cfg /\ d.system = "whole"
      /\ d.notes = [n \in Notes |-> Absent] /\ d.skills = [k \in Skills |-> Absent]
  BY DEF Shipped, Nothing, cfg
<1>3. d \in Directory
  BY <1>1 DEF Shipped, Nothing, Directory, File, cfg
<1>4. Written(d.notes) = {} /\ Written(d.skills) = {}
  BY <1>2 DEF Written
<1>5. WithinCaps(d)
  BY <1>4, EmptyCapped, BuilderAssumption DEF WithinCaps
<1>6. Parses(d) /\ d.cfg.builder = b /\ IsBuilder(d) = b /\ d.cfg.catalog = FALSE
  BY <1>1, <1>2 DEF Parses, IsBuilder, cfg
<1>7. s \in mx \/ Pure(d)
  <2>1. "whole" # Absent
    BY GapsAssumption
  <2> QED
    BY <1>2, <1>6, <2>1 DEF Pure, OwnersTexts, Loads, Whole
<1> QED
  BY <1>3, <1>5, <1>6, <1>7 DEF DirInv

\* A save by a caller who may edit, whole or cut short behind any of its writes.
LEMMA SavedIsGood ==
    ASSUME NEW s \in Slugs, NEW d, NEW mx, DirInv(s, d, mx),
           NEW o \in Owners, NEW catalog \in BOOLEAN, NEW writes \in 1 .. 6,
           d.cfg = Absent \/ (IsBuilder(d) /\ d.cfg.owner \in {NoToken, o})
    PROVE  DirInv(s, Saved(d, o, catalog, writes), mx)
<1> DEFINE e == Saved(d, o, catalog, writes)
           cfg == [builder |-> TRUE, owner |-> o, catalog |-> catalog]
<1>1. cfg \in Config /\ cfg \notin {Absent, Torn} /\ o # NoToken
  <2>1. cfg \in Config
    BY DEF Config, Callers
  <2> QED
    BY <2>1, GapsAssumption, BuilderAssumption
<1>2. d \in Directory /\ WithinCaps(d) /\ s \notin Bundled /\ (s \in mx \/ Pure(d))
  BY DEF DirInv, IsBuilder, Parses
<1>3. /\ e.data = (IF catalog THEN InPlace(d.data, writes) ELSE d.data)
      /\ e.system = InPlace(d.system, writes - 2) /\ e.halved = (writes < 6)
      /\ e.notes = d.notes /\ e.skills = d.skills
      /\ e.cfg = IF writes = 6 THEN cfg ELSE IF writes = 5 THEN Torn ELSE d.cfg
  BY <1>2 DEF Saved, Directory
<1>7. /\ \A old \in File, done \in Int : InPlace(old, done) \in File
      /\ \A old \in File, done \in Int : old # Absent => InPlace(old, done) # Absent
      /\ \A old, done : done \in Int /\ done > 1 => InPlace(old, done) = "whole"
  BY BuilderAssumption, GapsAssumption DEF InPlace, File
<1>4. e \in Directory
  <2>1. InPlace(d.data, writes) \in File /\ InPlace(d.system, writes - 2) \in File
    <3>1. d.data \in File /\ d.system \in File
      BY <1>2 DEF Directory
    <3>2. writes \in Int /\ writes - 2 \in Int
      OBVIOUS
    <3> QED
      BY <1>7, <3>1, <3>2
  <2>2. e = [d EXCEPT !.data = e.data, !.system = e.system, !.cfg = e.cfg,
                      !.saved = catalog \/ writes > 2 \/ @, !.halved = e.halved]
    BY <1>2, <1>3 DEF Saved, Directory
  <2>3. /\ e.data \in File /\ e.system \in File /\ e.cfg \in Config \cup {Absent, Torn}
        /\ e.halved \in BOOLEAN
    BY <1>1, <1>2, <1>3, <2>1 DEF Directory
  <2> HIDE DEF e
  <2> QED
    BY <1>2, <2>2, <2>3 DEF Directory
<1>5. WithinCaps(e)
  BY <1>2, <1>3 DEF WithinCaps
<1>6. ASSUME s \notin mx
      PROVE  Pure(e)
  <2>1. Pure(d)
    BY <1>2, <1>6
  <2>2. IsBuilder(e) => e.cfg.owner # NoToken
    BY <1>1, <1>3, <2>1 DEF Pure, IsBuilder, Parses
  <2>3. Parses(e) => Loads(e) /\ (Whole(e) \/ e.halved)
    <3>1. CASE writes = 6
      <4>1. e.cfg = cfg /\ e.cfg.catalog = catalog
        BY <1>3, <3>1
      <4>2. writes \in Int /\ writes > 1 /\ writes - 2 \in Int /\ writes - 2 > 1
        BY <3>1
      <4>3. e.system = "whole" /\ (catalog => e.data = "whole")
        BY <1>3, <1>7, <4>2
      <4>4. "whole" # Absent
        BY GapsAssumption
      <4> QED
        BY <4>1, <4>3, <4>4 DEF Loads, Whole
    <3>2. CASE writes # 6
      <4> SUFFICES ASSUME Parses(e)
                   PROVE  Loads(e) /\ e.halved
        OBVIOUS
      <4>1. e.halved /\ e.cfg = d.cfg
        <5>1. e.cfg # Torn
          BY DEF Parses
        <5>2. writes < 6 /\ (writes < 6) = TRUE
          BY <3>2
        <5>3. e.halved = TRUE
          BY <1>3, <5>2
        <5>4. e.cfg = d.cfg
          BY <1>3, <3>2, <5>1
        <5> QED
          BY <5>3, <5>4
      <4>2. Parses(d) /\ d.system # Absent /\ (d.cfg.catalog => d.data # Absent)
        BY <2>1, <4>1 DEF Parses, Pure, Loads
      <4>3. d.data \in File /\ d.system \in File
        BY <1>2 DEF Directory
      <4>4. writes \in Int /\ writes - 2 \in Int
        OBVIOUS
      <4>5. e.system # Absent /\ (d.cfg.catalog => e.data # Absent)
        BY <1>3, <1>7, <4>2, <4>3, <4>4
      <4> HIDE DEF e
      <4> QED
        BY <4>1, <4>2, <4>5 DEF Loads, Parses
    <3> QED
      BY <3>1, <3>2
  <2>4. OwnersTexts(e)
    <3>1. CASE d.cfg = Absent
      BY <1>3, <2>1, <3>1, BuilderAssumption DEF Pure, OwnersTexts, IsBuilder, Parses
    <3>2. CASE d.cfg # Absent
      <4>1. IsBuilder(d) /\ d.cfg.owner = o /\ d.cfg # Torn
        BY <2>1, <3>2 DEF Pure, IsBuilder, Parses
      <4>2. e.cfg # Torn => IsBuilder(e) /\ e.cfg.owner = o
        BY <1>1, <1>3, <4>1 DEF IsBuilder, Parses
      <4> QED
        BY <1>3, <2>1, <4>1, <4>2 DEF Pure, OwnersTexts
    <3> QED
      BY <3>1, <3>2
  <2> QED
    BY <2>2, <2>3, <2>4 DEF Pure
<1> QED
  BY <1>2, <1>4, <1>5, <1>6 DEF DirInv

\* One text more, or another one in its place; the cap is for the ones more.
LEMMA TextWritten ==
    ASSUME NEW S, NEW T, NEW f \in [S -> Text \cup {Absent}], NEW x \in S, NEW text \in Text,
           NEW max \in Nat, Capped(Written(f) \ T, max),
           f[x] = Absent => Cardinality(Written(f) \ T) < max
    PROVE  /\ [f EXCEPT ![x] = text] \in [S -> Text \cup {Absent}]
           /\ Capped(Written([f EXCEPT ![x] = text]) \ T, max)
<1> DEFINE g == [f EXCEPT ![x] = text]
<1>3. g \in [S -> Text \cup {Absent}]
  OBVIOUS
<1>1. CASE f[x] = Absent
  <2>1. Written(g) \ T \subseteq (Written(f) \ T) \cup {x}
    BY DEF Written
  <2>2. Cardinality(Written(f) \ T) < max
    BY <1>1
  <2>3. Capped(Written(g) \ T, max)
    BY <2>1, <2>2, OneMoreCapped
  <2> QED
    BY <2>3, <1>3
<1>2. CASE f[x] # Absent
  <2>1. Written(g) \ T \subseteq Written(f) \ T
    BY <1>2 DEF Written
  <2> QED
    BY <2>1, <1>3, SubsetCapped
<1> QED
  BY <1>1, <1>2

\* Fewer texts.
LEMMA TextsGone ==
    ASSUME NEW S, NEW T, NEW f \in [S -> Text \cup {Absent}],
           NEW g \in [S -> Text \cup {Absent}], \A x \in S : f[x] = Absent => g[x] = Absent,
           NEW max \in Nat, Capped(Written(f) \ T, max)
    PROVE  Capped(Written(g) \ T, max)
<1>1. Written(g) \ T \subseteq Written(f) \ T
  BY DEF Written
<1> QED
  BY <1>1, SubsetCapped

LEMMA SameNames == \A S : S \ {} = S
OBVIOUS

\* Whoever may change a profile that has no owner of before is its owner.
LEMMA EditorIsOwner ==
    ASSUME NEW s \in Slugs, Good(dir, mixed), NEW caller \in Callers, Keeps(s, caller)
    PROVE  /\ s \notin Bundled
           /\ s \notin mixed => IsBuilder(dir[s]) /\ dir[s].cfg.owner = caller /\ dir[s].cfg # Torn
<1>1. IsBuilder(dir[s]) /\ dir[s].cfg.owner \in {NoToken, caller}
  BY DEF Keeps, Editable
<1>2. DirInv(s, dir[s], mixed)
  BY DEF Good
<1> QED
  BY <1>1, <1>2 DEF DirInv, Pure, IsBuilder, Parses

\* What is left of a directory keeps the invariant, its slug being mixed from now on.
LEMMA RemainsIsGood ==
    ASSUME NEW s \in Slugs \ Bundled, NEW d, NEW mx, DirInv(s, d, mx),
           NEW c \in {d.cfg, Absent}, NEW a \in {d.data, Absent}, NEW y \in {d.system, Absent},
           NEW N \in SUBSET Written(d.notes), NEW K \in SUBSET Written(d.skills)
    PROVE  DirInv(s, Remains(d, c, a, y, N, K), mx \cup {s})
<1> DEFINE left == Remains(d, c, a, y, N, K)
<1>1. d \in Directory /\ WithinCaps(d)
  BY DEF DirInv
<1>2. left \in Directory
  BY <1>1 DEF Directory, File, Remains
<1>3. left.notes \in [Notes -> Text \cup {Absent}] /\ left.skills \in [Skills -> Text \cup {Absent}]
  BY <1>2 DEF Directory
<1>4. /\ \A n \in Notes : d.notes[n] = Absent => left.notes[n] = Absent
      /\ \A k \in Skills : d.skills[k] = Absent => left.skills[k] = Absent
  BY DEF Remains
<1> HIDE DEF left
<1>5. Capped(Written(left.notes) \ Hidden, MaxNotes)
  <2>1. Capped(Written(d.notes) \ Hidden, MaxNotes)
    BY <1>1 DEF WithinCaps
  <2>2. d.notes \in [Notes -> Text \cup {Absent}] /\ MaxNotes \in Nat
    BY <1>1, BuilderAssumption DEF Directory
  <2> QED
    BY <1>3, <1>4, <2>1, <2>2, TextsGone
<1>6. Capped(Written(left.skills), MaxSkills)
  <2>1. Capped(Written(d.skills) \ {}, MaxSkills)
    BY <1>1, SameNames DEF WithinCaps
  <2>2. Capped(Written(left.skills) \ {}, MaxSkills)
    BY <1>1, <1>3, <1>4, <2>1, TextsGone, BuilderAssumption DEF Directory
  <2> QED
    BY <2>2, SameNames
<1> QED
  BY <1>2, <1>5, <1>6 DEF DirInv, WithinCaps, left

LEMMA LapseKeeps ==
    ASSUME NEW t \in Text \cup {Absent}
    PROVE  /\ Lapse(t) \in Text \cup {Absent}
           /\ Lapse(t) = Absent <=> t = Absent
           /\ t # Absent => Lapse(t).by = t.by
<1>1. CASE t = Absent
  BY <1>1 DEF Lapse
<1>2. CASE t # Absent
  <2>1. Lapse(t) = [t EXCEPT !.fresh = FALSE] /\ t \in Text
    BY <1>2 DEF Lapse
  <2>2. Lapse(t) \in Text /\ Lapse(t).by = t.by
    BY <2>1 DEF Text
  <2> QED
    BY <1>2, <2>2, GapsAssumption
<1> QED
  BY <1>1, <1>2

LEMMA LapsedIsGood ==
    ASSUME NEW s \in Slugs, NEW d, NEW mx, DirInv(s, d, mx), NEW e,
           e = [d EXCEPT !.saved = FALSE,
                         !.notes = [n \in Notes |-> Lapse(@[n])],
                         !.skills = [k \in Skills |-> Lapse(@[k])]]
    PROVE  DirInv(s, e, mx) /\ e.cfg = d.cfg
<1>1. d \in Directory /\ WithinCaps(d)
  BY DEF DirInv
<1>2. /\ d.notes \in [Notes -> Text \cup {Absent}] /\ d.skills \in [Skills -> Text \cup {Absent}]
      /\ e.cfg = d.cfg /\ e.system = d.system /\ e.data = d.data /\ e.halved = d.halved
      /\ e.notes = [n \in Notes |-> Lapse(d.notes[n])]
      /\ e.skills = [k \in Skills |-> Lapse(d.skills[k])]
  BY <1>1 DEF Directory
<1>3. e.notes \in [Notes -> Text \cup {Absent}] /\ e.skills \in [Skills -> Text \cup {Absent}]
  BY <1>2, LapseKeeps
<1>4. e \in Directory
  <2>1. e = [d EXCEPT !.saved = FALSE, !.notes = e.notes, !.skills = e.skills]
    BY <1>1, <1>2 DEF Directory
  <2> QED
    BY <1>1, <1>3, <2>1 DEF Directory
<1>5. Capped(Written(e.notes) \ Hidden, MaxNotes)
  <2>1. \A n \in Notes : d.notes[n] = Absent => e.notes[n] = Absent
    BY <1>2, LapseKeeps
  <2> QED
    BY <1>1, <1>2, <1>3, <2>1, TextsGone, BuilderAssumption DEF WithinCaps
<1>6. Capped(Written(e.skills), MaxSkills)
  <2>1. \A k \in Skills : d.skills[k] = Absent => e.skills[k] = Absent
    BY <1>2, LapseKeeps
  <2>2. Capped(Written(d.skills) \ {}, MaxSkills)
    BY <1>1, SameNames DEF WithinCaps
  <2>3. Capped(Written(e.skills) \ {}, MaxSkills)
    BY <1>2, <1>3, <2>1, <2>2, TextsGone, BuilderAssumption
  <2> QED
    BY <2>3, SameNames
<1>7. ASSUME Pure(d)
      PROVE  Pure(e)
  <2>1. /\ \A n \in Notes : e.notes[n] # Absent => d.notes[n] # Absent /\ e.notes[n].by = d.notes[n].by
        /\ \A k \in Skills : e.skills[k] # Absent => d.skills[k] # Absent /\ e.skills[k].by = d.skills[k].by
    BY <1>2, LapseKeeps
  <2>2. OwnersTexts(e)
    BY <1>2, <1>7, <2>1 DEF Pure, OwnersTexts, IsBuilder, Parses
  <2> QED
    BY <1>2, <1>7, <2>2 DEF Pure, IsBuilder, Parses, Loads, Whole
<1> QED
  BY <1>2, <1>4, <1>5, <1>6, <1>7 DEF DirInv, WithinCaps, Parses

\* Other notes, or other skills: within the cap, and the owner's.
LEMMA NotesReplaced ==
    ASSUME NEW s \in Slugs, NEW d, NEW mx, DirInv(s, d, mx),
           NEW f \in [Notes -> Text \cup {Absent}], Capped(Written(f) \ Hidden, MaxNotes),
           s \notin mx => /\ IsBuilder(d) /\ d.cfg # Torn
                       /\ \A n \in Notes : f[n] # Absent => f[n] = d.notes[n] \/ f[n].by = d.cfg.owner
    PROVE  DirInv(s, [d EXCEPT !.notes = f], mx) /\ [d EXCEPT !.notes = f].cfg = d.cfg
<1> DEFINE e == [d EXCEPT !.notes = f]
<1>1. d \in Directory /\ WithinCaps(d)
  BY DEF DirInv
<1>2. e \in Directory
  BY <1>1 DEF Directory
<1>3. /\ e.cfg = d.cfg /\ e.system = d.system /\ e.data = d.data /\ e.halved = d.halved
      /\ e.notes = f /\ e.skills = d.skills
  BY <1>1 DEF Directory
<1> HIDE DEF e
<1>4. WithinCaps(e)
  BY <1>1, <1>3 DEF WithinCaps
<1>5. ASSUME s \notin mx
      PROVE  Pure(e)
  <2>1. Pure(d)
    BY <1>5 DEF DirInv
  <2>2. OwnersTexts(e)
    BY <1>3, <1>5, <2>1 DEF Pure, OwnersTexts, IsBuilder, Parses
  <2> QED
    BY <1>3, <2>1, <2>2 DEF Pure, IsBuilder, Parses, Loads, Whole
<1>6. s \in Bundled => Parses(e) /\ ~e.cfg.builder
  BY <1>3 DEF DirInv, Parses
<1>7. DirInv(s, e, mx) /\ e.cfg = d.cfg
  BY <1>2, <1>3, <1>4, <1>5, <1>6 DEF DirInv
<1> QED
  BY <1>7 DEF e

LEMMA SkillsReplaced ==
    ASSUME NEW s \in Slugs, NEW d, NEW mx, DirInv(s, d, mx),
           NEW f \in [Skills -> Text \cup {Absent}], Capped(Written(f), MaxSkills),
           s \notin mx => /\ IsBuilder(d) /\ d.cfg # Torn
                       /\ \A k \in Skills : f[k] # Absent => f[k] = d.skills[k] \/ f[k].by = d.cfg.owner
    PROVE  DirInv(s, [d EXCEPT !.skills = f], mx) /\ [d EXCEPT !.skills = f].cfg = d.cfg
<1> DEFINE e == [d EXCEPT !.skills = f]
<1>1. d \in Directory /\ WithinCaps(d)
  BY DEF DirInv
<1>2. e \in Directory
  BY <1>1 DEF Directory
<1>3. /\ e.cfg = d.cfg /\ e.system = d.system /\ e.data = d.data /\ e.halved = d.halved
      /\ e.skills = f /\ e.notes = d.notes
  BY <1>1 DEF Directory
<1> HIDE DEF e
<1>4. WithinCaps(e)
  BY <1>1, <1>3 DEF WithinCaps
<1>5. ASSUME s \notin mx
      PROVE  Pure(e)
  <2>1. Pure(d)
    BY <1>5 DEF DirInv
  <2>2. OwnersTexts(e)
    BY <1>3, <1>5, <2>1 DEF Pure, OwnersTexts, IsBuilder, Parses
  <2> QED
    BY <1>3, <2>1, <2>2 DEF Pure, IsBuilder, Parses, Loads, Whole
<1>6. s \in Bundled => Parses(e) /\ ~e.cfg.builder
  BY <1>3 DEF DirInv, Parses
<1>7. DirInv(s, e, mx) /\ e.cfg = d.cfg
  BY <1>2, <1>3, <1>4, <1>5, <1>6 DEF DirInv
<1> QED
  BY <1>7 DEF e

-----------------------------------------------------------------------------
(* What the steps make of all directories.                                 *)

LEMMA OneChanged ==
    ASSUME NEW ds, NEW mx, Good(ds, mx), NEW s \in Slugs, NEW d, DirInv(s, d, mx),
           IsBuilder(d) => IsBuilder(ds[s]) \/ Cardinality(Profiles(ds)) < MaxProfiles
    PROVE  Good([ds EXCEPT ![s] = d], mx)
<1> DEFINE es == [ds EXCEPT ![s] = d]
<1>1. ds \in [Slugs -> Directory] /\ d \in Directory /\ Capped(Profiles(ds), MaxProfiles)
  BY DEF Good, DirInv
<1>2. /\ es \in [Slugs -> Directory] /\ es[s] = d
      /\ \A x \in Slugs : x # s => es[x] = ds[x]
  BY <1>1
<1> HIDE DEF es
<1>3. \A x \in Slugs : DirInv(x, es[x], mx)
  <2> TAKE x \in Slugs
  <2>1. DirInv(x, ds[x], mx)
    BY DEF Good
  <2> QED
    BY <1>2, <2>1
<1>4. Profiles(es) \subseteq Profiles(ds) \cup {s}
  BY <1>2 DEF Profiles
<1>5. CASE ~IsBuilder(d) \/ IsBuilder(ds[s])
  <2>1. Profiles(es) \subseteq Profiles(ds)
    BY <1>2, <1>5 DEF Profiles
  <2>2. Capped(Profiles(es), MaxProfiles)
    BY <1>1, <2>1, SubsetCapped, BuilderAssumption
  <2> QED
    BY <1>2, <1>3, <2>2 DEF Good, es
<1>6. CASE Cardinality(Profiles(ds)) < MaxProfiles
  <2>1. Capped(Profiles(es), MaxProfiles)
    BY <1>1, <1>4, <1>6, OneMoreCapped, BuilderAssumption
  <2> QED
    BY <1>2, <1>3, <2>1 DEF Good, es
<1> QED
  BY <1>5, <1>6

\* The sweep: every directory stays as it is, or was an expired profile's and is gone.
LEMMA SweptIsGood ==
    ASSUME Good(dir, mixed), NEW s \in Slugs
    PROVE  /\ Good(Swept(s), mixed) /\ Swept(s)[s] = dir[s]
           /\ \A x \in Slugs : Swept(s)[x] = dir[x] \/ (Expired(dir[x]) /\ Swept(s)[x] = Nothing)
<1> DEFINE ds == Swept(s)
<1>1. \A x \in Slugs : /\ dir[x] \in Directory
                       /\ DirInv(x, dir[x], mixed)
                       /\ Expired(dir[x]) => IsBuilder(dir[x]) /\ x \notin Bundled
  BY DEF Good, DirInv, Expired, IsBuilder
<1>2. dir \in [Slugs -> Directory] /\ Capped(Profiles(dir), MaxProfiles)
  BY DEF Good
<1>3. \A x \in Slugs : ds[x] = dir[x] \/ (Expired(dir[x]) /\ ds[x] = Nothing)
  BY DEF Swept, Sweep, Removed
<1>4. \A x \in Slugs : DirInv(x, ds[x], mixed) /\ (IsBuilder(ds[x]) => IsBuilder(dir[x]))
  BY <1>1, <1>3, NothingIsGood
<1>5. ds \in [Slugs -> Directory]
  <2>1. ds = [x \in Slugs |-> ds[x]]
    BY <1>2 DEF Swept, Sweep
  <2>2. \A x \in Slugs : ds[x] \in Directory
    BY <1>4 DEF DirInv
  <2> QED
    BY <2>1, <2>2
<1>6. Capped(Profiles(ds), MaxProfiles)
  <2>1. Profiles(ds) \subseteq Profiles(dir)
    BY <1>4 DEF Profiles
  <2> QED
    BY <1>2, <2>1, SubsetCapped, BuilderAssumption
<1>7. ds[s] = dir[s]
  BY DEF Swept, Sweep, IsCreate, Expired, IsBuilder, Parses
<1> QED
  BY <1>3, <1>4, <1>5, <1>6, <1>7 DEF Good

LEMMA SaveIsGood ==
    ASSUME Good(dir, mixed), NEW s \in Slugs, NEW o \in Owners, NEW catalog \in BOOLEAN,
           NEW writes \in 1 .. 6, Editable(s, o), ~AtCapacity(s)
    PROVE  /\ Good([Swept(s) EXCEPT ![s] = Saved(@, o, catalog, writes)], mixed)
           /\ Swept(s)[s] = dir[s] /\ s \notin Bundled
<1> DEFINE d == Saved(dir[s], o, catalog, writes)
           ds == Swept(s)
<1>1. Good(ds, mixed) /\ ds[s] = dir[s]
  BY SweptIsGood
<1>2. DirInv(s, dir[s], mixed)
  BY DEF Good
<1>3. DirInv(s, d, mixed)
  BY <1>2, SavedIsGood DEF Editable
<1>4. IsBuilder(ds[s]) \/ Cardinality(Profiles(ds)) < MaxProfiles
  <2>1. CASE IsCreate(s)
    <3>1. Cardinality(Profiles(ds)) \in Nat
      BY <1>1, FS_CardinalityType DEF Good, Capped
    <3> QED
      BY <2>1, <3>1, BuilderAssumption DEF AtCapacity
  <2>2. CASE ~IsCreate(s)
    BY <1>1, <2>2 DEF IsCreate, Editable
  <2> QED
    BY <2>1, <2>2
<1>5. s \notin Bundled
  BY <1>2 DEF DirInv, Editable, IsBuilder, Parses
<1> HIDE DEF d, ds
<1>6. Good([ds EXCEPT ![s] = d], mixed)
  BY <1>1, <1>3, <1>4, OneChanged
<1>7. [ds EXCEPT ![s] = Saved(@, o, catalog, writes)] = [ds EXCEPT ![s] = d]
  BY <1>1 DEF d
<1> QED
  BY <1>1, <1>5, <1>6, <1>7 DEF ds

-----------------------------------------------------------------------------
(* The steps.  Of a profile.json, a step leaves it, or sweeps an expired   *)
(* one away, or is a save by one who may edit, and only a crash tears it.  *)

CfgStep ==
    \A x \in Slugs :
        \/ dir'[x].cfg = dir[x].cfg
        \/ Expired(dir[x]) /\ dir'[x].cfg = Absent
        \/ \E o \in Owners :
             /\ Editable(x, o) /\ x \notin Bundled
             /\ \/ dir'[x].cfg = Torn /\ cuts' = cuts + 1
                \/ \E catalog \in BOOLEAN :
                     dir'[x].cfg = [builder |-> TRUE, owner |-> o, catalog |-> catalog]

LEMMA SavedConfig ==
    ASSUME NEW d \in Directory, NEW o, NEW catalog, NEW writes
    PROVE  Saved(d, o, catalog, writes).cfg =
               IF writes = 6 THEN [builder |-> TRUE, owner |-> o, catalog |-> catalog]
               ELSE IF writes = 5 THEN Torn ELSE d.cfg
BY DEF Saved, Directory

LEMMA SaveStep ==
    ASSUME Good(dir, mixed), NEW s \in Slugs, NEW o \in Owners, NEW catalog \in BOOLEAN,
           NEW writes \in 1 .. 6, Editable(s, o), ~AtCapacity(s),
           dir' = [Swept(s) EXCEPT ![s] = Saved(@, o, catalog, writes)], mixed' = mixed,
           writes = 6 \/ cuts' = cuts + 1
    PROVE  Good(dir', mixed') /\ CfgStep
<1>1. Good(dir', mixed') /\ Swept(s)[s] = dir[s] /\ s \notin Bundled
  BY SaveIsGood
<1>2. /\ Swept(s) \in [Slugs -> Directory]
      /\ \A x \in Slugs : Swept(s)[x] = dir[x] \/ (Expired(dir[x]) /\ Swept(s)[x] = Nothing)
  BY SweptIsGood DEF Good
<1>3. dir'[s] = Saved(dir[s], o, catalog, writes) /\ \A x \in Slugs \ {s} : dir'[x] = Swept(s)[x]
  BY <1>1, <1>2
<1>4. dir[s] \in Directory
  BY DEF Good
<1>5. dir'[s].cfg = IF writes = 6 THEN [builder |-> TRUE, owner |-> o, catalog |-> catalog]
                    ELSE IF writes = 5 THEN Torn ELSE dir[s].cfg
  BY <1>3, <1>4, SavedConfig
<1>6. Nothing.cfg = Absent
  BY DEF Nothing
<1>7. CfgStep
  <2> SUFFICES ASSUME NEW x \in Slugs
               PROVE  \/ dir'[x].cfg = dir[x].cfg
                      \/ Expired(dir[x]) /\ dir'[x].cfg = Absent
                      \/ \E oo \in Owners :
                           /\ Editable(x, oo) /\ x \notin Bundled
                           /\ \/ dir'[x].cfg = Torn /\ cuts' = cuts + 1
                              \/ \E cc \in BOOLEAN :
                                   dir'[x].cfg = [builder |-> TRUE, owner |-> oo, catalog |-> cc]
    BY DEF CfgStep
  <2>1. CASE x # s
    BY <1>2, <1>3, <1>6, <2>1
  <2>2. CASE x = s /\ writes = 6
    BY <1>1, <1>5, <2>2
  <2>3. CASE x = s /\ writes = 5
    BY <1>1, <1>5, <2>3
  <2>4. CASE x = s /\ writes \notin {5, 6}
    BY <1>5, <2>4
  <2> QED
    BY <2>1, <2>2, <2>3, <2>4
<1> QED
  BY <1>1, <1>7

LEMMA RefusedStep ==
    ASSUME Good(dir, mixed), NEW s \in Slugs, NEW o \in Owners, SaveRefused(s, o)
    PROVE  Good(dir', mixed') /\ CfgStep
<1>1. dir' = Swept(s) /\ mixed' = mixed
  BY DEF SaveRefused
<1>2. Nothing.cfg = Absent
  BY DEF Nothing
<1>3. /\ Good(Swept(s), mixed)
      /\ \A x \in Slugs : Swept(s)[x] = dir[x] \/ (Expired(dir[x]) /\ Swept(s)[x] = Nothing)
  BY SweptIsGood
<1>4. CfgStep
  BY <1>1, <1>2, <1>3 DEF CfgStep
<1> QED
  BY <1>1, <1>3, <1>4

LEMMA SweepCutStep ==
    ASSUME Good(dir, mixed), NEW s \in Slugs, NEW o \in Owners, NEW e \in Slugs, NEW done \in SUBSET Slugs,
           SweepCut(s, o, e, done)
    PROVE  Good(dir', mixed') /\ CfgStep
<1>1. PICK c \in {dir[e].cfg, Absent}, a \in {dir[e].data, Absent}, y \in {dir[e].system, Absent},
           N \in SUBSET Written(dir[e].notes), K \in SUBSET Written(dir[e].skills) :
        dir' = [x \in Slugs |-> IF x = e THEN Remains(dir[e], c, a, y, N, K)
                                ELSE IF x \in done THEN Nothing ELSE dir[x]]
  BY DEF SweepCut
<1> DEFINE left == Remains(dir[e], c, a, y, N, K)
<1>2. /\ mixed' = mixed \cup {e}
      /\ \A x \in done \cup {e} : Expired(dir[x]) /\ IsBuilder(dir[x])
  BY DEF SweepCut, Expired
<1>3. \A x \in Slugs : DirInv(x, dir[x], mixed) /\ dir[x] \in Directory
  BY DEF Good, DirInv
<1>4. e \notin Bundled /\ \A x \in done : x \in Slugs \ Bundled
  BY <1>2, <1>3 DEF DirInv, IsBuilder
<1>5. DirInv(e, left, mixed') /\ left.cfg = c
  <2>1. DirInv(e, left, mixed \cup {e})
    BY <1>3, <1>4, RemainsIsGood
  <2>2. left.cfg = c
    BY DEF Remains
  <2> QED
    BY <1>2, <2>1, <2>2
<1> HIDE DEF left
<1>6. \A x \in Slugs : \/ x = e /\ dir'[x] = left
                       \/ x # e /\ x \in done /\ dir'[x] = Nothing
                       \/ x # e /\ dir'[x] = dir[x]
  BY <1>1 DEF left
<1>7. \A x \in Slugs : DirInv(x, dir'[x], mixed') /\ (IsBuilder(dir'[x]) => IsBuilder(dir[x]))
  <2> SUFFICES ASSUME NEW x \in Slugs
               PROVE  DirInv(x, dir'[x], mixed') /\ (IsBuilder(dir'[x]) => IsBuilder(dir[x]))
    OBVIOUS
  <2>1. CASE x = e
    BY <1>2, <1>5, <1>6, <2>1
  <2>2. CASE x # e /\ x \in done /\ dir'[x] = Nothing
    BY <1>4, <2>2, NothingIsGood
  <2>3. CASE x # e /\ dir'[x] = dir[x]
    <3>1. DirInv(x, dir[x], mixed) /\ (x \in mixed <=> x \in mixed')
      BY <1>2, <1>3, <2>3
    <3> QED
      BY <2>3, <3>1 DEF DirInv
  <2> QED
    BY <1>6, <2>1, <2>2, <2>3
<1>8. dir' \in [Slugs -> Directory]
  <2>1. \A x \in Slugs : dir'[x] \in Directory
    BY <1>7 DEF DirInv
  <2>2. dir' = [x \in Slugs |-> dir'[x]]
    BY <1>1
  <2> QED
    BY <2>1, <2>2
<1>9. Capped(Profiles(dir'), MaxProfiles)
  <2>1. Profiles(dir') \subseteq Profiles(dir)
    BY <1>7 DEF Profiles
  <2> QED
    BY <2>1, SubsetCapped, BuilderAssumption DEF Good
<1>10. Nothing.cfg = Absent
  BY DEF Nothing
<1>11. CfgStep
  BY <1>2, <1>5, <1>6, <1>10 DEF CfgStep
<1> QED
  BY <1>7, <1>8, <1>9, <1>11 DEF Good

\* A handler of notes or skills replaces one directory and not its profile.json.
LEMMA TextStep ==
    ASSUME Good(dir, mixed), NEW s \in Slugs, NEW d, DirInv(s, d, mixed), d.cfg = dir[s].cfg,
           dir' = [dir EXCEPT ![s] = d], mixed' = mixed
    PROVE  Good(dir', mixed') /\ CfgStep
<1>1. IsBuilder(d) => IsBuilder(dir[s])
  BY DEF IsBuilder, Parses
<1>2. Good(dir', mixed')
  BY <1>1, OneChanged
<1>3. \A x \in Slugs : dir'[x].cfg = dir[x].cfg
  BY DEF Good
<1> QED
  BY <1>2, <1>3 DEF CfgStep

LEMMA NoteStep ==
    ASSUME Good(dir, mixed), NEW s \in Slugs, NEW caller \in Callers, NEW n \in Notes,
           WriteNote(s, caller, n) \/ DeleteNote(s, caller, n)
    PROVE  Good(dir', mixed') /\ CfgStep
<1> DEFINE notes == dir[s].notes
           text == [by |-> caller, fresh |-> TRUE]
<1>1. /\ DirInv(s, dir[s], mixed) /\ dir \in [Slugs -> Directory]
      /\ notes \in [Notes -> Text \cup {Absent}]
      /\ Capped(Written(notes) \ Hidden, MaxNotes)
  BY DEF Good, DirInv, Directory, WithinCaps
<1>2. Keeps(s, caller) /\ mixed' = mixed
  BY DEF WriteNote, DeleteNote
<1>3. s \notin mixed => IsBuilder(dir[s]) /\ dir[s].cfg.owner = caller /\ dir[s].cfg # Torn
  BY <1>2, EditorIsOwner
<1>4. text \in Text /\ text.by = caller
  BY DEF Text
<1>5. PICK f : /\ dir' = [dir EXCEPT ![s] = [dir[s] EXCEPT !.notes = f]]
              /\ f \in [Notes -> Text \cup {Absent}]
              /\ Capped(Written(f) \ Hidden, MaxNotes)
              /\ \A m \in Notes : f[m] # Absent => f[m] = notes[m] \/ f[m].by = caller
  <2>1. CASE WriteNote(s, caller, n)
    <3> DEFINE f == [notes EXCEPT ![n] = text]
    <3>1. dir' = [dir EXCEPT ![s] = [dir[s] EXCEPT !.notes = f]]
      BY <1>1, <2>1 DEF WriteNote
    <3>2. notes[n] = Absent => Cardinality(Written(notes) \ Hidden) < MaxNotes
      BY <2>1 DEF WriteNote
    <3>3. \A m \in Notes : f[m] = notes[m] \/ f[m].by = caller
      BY <1>1, <1>4
    <3> HIDE DEF text, notes
    <3>4. f \in [Notes -> Text \cup {Absent}] /\ Capped(Written(f) \ Hidden, MaxNotes)
      BY <1>1, <1>4, <3>2, TextWritten, BuilderAssumption
    <3> QED
      BY <3>1, <3>3, <3>4
  <2>2. CASE DeleteNote(s, caller, n)
    <3> DEFINE f == [notes EXCEPT ![n] = Absent]
    <3>1. dir' = [dir EXCEPT ![s] = [dir[s] EXCEPT !.notes = f]]
      BY <1>1, <2>2 DEF DeleteNote
    <3>2. /\ f \in [Notes -> Text \cup {Absent}]
          /\ \A m \in Notes : f[m] = notes[m] \/ f[m] = Absent
      BY <1>1
    <3> HIDE DEF notes, f
    <3>3. Capped(Written(f) \ Hidden, MaxNotes)
      BY <1>1, <3>2, TextsGone, BuilderAssumption
    <3> QED
      BY <3>1, <3>2, <3>3
  <2> QED
    BY <2>1, <2>2
<1>6. /\ DirInv(s, [dir[s] EXCEPT !.notes = f], mixed)
      /\ [dir[s] EXCEPT !.notes = f].cfg = dir[s].cfg
  BY <1>1, <1>3, <1>5, NotesReplaced
<1> QED
  BY <1>2, <1>5, <1>6, TextStep

LEMMA SkillStep ==
    ASSUME Good(dir, mixed), NEW s \in Slugs, NEW caller \in Callers, NEW k \in Skills,
           WriteSkill(s, caller, k) \/ DeleteSkill(s, caller, k)
    PROVE  Good(dir', mixed') /\ CfgStep
<1> DEFINE skills == dir[s].skills
           text == [by |-> caller, fresh |-> TRUE]
<1>1. /\ DirInv(s, dir[s], mixed) /\ dir \in [Slugs -> Directory]
      /\ skills \in [Skills -> Text \cup {Absent}]
      /\ Capped(Written(skills) \ {}, MaxSkills)
  BY SameNames DEF Good, DirInv, Directory, WithinCaps
<1>2. Keeps(s, caller) /\ mixed' = mixed
  BY DEF WriteSkill, DeleteSkill
<1>3. s \notin mixed => IsBuilder(dir[s]) /\ dir[s].cfg.owner = caller /\ dir[s].cfg # Torn
  BY <1>2, EditorIsOwner
<1>4. text \in Text /\ text.by = caller
  BY DEF Text
<1>5. PICK f : /\ dir' = [dir EXCEPT ![s] = [dir[s] EXCEPT !.skills = f]]
              /\ f \in [Skills -> Text \cup {Absent}]
              /\ Capped(Written(f) \ {}, MaxSkills)
              /\ \A m \in Skills : f[m] # Absent => f[m] = skills[m] \/ f[m].by = caller
  <2>1. CASE WriteSkill(s, caller, k)
    <3> DEFINE f == [skills EXCEPT ![k] = text]
    <3>1. dir' = [dir EXCEPT ![s] = [dir[s] EXCEPT !.skills = f]]
      BY <1>1, <2>1 DEF WriteSkill
    <3>2. skills[k] = Absent => Cardinality(Written(skills) \ {}) < MaxSkills
      BY <2>1, SameNames DEF WriteSkill
    <3>3. \A m \in Skills : f[m] = skills[m] \/ f[m].by = caller
      BY <1>1, <1>4
    <3> HIDE DEF text, skills
    <3>4. f \in [Skills -> Text \cup {Absent}] /\ Capped(Written(f) \ {}, MaxSkills)
      BY <1>1, <1>4, <3>2, TextWritten, BuilderAssumption
    <3> QED
      BY <3>1, <3>3, <3>4
  <2>2. CASE DeleteSkill(s, caller, k)
    <3> DEFINE f == [skills EXCEPT ![k] = Absent]
    <3>1. dir' = [dir EXCEPT ![s] = [dir[s] EXCEPT !.skills = f]]
      BY <1>1, <2>2 DEF DeleteSkill
    <3>2. /\ f \in [Skills -> Text \cup {Absent}]
          /\ \A m \in Skills : f[m] = skills[m] \/ f[m] = Absent
      BY <1>1
    <3> HIDE DEF skills, f
    <3>3. Capped(Written(f) \ {}, MaxSkills)
      BY <1>1, <3>2, TextsGone, BuilderAssumption
    <3> QED
      BY <3>1, <3>2, <3>3
  <2> QED
    BY <2>1, <2>2
<1>6. /\ DirInv(s, [dir[s] EXCEPT !.skills = f], mixed)
      /\ [dir[s] EXCEPT !.skills = f].cfg = dir[s].cfg
  BY <1>1, <1>3, <1>5, SkillsReplaced, SameNames
<1> QED
  BY <1>2, <1>5, <1>6, TextStep

LEMMA LapseStep ==
    ASSUME Good(dir, mixed), TimePasses
    PROVE  Good(dir', mixed') /\ CfgStep
<1>1. \A x \in Slugs : dir'[x] = [dir[x] EXCEPT !.saved = FALSE,
                                               !.notes = [n \in Notes |-> Lapse(@[n])],
                                               !.skills = [k \in Skills |-> Lapse(@[k])]]
  BY DEF TimePasses
<1>2. \A x \in Slugs : DirInv(x, dir[x], mixed)
  BY DEF Good
<1>3. \A x \in Slugs : DirInv(x, dir'[x], mixed) /\ dir'[x].cfg = dir[x].cfg
  BY <1>1, <1>2, LapsedIsGood
<1>4. dir' \in [Slugs -> Directory]
  <2>1. \A x \in Slugs : dir'[x] \in Directory
    BY <1>3 DEF DirInv
  <2>2. dir' = [x \in Slugs |-> dir'[x]]
    BY DEF TimePasses
  <2> QED
    BY <2>1, <2>2
<1>5. Capped(Profiles(dir'), MaxProfiles)
  <2>1. Profiles(dir') = Profiles(dir)
    BY <1>3 DEF Profiles, IsBuilder, Parses
  <2> QED
    BY <2>1 DEF Good
<1>6. mixed' = mixed
  BY DEF TimePasses
<1> QED
  BY <1>3, <1>4, <1>5, <1>6 DEF Good, CfgStep

LEMMA StepKeeps ==
    ASSUME IInv, [Next]_builderVars
    PROVE  Good(dir', mixed') /\ CfgStep /\ TypeOK'
<1> DEFINE Kept == Good(dir', mixed') /\ CfgStep
           Cuts == \/ cuts' = cuts
                   \/ cuts < MaxCuts /\ cuts' = cuts + 1
           Mix  == mixed' \subseteq Slugs
<1>1. Good(dir, mixed) /\ TypeOK
  BY DEF IInv
<1>2. ASSUME NEW s \in Slugs, NEW o \in Owners, NEW catalog \in BOOLEAN, SaveProfile(s, o, catalog)
      PROVE  Kept /\ Cuts /\ Mix
  <2>1. /\ Editable(s, o) /\ ~AtCapacity(s) /\ mixed' = mixed /\ cuts' = cuts
        /\ dir' = [Swept(s) EXCEPT ![s] = Saved(@, o, catalog, 6)]
    BY <1>2 DEF SaveProfile
  <2>2. 6 \in 1 .. 6
    OBVIOUS
  <2>3. Kept
    BY <1>1, <2>1, <2>2, SaveStep
  <2> QED
    BY <1>1, <2>1, <2>3 DEF TypeOK
<1>3. ASSUME NEW s \in Slugs, NEW o \in Owners, NEW catalog \in BOOLEAN, NEW writes \in 1 .. 5,
             SaveCut(s, o, catalog, writes)
      PROVE  Kept /\ Cuts /\ Mix
  <2>1. writes \in 1 .. 6
    OBVIOUS
  <2> QED
    BY <1>1, <1>3, <2>1, SaveStep DEF SaveCut, TypeOK
<1>4. ASSUME NEW s \in Slugs, NEW o \in Owners, SaveRefused(s, o)
      PROVE  Kept /\ Cuts /\ Mix
  <2>1. Kept
    BY <1>1, <1>4, RefusedStep
  <2> QED
    BY <1>1, <1>4, <2>1 DEF SaveRefused, TypeOK
<1>5. ASSUME NEW s \in Slugs, NEW o \in Owners, NEW e \in Slugs, NEW done \in SUBSET Slugs,
             SweepCut(s, o, e, done)
      PROVE  Kept /\ Cuts /\ Mix
  <2>1. Kept
    BY <1>1, <1>5, SweepCutStep
  <2>2. cuts < MaxCuts /\ cuts' = cuts + 1 /\ mixed' = mixed \cup {e}
    BY <1>5 DEF SweepCut
  <2> QED
    BY <1>1, <2>1, <2>2 DEF TypeOK
<1>6. ASSUME NEW s \in Slugs, NEW caller \in Callers, NEW n \in Notes,
             WriteNote(s, caller, n) \/ DeleteNote(s, caller, n)
      PROVE  Kept /\ Cuts /\ Mix
  <2>1. Kept
    BY <1>1, <1>6, NoteStep
  <2> QED
    BY <1>1, <1>6, <2>1 DEF WriteNote, DeleteNote, TypeOK
<1>7. ASSUME NEW s \in Slugs, NEW caller \in Callers, NEW k \in Skills,
             WriteSkill(s, caller, k) \/ DeleteSkill(s, caller, k)
      PROVE  Kept /\ Cuts /\ Mix
  <2>1. Kept
    BY <1>1, <1>7, SkillStep
  <2> QED
    BY <1>1, <1>7, <2>1 DEF WriteSkill, DeleteSkill, TypeOK
<1>8. ASSUME TimePasses
      PROVE  Kept /\ Cuts /\ Mix
  <2>1. Kept
    BY <1>1, <1>8, LapseStep
  <2> QED
    BY <1>1, <1>8, <2>1 DEF TimePasses, TypeOK
<1>9. ASSUME UNCHANGED builderVars
      PROVE  Kept /\ Cuts /\ Mix
  BY <1>1, <1>9 DEF builderVars, CfgStep, TypeOK
<1> HIDE DEF Kept, Cuts, Mix
<1>10. Kept /\ Cuts /\ Mix
  BY <1>2, <1>3, <1>4, <1>5, <1>6, <1>7, <1>8, <1>9 DEF Next
<1>11. cuts \in 0 .. MaxCuts /\ (cuts = 0 => \A s \in Slugs : dir[s].cfg # Torn)
  BY <1>1 DEF TypeOK
<1>12. cuts' \in 0 .. MaxCuts /\ (cuts' = 0 => cuts = 0)
  BY <1>10, <1>11, BuilderAssumption DEF Cuts
<1>13. CfgStep /\ Good(dir', mixed')
  BY <1>10 DEF Kept
<1>14. cuts' = 0 => \A s \in Slugs : dir'[s].cfg # Torn
  <2> SUFFICES ASSUME cuts' = 0, NEW s \in Slugs
               PROVE  dir'[s].cfg # Torn
    OBVIOUS
  <2>1. cuts = 0 /\ cuts' # cuts + 1
    BY <1>12
  <2>2. \A c \in Config : c # Torn
    BY GapsAssumption
  <2>3. \A o \in Owners, catalog \in BOOLEAN :
           [builder |-> TRUE, owner |-> o, catalog |-> catalog] \in Config
    BY DEF Config, Callers
  <2> QED
    BY <1>11, <1>13, <2>1, <2>2, <2>3, BuilderAssumption DEF CfgStep
<1>15. TypeOK'
  BY <1>10, <1>12, <1>13, <1>14 DEF TypeOK, Good, Mix
<1> QED
  BY <1>13, <1>15

LEMMA StartIsGood == ASSUME Init PROVE IInv
<1>1. PICK legacy \in SUBSET (Slugs \ Bundled) :
        /\ Cardinality(legacy) <= MaxProfiles
        /\ dir = [s \in Slugs |-> IF s \in Bundled THEN Shipped(FALSE, NoToken)
                                  ELSE IF s \in legacy THEN Shipped(TRUE, NoToken) ELSE Nothing]
        /\ mixed = legacy
  BY DEF Init
<1>2. \A s \in Slugs : /\ DirInv(s, dir[s], mixed)
                       /\ IsBuilder(dir[s]) <=> s \in legacy
  <2> SUFFICES ASSUME NEW s \in Slugs
               PROVE  DirInv(s, dir[s], mixed) /\ (IsBuilder(dir[s]) <=> s \in legacy)
    OBVIOUS
  <2>1. CASE s \in Bundled
    BY <1>1, <2>1, ShippedIsGood
  <2>2. CASE s \notin Bundled /\ s \in legacy
    BY <1>1, <2>2, ShippedIsGood
  <2>3. CASE s \notin Bundled /\ s \notin legacy
    BY <1>1, <2>3, NothingIsGood
  <2> QED
    BY <2>1, <2>2, <2>3
<1>3. dir \in [Slugs -> Directory]
  <2>1. \A s \in Slugs : dir[s] \in Directory
    BY <1>2 DEF DirInv
  <2>2. dir = [s \in Slugs |-> dir[s]]
    BY <1>1
  <2> QED
    BY <2>1, <2>2
<1>4. Capped(Profiles(dir), MaxProfiles)
  <2>1. Profiles(dir) = legacy
    BY <1>2 DEF Profiles
  <2>2. IsFiniteSet(legacy)
    BY FS_Subset, BuilderAssumption
  <2> QED
    BY <1>1, <2>1, <2>2 DEF Capped
<1>5. \A s \in Slugs : dir[s].cfg # Torn
  <2>1. Nothing.cfg # Torn
    BY BuilderAssumption DEF Nothing
  <2>2. \A o \in {NoToken}, x \in BOOLEAN : Shipped(x, o).cfg \in Config
    BY DEF Shipped, Nothing, Config, Callers
  <2>3. \A c \in Config : c # Torn
    BY GapsAssumption
  <2> QED
    BY <1>1, <2>1, <2>2, <2>3
<1>6. cuts = 0 /\ mixed \subseteq Slugs
  BY <1>1 DEF Init
<1>7. TypeOK
  BY <1>3, <1>5, <1>6, BuilderAssumption DEF TypeOK
<1> QED
  BY <1>2, <1>3, <1>4, <1>7 DEF IInv, Good

LEMMA InvariantHolds == Spec => []IInv
<1>1. Init => IInv
  BY StartIsGood
<1>2. IInv /\ [Next]_builderVars => IInv'
  BY StepKeeps DEF IInv, Good, DirInv
<1> QED
  BY <1>1, <1>2, PTL DEF Spec

-----------------------------------------------------------------------------
\* Typing: and a profile.json that does not parse is always a crash's, for any number
\* of crashes (the writes of save_profile, and rmtree).
THEOREM TypeCorrect == Spec => []TypeOK
<1>1. IInv => TypeOK
  BY DEF IInv
<1> QED
  BY <1>1, InvariantHolds, PTL

\* Builder profiles, listed notes and skills never exceed the limits of config.py: a
\* profile comes only where there was no profile.json, after the count (save_profile), a
\* text only where there was none, after the count (write_note, write_skill).
THEOREM CapsHoldAlways == Spec => []CapsHold
<1>1. IInv => CapsHold
  BY DEF IInv, Good, DirInv, WithinCaps, Capped, CapsHold
<1> QED
  BY <1>1, InvariantHolds, PTL

\* What a profile knows was written by its owner: only the owner passes
\* _require_editable, and the sweep leaves nothing of a profile but by a crash.
THEOREM TextsHold == Spec => []TextsAreTheOwners
<1>1. IInv => TextsAreTheOwners
  BY DEF IInv, Good, DirInv, Pure, OwnersTexts, TextsAreTheOwners, Written, Directory
<1> QED
  BY <1>1, InvariantHolds, PTL

\* A profile.json that parses finds the files it speaks of, because save_profile writes
\* it last; and finds them whole unless the last save was cut, which leaves the old
\* profile.json beside a file that it was writing over.
THEOREM LoadsWholeHolds == Spec => []LoadsWhole
<1>1. IInv => LoadsWhole
  BY DEF IInv, Good, DirInv, Pure, LoadsWhole
<1> QED
  BY <1>1, InvariantHolds, PTL

\* A profile stays its owner's, and a bundled one bundled, until the owner's own save is
\* cut or the sweep finds it expired.
THEOREM OwnerKeeps == Spec => OwnerKeepsProfile
<1> DEFINE Keeping ==
        \A s \in Slugs : s \in Bundled \/ (Parses(dir[s]) /\ dir[s].cfg.owner # NoToken) =>
          \/ Parses(dir'[s]) /\ dir'[s].cfg.builder = dir[s].cfg.builder
                             /\ dir'[s].cfg.owner = dir[s].cfg.owner
          \/ s \notin Bundled /\ dir'[s].cfg = Torn
          \/ s \notin Bundled /\ dir'[s].cfg = Absent
               /\ ~dir[s].saved
               /\ \A n \in Written(dir[s].notes) : ~dir[s].notes[n].fresh
               /\ \A k \in Written(dir[s].skills) : ~dir[s].skills[k].fresh
<1>1. ASSUME IInv, [Next]_builderVars
      PROVE  Keeping
  <2> SUFFICES ASSUME NEW s \in Slugs,
                      s \in Bundled \/ (Parses(dir[s]) /\ dir[s].cfg.owner # NoToken)
               PROVE  \/ Parses(dir'[s]) /\ dir'[s].cfg.builder = dir[s].cfg.builder
                                         /\ dir'[s].cfg.owner = dir[s].cfg.owner
                      \/ s \notin Bundled /\ dir'[s].cfg = Torn
                      \/ s \notin Bundled /\ dir'[s].cfg = Absent /\ Expired(dir[s])
    BY DEF Expired
  <2>1. /\ DirInv(s, dir[s], mixed)
        /\ Parses(dir[s])
    BY <1>1 DEF IInv, Good, DirInv
  <2>2. \/ dir'[s].cfg = dir[s].cfg
        \/ Expired(dir[s]) /\ dir'[s].cfg = Absent
        \/ \E o \in Owners :
             /\ Editable(s, o) /\ s \notin Bundled
             /\ \/ dir'[s].cfg = Torn
                \/ \E catalog \in BOOLEAN :
                     dir'[s].cfg = [builder |-> TRUE, owner |-> o, catalog |-> catalog]
    BY <1>1, StepKeeps DEF CfgStep
  <2>3. CASE dir'[s].cfg = dir[s].cfg
    BY <2>1, <2>3 DEF Parses
  <2>4. CASE Expired(dir[s]) /\ dir'[s].cfg = Absent
    BY <2>1, <2>4 DEF DirInv, Expired, IsBuilder
  <2>5. ASSUME NEW o \in Owners, Editable(s, o), s \notin Bundled, NEW catalog \in BOOLEAN,
               dir'[s].cfg = [builder |-> TRUE, owner |-> o, catalog |-> catalog]
        PROVE  Parses(dir'[s]) /\ dir'[s].cfg.builder = dir[s].cfg.builder
                               /\ dir'[s].cfg.owner = dir[s].cfg.owner
    <3>1. dir'[s].cfg \in Config
      BY <2>5 DEF Config, Callers
    <3>2. dir'[s].cfg \notin {Absent, Torn}
      BY <3>1, GapsAssumption
    <3>3. dir[s].cfg \in Config
      BY <2>1 DEF DirInv, Directory, Parses
    <3>4. dir[s].cfg.builder /\ dir[s].cfg.owner = o
      BY <2>1, <2>5 DEF Editable, IsBuilder, Parses
    <3>5. dir[s].cfg.builder = TRUE
      BY <3>3, <3>4 DEF Config
    <3> QED
      BY <2>5, <3>2, <3>4, <3>5 DEF Parses
  <2> QED
    BY <2>2, <2>3, <2>4, <2>5
<1>2. IInv /\ [Next]_builderVars => [Keeping]_builderVars
  BY <1>1
<1> QED
  BY <1>2, InvariantHolds, PTL DEF Spec, OwnerKeepsProfile
=============================================================================
