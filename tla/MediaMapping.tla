----------------------------- MODULE MediaMapping ------------------------------
(***************************************************************************)
(* The canonical media block of a release (src/musicbrainz/media.rs), as   *)
(* operators on a raw dump line and the vendored vocabulary v.             *)
(*                                                                         *)
(* A list that the code filters is a function on the positions that stay,  *)
(* so the order of the source is kept; a list that it sorts and            *)
(* de-duplicates is a set.  A medium of the vocabulary is a pair           *)
(* <<prefix, kind>>, spelled prefix_kind in the code.  Fields that are     *)
(* copied (position, track_count) or constant (qty, appearance, provider)  *)
(* are left out.                                                           *)
(***************************************************************************)
EXTENDS Integers, FiniteSetsExt

CONSTANTS None,   \* the None of an Option, and a key that a JSON object lacks
          Bare    \* a string, number, array or null where an object belongs

Attributes == {"size_inches", "speed_rpm", "channels", "codec"}

\* An entry of each format, a family's resolve rule, the media with their
\* family and defaults, and one table for each enumeration of a release.  An
\* entry means a medium, a family, a container or a flag, and what it names is
\* among the media.
IsVocabulary(v) ==
  /\ \A name \in DOMAIN v.formats :
       LET entry == v.formats[name] IN
       /\ entry.medium # None => entry.family = None /\ entry.medium \in DOMAIN v.media
       /\ entry.medium = None /\ entry.family = None =>
            entry.container # None \/ entry.flag # None
  /\ \A f \in {v.formats[name].family : name \in DOMAIN v.formats} \ {None} :
       LET rule == IF f \in DOMAIN v.families THEN v.families[f] ELSE None
           resolved == IF rule = None THEN {} ELSE {rule.map[a] : a \in DOMAIN rule.map}
       IN  /\ rule # None => rule.attribute \in Attributes
           /\ \A m \in resolved \cup {<<f, "unspecified">>} :
                m \in DOMAIN v.media /\ v.media[m].family = f
  /\ <<"other", "unspecified">> \in DOMAIN v.media
  /\ \A m \in DOMAIN v.media :
       /\ None \notin {m, v.media[m].family}
       /\ DOMAIN v.media[m].defaults \subseteq Attributes
       /\ \A a \in DOMAIN v.media[m].defaults : v.media[m].defaults[a] # None
  /\ None \notin UNION {DOMAIN v.formats, DOMAIN v.status, DOMAIN v.packaging,
                        DOMAIN v.primaryTypes, DOMAIN v.secondaryTypes}

NewItem(name) == [family     |-> None,
                  medium     |-> None,
                  variants   |-> {},
                  attributes |-> [a \in Attributes |-> None],
                  source     |-> name]

\* A medium that states no format is an item of unknown kind.  A container or a
\* flag states a fact of the release, and a format that the vocabulary does not
\* know is listed as unmapped: neither is an item.
StatesItem(name, v) ==
  \/ name = None
  \/ name \in DOMAIN v.formats /\ {v.formats[name].family, v.formats[name].medium} # {None}

ApplyFormatEntry(entry, item) ==
  [item EXCEPT !.medium   = entry.medium,
               !.family   = entry.family,
               !.variants = {entry.variant} \ {None}]

\* What a family that was named without a medium resolves to.
ResolvedMedium(item, v) ==
  LET rule == IF item.family \in DOMAIN v.families THEN v.families[item.family] ELSE None
  IN  IF rule # None /\ item.attributes[rule.attribute] \in DOMAIN rule.map
      THEN rule.map[item.attributes[rule.attribute]]
      ELSE <<item.family, "unspecified">>

\* A medium's defaults fill what the source has not stated.
Filled(attributes, defaults) ==
  [a \in Attributes |->
     IF attributes[a] = None /\ a \in DOMAIN defaults THEN defaults[a] ELSE attributes[a]]

\* Mutant: an item keeps the family of its entry, and none if it names a medium.
FinishWithoutFamily(item, v) ==
  IF item.medium = None THEN [item EXCEPT !.medium = ResolvedMedium(item, v)] ELSE item

FinishItem(item, v) ==
  LET familyKnown == item.medium # None /\ item.family = None /\ item.medium \in DOMAIN v.media
      family == IF familyKnown THEN v.media[item.medium].family ELSE item.family
      medium == IF item.medium = None /\ family # None
                THEN ResolvedMedium(item, v) ELSE item.medium
  IN  [item EXCEPT !.family = family,
                   !.medium = medium,
                   !.attributes = IF medium \in DOMAIN v.media
                                  THEN Filled(@, v.media[medium].defaults) ELSE @]

Stated(medium) == IF medium.format = "" THEN None ELSE medium.format

MapMedium(name, v) ==
  IF name = None THEN [NewItem(name) EXCEPT !.medium = <<"other", "unspecified">>]
  ELSE ApplyFormatEntry(v.formats[name], NewItem(name))

\* A value that a table of the vocabulary has, and one that it has not.
Target(table, value) == IF value \in DOMAIN table THEN table[value] ELSE None

\* Mutant: values that the vocabulary does not know are dropped.
UnknownDropped(table, values) == {}

Unknown(table, values) == values \ (DOMAIN table \cup {None})

MapReleaseFacts(view, v) ==
  [releaseKind  |-> Target(v.primaryTypes, view.primaryType),
   traits       |-> {v.secondaryTypes[s] : s \in view.secondaryTypes \cap DOMAIN v.secondaryTypes},
   edition      |-> {Target(v.status, view.status)} \ {None},
   packaging    |-> Target(v.packaging, view.packaging),
   descriptions |-> UNION {Unknown(v.status, {view.status}),
                           Unknown(v.packaging, {view.packaging}),
                           Unknown(v.primaryTypes, {view.primaryType}),
                           Unknown(v.secondaryTypes, view.secondaryTypes)}]

\* A bare value among the media is skipped; the last container stands.
MapMusicBrainzRelease(view, v) ==
  LET objects == {i \in DOMAIN view.media : view.media[i] # Bare}
      name(i) == Stated(view.media[i])
      items == [i \in {j \in objects : StatesItem(name(j), v)} |->
                  FinishItem(MapMedium(name(i), v), v)]
      entry(i) == v.formats[name(i)]
      known == {i \in objects : name(i) \in DOMAIN v.formats}
      contained == {i \in known : entry(i).container # None}
  IN  [taxonomyVersion |-> v.version,
       items     |-> items,
       families  |-> {items[i].family : i \in DOMAIN items} \ {None},
       container |-> IF contained = {} THEN None ELSE entry(Max(contained)).container,
       flags     |-> {entry(i).flag : i \in known} \ {None},
       unmapped  |-> Unknown(v.formats, {name(i) : i \in objects}),
       facts     |-> MapReleaseFacts(view, v)]

\* The mapper's view of a line, over the media list that the parser made.
ReleaseView(line, mediaRaw) ==
  [media          |-> mediaRaw,
   status         |-> line.status,
   packaging      |-> line.packaging,
   primaryType    |-> line.primaryType,
   secondaryTypes |-> line.secondaryTypes]
================================================================================
