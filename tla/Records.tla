-------------------------------- MODULE Records --------------------------------
(***************************************************************************)
(* What is published of a dump (src/musicbrainz/jsonl_parser.rs): the pass *)
(* that maps artists to their Discogs ids, the pass that parses, hashes,   *)
(* enriches and sends each line, and the progress of that pass, for one    *)
(* data type and one dump after another.  Between two dumps the service    *)
(* may be built again with other vocabularies.                             *)
(*                                                                         *)
(* A line is Malformed or a record; copied stands for all that is copied   *)
(* from it.  As in MediaMapping, a filtered list is a function on the      *)
(* positions that stay.  sha256 has no collisions: the hash of a value is  *)
(* that value, as it was when it was hashed.                               *)
(***************************************************************************)
EXTENDS Integers, Sequences, FiniteSetsExt, MediaMapping

CONSTANTS
  Mbids,          \* MusicBrainz ids
  DataTypes,      \* the data types looked at
  Dumps,          \* for each of them, the contents that a dump may have
  Vocabularies,   \* pairs of a media and an identifier vocabulary
  Malformed,      \* a line that is not JSON
  Step,           \* PROGRESS_REPORT_STEP, in lines
  MaxDumps        \* bound on the number of dumps

ASSUME RecordsAssumption ==
  /\ DataTypes \subseteq {"artists", "labels", "releases", "release-groups"}
  /\ None \notin Mbids \cup {""}
  /\ Step \in Nat \ {0}
  /\ MaxDumps \in Nat
  /\ \A v \in Vocabularies : IsVocabulary(v.media)

IsSequence(s) == Len(s) \in Nat /\ DOMAIN s = 1 .. Len(s)

VARIABLES
  dataType,     \* which file of the dumps this behaviour is about
  dump,         \* its lines
  version,      \* the version of the dump: its number
  vocabulary,   \* of the build that runs
  pass,         \* "map", "parse", "done" or "failed"
  next,         \* the line to read next
  map,          \* the MBID -> Discogs id map
  published,    \* every message sent, with the line and build it came from
  read,         \* how far the parse pass has read the file
  reportedAt,   \* the last report of a full step
  gauge         \* file.progress of the data type, and the dump it is of

input    == <<dataType, dump, version, vocabulary>>
progress == <<read, reportedAt, gauge>>
vars     == <<input, pass, next, map, published, progress>>

Identifiers == INSTANCE IdentifierMapping

\* A dump is a sequence of lines, a record has an id or none, and a release a
\* sequence of media, a barcode or none, and a sequence of labels.
ASSUME DumpsAssumption ==
  \A type \in DataTypes : \A lines \in Dumps[type] :
    /\ IsSequence(lines)
    /\ \A i \in DOMAIN lines : lines[i] # Malformed =>
         /\ lines[i].id \in Mbids \cup {None}
         /\ type = "releases" =>
              /\ IsSequence(lines[i].media) /\ IsSequence(lines[i].labelInfo)
              /\ lines[i].barcode # None => Identifiers!IsText(lines[i].barcode)

ASSUME BarcodesAssumption ==
  \A v \in Vocabularies : Identifiers!KnowsBarcodes(v.identifiers)

--------------------------------------------------------------------------------
(***************************************************************************)
(* One line                                                                *)
(***************************************************************************)

DiscogsEntity(type) ==
  CASE type = "artists" -> "artist" [] type = "labels" -> "label"
    [] type = "releases" -> "release" [] type = "release-groups" -> "master"

CanonicalEntityType(type) == IF type = "release_group" THEN "release-group" ELSE type

\* A url is the site's, the entity in its path, and the number after it.
ExtractDiscogsId(url, entity) ==
  IF url # None /\ url.site = "discogs" /\ url.entity = entity THEN url.number ELSE None

UrlRels(rels) == {i \in DOMAIN rels : rels[i].target = "url"}

FindDiscogsId(rels, entity) ==
  LET links == {i \in UrlRels(rels) : /\ rels[i].type = "discogs"
                                      /\ ExtractDiscogsId(rels[i].url, entity) # None}
  IN  IF links = {} THEN None ELSE ExtractDiscogsId(rels[Min(links)].url, entity)

ExternalLinks(rels) ==
  [i \in {j \in UrlRels(rels) : rels[j].type \notin {None, "discogs"} /\ rels[j].url # None} |->
     [service |-> rels[i].type, url |-> rels[i].url]]

\* The nested object is looked up under the raw spelling, then the canonical one.
TargetMbid(rel) ==
  IF rel.key \in {rel.target, CanonicalEntityType(rel.target)} /\ rel.id # None
  THEN rel.id ELSE ""

EntityRels(rels) ==
  [i \in {j \in DOMAIN rels : rels[j].target \notin {None, "url"}} |->
     [type       |-> rels[i].type,
      targetType |-> CanonicalEntityType(rels[i].target),
      targetMbid |-> TargetMbid(rels[i])]]

\* A bare value has none of the keys, and becomes a medium that states nothing.
MediaRaw(media) ==
  [i \in DOMAIN media |-> IF media[i] = Bare THEN [format |-> None, copied |-> None] ELSE media[i]]

ReleaseEvents(events) ==
  [i \in {j \in DOMAIN events : events[j] # Bare /\ events[j] # [date |-> None, area |-> None]}
     |-> events[i]]

CatalogNumbers(labelInfo) ==
  [i \in {j \in DOMAIN labelInfo : labelInfo[j].number # None} |-> labelInfo[i]]

\* The blocks that only a release carries.
ReleaseBlocks(line, v) ==
  LET mediaRaw == MediaRaw(line.media)
  IN  [mediaRaw       |-> mediaRaw,
       events         |-> ReleaseEvents(line.events),
       catalogNumbers |-> CatalogNumbers(line.labelInfo),
       media          |-> MapMusicBrainzRelease(ReleaseView(line, mediaRaw), v.media),
       identifiers    |-> Identifiers!MapMusicBrainzIdentifiers(line, v.identifiers)]

\* targets holds the target_discogs_artist_id of the relations that have one.
ParsedData(type, line, v) ==
  [discogsId |-> FindDiscogsId(line.relations, DiscogsEntity(type)),
   copied    |-> line.copied,
   relations |-> EntityRels(line.relations),
   targets   |-> [i \in {} |-> None],
   links     |-> ExternalLinks(line.relations),
   release   |-> IF type = "releases" THEN ReleaseBlocks(line, v) ELSE None]

\* enrich_relations, which runs on artists only.
Enriched(data, links) ==
  LET toArtists == {i \in DOMAIN data.relations : data.relations[i].targetType = "artist"}
      link(mbid) == IF mbid \in DOMAIN links THEN links[mbid] ELSE None
  IN  [data EXCEPT !.targets = [i \in toArtists |-> link(data.relations[i].targetMbid)]]

ContentHash(data) == data

\* Mutant: the blocks of a release are attached after the hash is taken.
MessageHashedEarly(line) ==
  LET data == ParsedData(dataType, line, vocabulary)
  IN  [id      |-> IF line.id = None THEN "unknown" ELSE line.id,
       sha256  |-> ContentHash([data EXCEPT !.release = None]),
       version |-> version,
       data    |-> data]

\* The message of a line: it is hashed as parsed, then enriched.
Message(line) ==
  LET data == ParsedData(dataType, line, vocabulary)
  IN  [id      |-> IF line.id = None THEN "unknown" ELSE line.id,
       sha256  |-> ContentHash(data),
       version |-> version,
       data    |-> IF dataType = "artists" THEN Enriched(data, map) ELSE data]

--------------------------------------------------------------------------------
(***************************************************************************)
(* The two passes                                                          *)
(***************************************************************************)

FirstPass(type) == IF type = "artists" THEN "map" ELSE "parse"

NoLinks == [mbid \in Mbids |-> None]

Init ==
  /\ dataType \in DataTypes
  /\ dump \in Dumps[dataType]
  /\ version = 1
  /\ vocabulary \in Vocabularies
  /\ pass = FirstPass(dataType)
  /\ next = 1
  /\ map = NoLinks
  /\ published = {}
  /\ read = 0 /\ reportedAt = 0
  /\ gauge = [of |-> 0, at |-> 0]

AtLine(p) == pass = p /\ next <= Len(dump)
AtEnd(p)  == pass = p /\ next > Len(dump)

\* Mutant: the first link of an artist stands.
LinkedOnce(links, line) ==
  IF line = Malformed THEN links
  ELSE LET id == FindDiscogsId(line.relations, "artist")
       IN  IF line.id = None \/ id = None THEN links
           ELSE [links EXCEPT ![line.id] = IF @ = None THEN id ELSE @]

\* A line without an id or a link changes nothing; a later link replaces one.
Linked(links, line) ==
  IF line = Malformed THEN links
  ELSE LET id == FindDiscogsId(line.relations, "artist")
       IN  IF line.id = None \/ id = None THEN links ELSE [links EXCEPT ![line.id] = id]

\* Mutant: the map pass reports its progress too.
MapLineReported ==
  /\ AtLine("map")
  /\ map' = Linked(map, dump[next])
  /\ next' = next + 1
  /\ gauge' = [of |-> version, at |-> next]
  /\ UNCHANGED <<input, pass, published, read, reportedAt>>

MapLine ==
  /\ AtLine("map")
  /\ map' = Linked(map, dump[next])
  /\ next' = next + 1
  /\ UNCHANGED <<input, pass, published, progress>>

MapEnds ==
  /\ AtEnd("map")
  /\ pass' = "parse"
  /\ next' = 1
  /\ UNCHANGED <<input, map, published, progress>>

\* ProgressReader: the reader's buffer takes one line or more of the file.
Read ==
  /\ pass = "parse"
  /\ read' \in read + 1 .. Len(dump)
  /\ IF read' - reportedAt >= Step
     THEN reportedAt' = read' /\ gauge' = [of |-> version, at |-> read']
     ELSE UNCHANGED <<reportedAt, gauge>>
  /\ UNCHANGED <<input, pass, next, map, published>>

ParseLine ==
  /\ AtLine("parse") /\ next <= read
  /\ published' = IF dump[next] = Malformed THEN published
                  ELSE published \cup {[line    |-> dump[next],
                                        build   |-> vocabulary,
                                        message |-> Message(dump[next])]}
  /\ next' = next + 1
  /\ UNCHANGED <<input, pass, map, progress>>

\* The reader is dropped, and reports where it stopped.
Dropped == gauge' = [of |-> version, at |-> read]

\* At the end of the file, or when the receiver of the channel is gone.
ParseEnds ==
  /\ \/ AtEnd("parse")
     \/ AtLine("parse") /\ next <= read /\ dump[next] # Malformed
  /\ pass' = "done"
  /\ Dropped
  /\ UNCHANGED <<input, next, map, published, read, reportedAt>>

\* A read error is persistent and ends the pass, and with it the run.
ReadFails ==
  /\ pass \in {"map", "parse"}
  /\ pass' = "failed"
  /\ IF pass = "parse" THEN Dropped ELSE UNCHANGED gauge
  /\ UNCHANGED <<input, next, map, published, read, reportedAt>>

\* The next run, on another dump, of the same build or another one.
NextDump ==
  /\ pass \in {"done", "failed"}
  /\ version < MaxDumps
  /\ dump' \in Dumps[dataType]
  /\ version' = version + 1
  /\ vocabulary' \in Vocabularies
  /\ pass' = FirstPass(dataType)
  /\ next' = 1
  /\ map' = NoLinks
  /\ read' = 0 /\ reportedAt' = 0
  /\ UNCHANGED <<dataType, published, gauge>>

Next ==
  \/ MapLine \/ MapEnds \/ Read \/ ParseLine \/ ParseEnds \/ ReadFails \/ NextDump

Spec == Init /\ [][Next]_vars

--------------------------------------------------------------------------------
(***************************************************************************)
(* Properties                                                              *)
(***************************************************************************)

Messages == {p.message : p \in published}

\* The link of an artist in a whole dump, as its last linked line gives it.
LinkIn(lines, mbid) ==
  LET id(i)  == FindDiscogsId(lines[i].relations, "artist")
      linked == {i \in DOMAIN lines : /\ lines[i] # Malformed
                                      /\ lines[i].id = mbid /\ id(i) # None}
  IN  IF linked = {} THEN None ELSE id(Max(linked))

\* build_mbid_discogs_map_from_file and enrich_relations: whatever the order of
\* the lines, a relation to an artist is published with the Discogs id that this
\* artist's own line has anywhere in the dump, and with null if it has none;
\* relations of other types, and other data types, carry no such field.
TargetsFollowTheDump ==
  \A m \in Messages :
    LET rels == m.data.relations
        toArtists == {i \in DOMAIN rels : rels[i].targetType = "artist"}
    IN  /\ DOMAIN m.data.targets = IF dataType = "artists" THEN toArtists ELSE {}
        /\ m.version = version =>
             \A i \in DOMAIN m.data.targets : m.data.targets[i] = LinkIn(dump, rels[i].targetMbid)

Unenriched(data) == [data EXCEPT !.targets = [i \in {} |-> None]]

\* calculate_content_hash: across dumps and builds, two messages have the same
\* sha256 exactly if the data in them are the same but for the Discogs ids of
\* their relations' targets: a vocabulary that changes a block changes the
\* hash, and a new dump version does not.
HashTracksData ==
  \A m, n \in Messages :
    m.sha256 = n.sha256 <=> Unenriched(m.data) = Unenriched(n.data)

\* What ADR 0001 and docs/extraction.md say: the hash represents exactly what
\* consumers receive.  The enrichment of artists comes after it.
HashIsOfData == \A m, n \in Messages : m.sha256 = n.sha256 => m.data = n.data

\* open_jsonl_reader: the progress of a file never falls back during a run,
\* because the map pass, which reads the same file, reports none.
ProgressNeverFalls == [][gauge'.of = gauge.of => gauge'.at >= gauge.at]_vars

\* A stated value is known to its table and on its target, or listed as unmapped.
Accounted(value, table, targets, unmapped) ==
  \/ value = None
  \/ value \in DOMAIN table /\ {table[value]} \ {None} \subseteq targets
  \/ value \notin DOMAIN table /\ value \in unmapped

\* map_medium, map_release_facts: nothing that a release states is lost on the
\* way into its media block, whichever vocabulary the build has.  A format is
\* an item under its own name, a container, a flag, or an unmapped format.
NothingStatedIsLost ==
  \A p \in published : dataType = "releases" =>
    LET line  == p.line
        v     == p.build.media
        block == p.message.data.release.media
        facts == block.facts
    IN  /\ \A i \in DOMAIN line.media : line.media[i] # Bare =>
             LET name == Stated(line.media[i]) IN
             \/ i \in DOMAIN block.items /\ block.items[i].source = name
             \/ name \in block.unmapped
             \/ name \in DOMAIN v.formats /\
                  (block.container # None \/ v.formats[name].flag \in block.flags)
        /\ Accounted(line.status, v.status, facts.edition, facts.descriptions)
        /\ Accounted(line.packaging, v.packaging, {facts.packaging}, facts.descriptions)
        /\ Accounted(line.primaryType, v.primaryTypes, {facts.releaseKind}, facts.descriptions)
        /\ \A s \in line.secondaryTypes :
             Accounted(s, v.secondaryTypes, facts.traits, facts.descriptions)

\* finish_item: every item has a medium of the vocabulary and that medium's
\* family, which is among the families of the block, also when the source named
\* only a family or no format at all, and every default of the medium it has.
ItemsAreClassified ==
  \A p \in published : dataType = "releases" =>
    LET v == p.build.media
        block == p.message.data.release.media
    IN  \A i \in DOMAIN block.items :
          LET item == block.items[i] IN
          /\ item.medium \in DOMAIN v.media
          /\ item.family = v.media[item.medium].family
          /\ item.family \in block.families
          /\ \A a \in DOMAIN v.media[item.medium].defaults : item.attributes[a] # None

\* A barcode is the same whatever its spacing.
SameBarcode(s, t) == s # None /\ t # None /\ s.digits # None /\ s.digits = t.digits

\* map_musicbrainz_identifiers: two releases that state one barcode in two
\* spellings share its alias, while each publishes it as it was spelled.
AliasesUnite ==
  \A p, q \in published : dataType = "releases" /\ SameBarcode(p.line.barcode, q.line.barcode) =>
    LET block(r)   == r.message.data.release.identifiers
        barcodes(r) == {a \in block(r).aliases : a[1] = "barcode"}
    IN  /\ barcodes(p) = barcodes(q) /\ barcodes(p) # {}
        /\ block(p).items[0].value = Identifiers!Trimmed(p.line.barcode)

\* The comment of map_musicbrainz_release: anything that is not an object is
\* skipped rather than becoming an item that claims a medium the release may not
\* have.  The parser has made it an object by then.
BareValuesAreSkipped ==
  \A p \in published : dataType = "releases" =>
    \A i \in DOMAIN p.message.data.release.media.items : p.line.media[i] # Bare
================================================================================
