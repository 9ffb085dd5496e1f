----------------------------- MODULE RecordsProofs -----------------------------
(***************************************************************************)
(* Proofs about Records, for every set of dumps, of lines and of           *)
(* vocabularies that the assumptions of the module admit.                  *)
(***************************************************************************)
EXTENDS Records, TLAPS, WellFoundedInduction

--------------------------------------------------------------------------------
(***************************************************************************)
(* The links of the artists                                                *)
(***************************************************************************)

\* The lines before line n that link an artist.
LinesBefore(lines, n, mbid) ==
  {i \in DOMAIN lines : /\ i < n /\ lines[i] # Malformed
                        /\ lines[i].id = mbid
                        /\ FindDiscogsId(lines[i].relations, "artist") # None}

\* The link of an artist in what the map pass has read, when it is at line n.
LinkBefore(lines, n, mbid) ==
  IF LinesBefore(lines, n, mbid) = {} THEN None
  ELSE FindDiscogsId(lines[Max(LinesBefore(lines, n, mbid))].relations, "artist")

\* Before the first line no artist has a link.
LEMMA NoLinesBeforeFirst ==
  ASSUME NEW lines, NEW mbid, DOMAIN lines = 1 .. Len(lines), Len(lines) \in Nat
  PROVE  LinkBefore(lines, 1, mbid) = None
BY DEF LinkBefore, LinesBefore

\* After the last line each artist has its link in the dump.
LEMMA AllLinesBeforeEnd ==
  ASSUME NEW lines, NEW mbid, NEW n \in Nat, n > Len(lines),
         DOMAIN lines = 1 .. Len(lines), Len(lines) \in Nat
  PROVE  LinkBefore(lines, n, mbid) = LinkIn(lines, mbid)
<1>1. LinesBefore(lines, n, mbid)
        = {i \in DOMAIN lines : /\ lines[i] # Malformed
                                /\ lines[i].id = mbid
                                /\ FindDiscogsId(lines[i].relations, "artist") # None}
  BY DEF LinesBefore
<1> QED BY <1>1 DEF LinkBefore, LinkIn

\* The last element of a set of line numbers is its maximum.
LEMMA MaxIsLast ==
  ASSUME NEW S \in SUBSET Nat, NEW n \in S, \A i \in S : i <= n
  PROVE  Max(S) = n
<1>1. \A x \in S : (\A y \in S : x >= y) => x = n
  OBVIOUS
<1>2. \A y \in S : n >= y
  OBVIOUS
<1> QED BY <1>1, <1>2 DEF Max

\* Linked folds one line more into the map.
LEMMA LinkedIsNext ==
  ASSUME NEW lines, NEW n \in DOMAIN lines, NEW links, NEW mbid \in Mbids,
         DOMAIN lines = 1 .. Len(lines), Len(lines) \in Nat,
         lines[n] # Malformed => lines[n].id \in Mbids \cup {None},
         DOMAIN links = Mbids,
         links[mbid] = LinkBefore(lines, n, mbid)
  PROVE  Linked(links, lines[n])[mbid] = LinkBefore(lines, n + 1, mbid)
<1> DEFINE id == FindDiscogsId(lines[n].relations, "artist")
           Counts == lines[n] # Malformed /\ lines[n].id = mbid /\ id # None
<1> n \in Nat
  OBVIOUS
<1>1. CASE Counts
  <2>1. LinesBefore(lines, n + 1, mbid) = LinesBefore(lines, n, mbid) \cup {n}
    BY <1>1 DEF LinesBefore
  <2>2. Max(LinesBefore(lines, n + 1, mbid)) = n
    <3>1. LinesBefore(lines, n + 1, mbid) \in SUBSET Nat
      BY DEF LinesBefore
    <3>2. n \in LinesBefore(lines, n + 1, mbid)
      BY <2>1
    <3>3. \A i \in LinesBefore(lines, n + 1, mbid) : i <= n
      BY DEF LinesBefore
    <3> QED BY <3>1, <3>2, <3>3, MaxIsLast
  <2>3. LinkBefore(lines, n + 1, mbid) = id
    BY <2>1, <2>2 DEF LinkBefore
  <2>4. Linked(links, lines[n]) = [links EXCEPT ![mbid] = id]
    BY <1>1, RecordsAssumption DEF Linked
  <2> QED BY <2>3, <2>4
<1>2. CASE ~Counts
  <2>1. LinesBefore(lines, n + 1, mbid) = LinesBefore(lines, n, mbid)
    BY <1>2 DEF LinesBefore
  <2>2. Linked(links, lines[n])[mbid] = links[mbid]
    BY <1>2 DEF Linked
  <2> QED BY <2>1, <2>2 DEF LinkBefore
<1> QED BY <1>1, <1>2

--------------------------------------------------------------------------------
(***************************************************************************)
(* The inductive invariant                                                 *)
(***************************************************************************)

Shape ==
  /\ dataType \in DataTypes
  /\ dump \in Dumps[dataType]
  /\ version \in Nat
  /\ vocabulary \in Vocabularies
  /\ pass \in {"map", "parse", "done", "failed"}
  /\ next \in Nat \ {0}
  /\ DOMAIN map = Mbids
  /\ read \in Nat
  /\ gauge \in [of : Nat, at : Nat]

\* What the map pass has collected, and what the parse pass enriches with.
MapFollowsTheDump ==
  /\ pass = "map" => /\ dataType = "artists"
                     /\ next <= Len(dump) + 1
                     /\ \A mbid \in Mbids : map[mbid] = LinkBefore(dump, next, mbid)
  /\ pass = "parse" /\ dataType = "artists" =>
       \A mbid \in Mbids : map[mbid] = LinkIn(dump, mbid)

\* The gauge is never ahead of the reader of its dump.
GaugeIsBehind ==
  /\ gauge.of <= version
  /\ gauge.of = version => gauge.at <= read

\* A message was hashed as it was parsed, and carries its release's blocks.
SentAsParsed ==
  \A p \in published :
    /\ p.build \in Vocabularies
    /\ p.message.version \in Nat /\ p.message.version <= version
    /\ p.message.sha256 = Unenriched(p.message.data)
    /\ dataType = "releases" =>
         /\ IsSequence(p.line.media) /\ IsSequence(p.line.labelInfo)
         /\ p.line.barcode # None => Identifiers!IsText(p.line.barcode)
         /\ p.message.data.release = ReleaseBlocks(p.line, p.build)

RInv == Shape /\ MapFollowsTheDump /\ GaugeIsBehind /\ SentAsParsed /\ TargetsFollowTheDump

--------------------------------------------------------------------------------
(***************************************************************************)
(* One message                                                             *)
(***************************************************************************)

\* The parser gives a relation no target id of its own.
LEMMA ParsedIsUnenriched ==
  ASSUME NEW type, NEW line, NEW v
  PROVE  Unenriched(ParsedData(type, line, v)) = ParsedData(type, line, v)
BY DEF Unenriched, ParsedData

\* An update of one field is undone by another one.
LEMMA UpdateIsUndone ==
  ASSUME NEW D, NEW x \in D, NEW f, f = [y \in D |-> f[y]], NEW t
  PROVE  [[f EXCEPT ![x] = t] EXCEPT ![x] = f[x]] = f
OBVIOUS

\* The enrichment changes nothing else.
LEMMA EnrichedIsParsed ==
  ASSUME NEW type, NEW line, NEW v, NEW links
  PROVE  Unenriched(Enriched(ParsedData(type, line, v), links)) = ParsedData(type, line, v)
<1> DEFINE data == ParsedData(type, line, v)
           none == [i \in {} |-> None]
           fields == {"discogsId", "copied", "relations", "targets", "links", "release"}
<1>1. PICK targets : Enriched(data, links) = [data EXCEPT !.targets = targets]
  BY DEF Enriched
<1>2. data = [y \in fields |-> data[y]] /\ data.targets = none
  BY DEF ParsedData
<1> HIDE DEF data, none
<1>3. [[data EXCEPT !.targets = targets] EXCEPT !.targets = none] = data
  BY <1>2, UpdateIsUndone
<1> QED BY <1>1, <1>3 DEF Unenriched, data, none

\* So a message is hashed as parsed.
LEMMA MessageIsHashedAsParsed ==
  ASSUME NEW line
  PROVE  /\ Message(line).sha256 = Unenriched(Message(line).data)
         /\ Message(line).version = version
         /\ Message(line).data.relations = EntityRels(line.relations)
         /\ dataType = "releases" =>
              Message(line).data.release = ReleaseBlocks(line, vocabulary)
<1> DEFINE data == ParsedData(dataType, line, vocabulary)
<1>1. /\ Message(line).sha256 = data
      /\ Message(line).version = version
      /\ Message(line).data = IF dataType = "artists" THEN Enriched(data, map) ELSE data
  BY DEF Message, ContentHash
<1>2. Message(line).sha256 = Unenriched(Message(line).data)
  BY <1>1, ParsedIsUnenriched, EnrichedIsParsed
<1>3. data.relations = EntityRels(line.relations)
  BY DEF ParsedData
<1>4. Enriched(data, map).relations = data.relations
  BY DEF Enriched, ParsedData
<1>5. dataType = "releases" => data.release = ReleaseBlocks(line, vocabulary)
  BY DEF ParsedData
<1> HIDE DEF data
<1> QED BY <1>1, <1>2, <1>3, <1>4, <1>5

\* The targets of one message, as the whole dump of now gives them.
FollowsTheDump(m) ==
  LET rels == m.data.relations
      toArtists == {i \in DOMAIN rels : rels[i].targetType = "artist"}
  IN  /\ DOMAIN m.data.targets = IF dataType = "artists" THEN toArtists ELSE {}
      /\ \A i \in DOMAIN m.data.targets : m.data.targets[i] = LinkIn(dump, rels[i].targetMbid)

\* A line that is parsed sends such a message.
LEMMA MessageFollowsTheDump ==
  ASSUME NEW line, RInv, pass = "parse"
  PROVE  FollowsTheDump(Message(line))
<1> USE DEF FollowsTheDump
<1> DEFINE data == ParsedData(dataType, line, vocabulary)
           m == Message(line)
           link(mbid) == IF mbid \in DOMAIN map THEN map[mbid] ELSE None
<1>1. CASE dataType # "artists"
  <2>1. m.data.targets = [i \in {} |-> None]
    BY <1>1 DEF Message, ParsedData
  <2> QED BY <1>1, <2>1
<1>2. CASE dataType = "artists"
  <2>1. m.data = Enriched(data, map)
    BY <1>2 DEF Message
  <2>2. m.data.relations = data.relations /\ data.relations = EntityRels(line.relations)
    BY <2>1 DEF Enriched, ParsedData
  <2>3. m.data.targets = [i \in {i \in DOMAIN data.relations :
                                   data.relations[i].targetType = "artist"} |->
                            link(data.relations[i].targetMbid)]
    BY <2>1 DEF Enriched, ParsedData
  <2>4. ASSUME NEW i \in DOMAIN data.relations
        PROVE  link(data.relations[i].targetMbid) = LinkIn(dump, data.relations[i].targetMbid)
    <3> DEFINE mbid == data.relations[i].targetMbid
    <3>1. mbid # None
      <4>1. i \in DOMAIN EntityRels(line.relations)
        BY <2>2
      <4>2. mbid = TargetMbid(line.relations[i])
        BY <2>2, <4>1 DEF EntityRels
      <4>3. TargetMbid(line.relations[i]) # None
        BY RecordsAssumption DEF TargetMbid
      <4> HIDE DEF mbid
      <4> QED BY <4>2, <4>3
    <3>2. CASE mbid \in Mbids
      BY <1>2, <3>2 DEF RInv, Shape, MapFollowsTheDump
    <3>3. CASE mbid \notin Mbids
      <4>1. \A j \in DOMAIN dump : dump[j] # Malformed => dump[j].id \in Mbids \cup {None}
        BY DumpsAssumption DEF IsSequence, RInv, Shape
      <4>2. LinkIn(dump, mbid) = None
        BY <3>1, <3>3, <4>1 DEF LinkIn
      <4> QED BY <3>3, <4>2 DEF RInv, Shape
    <3> QED BY <3>2, <3>3
  <2> HIDE DEF data
  <2> QED BY <1>2, <2>2, <2>3, <2>4
<1> QED BY <1>1, <1>2

--------------------------------------------------------------------------------
(***************************************************************************)
(* The steps                                                               *)
(***************************************************************************)

\* What every behaviour knows of its dump.
LEMMA DumpIsLines ==
  ASSUME Shape
  PROVE  /\ Len(dump) \in Nat
         /\ DOMAIN dump = 1 .. Len(dump)
         /\ \A i \in DOMAIN dump : dump[i] # Malformed => dump[i].id \in Mbids \cup {None}
BY DumpsAssumption DEF IsSequence, Shape

\* The first line of a new run: nothing is linked yet.
LEMMA FirstPassFollows ==
  ASSUME Shape, pass = FirstPass(dataType), next = 1, map = NoLinks,
         dataType # "artists" \/ pass = "map"
  PROVE  MapFollowsTheDump
<1>1. \A mbid : LinkBefore(dump, 1, mbid) = None
  BY DumpIsLines, NoLinesBeforeFirst
<1> QED BY <1>1, DumpIsLines DEF MapFollowsTheDump, FirstPass, NoLinks

LEMMA InitRInv == Init => RInv
<1> SUFFICES ASSUME Init PROVE RInv
  OBVIOUS
<1> USE DEF Init
<1>1. Shape
  <2>1. pass \in {"map", "parse"} /\ DOMAIN map = Mbids
    BY DEF FirstPass, NoLinks
  <2>2. gauge \in [of : Nat, at : Nat] /\ 1 \in Nat /\ 0 \in Nat
    OBVIOUS
  <2> QED BY <2>1, <2>2 DEF Shape
<1>2. MapFollowsTheDump
  BY <1>1, FirstPassFollows DEF FirstPass
<1>3. GaugeIsBehind /\ SentAsParsed /\ TargetsFollowTheDump
  BY DEF GaugeIsBehind, SentAsParsed, TargetsFollowTheDump, Messages
<1> QED BY <1>1, <1>2, <1>3 DEF RInv

\* A step that publishes nothing and stays on its dump keeps what was published.
LEMMA PublishedKept ==
  ASSUME RInv, UNCHANGED <<dataType, dump, version, published>>
  PROVE  SentAsParsed' /\ TargetsFollowTheDump'
<1> USE DEF RInv
<1>1. SentAsParsed'
  BY DEF SentAsParsed
<1>2. TargetsFollowTheDump'
  BY DEF TargetsFollowTheDump, Messages
<1> QED BY <1>1, <1>2

LEMMA NextRInv == RInv /\ [Next]_vars => RInv'
<1> SUFFICES ASSUME RInv, [Next]_vars PROVE RInv'
  OBVIOUS
<1> USE DEF RInv, input, progress
<1> Len(dump) \in Nat /\ DOMAIN dump = 1 .. Len(dump)
  BY DumpIsLines
<1>1. CASE MapLine
  <2> USE <1>1 DEF MapLine, AtLine
  <2>1. next \in DOMAIN dump
    BY DEF Shape
  <2>2. DOMAIN map' = Mbids
    BY DEF Shape, Linked
  <2>3. Shape'
    BY <2>2 DEF Shape
  <2>4. ASSUME NEW mbid \in Mbids
        PROVE  map'[mbid] = LinkBefore(dump, next + 1, mbid)
    BY <2>1, DumpIsLines, LinkedIsNext DEF Shape, MapFollowsTheDump
  <2>5. MapFollowsTheDump'
    BY <2>4 DEF Shape, MapFollowsTheDump
  <2>6. GaugeIsBehind'
    BY DEF GaugeIsBehind
  <2> QED BY <2>3, <2>5, <2>6, PublishedKept
<1>2. CASE MapEnds
  <2> USE <1>2 DEF MapEnds, AtEnd
  <2>1. Shape' /\ GaugeIsBehind'
    BY DEF Shape, GaugeIsBehind
  <2>2. ASSUME NEW mbid \in Mbids
        PROVE  map[mbid] = LinkIn(dump, mbid)
    BY DumpIsLines, AllLinesBeforeEnd DEF Shape, MapFollowsTheDump
  <2>3. MapFollowsTheDump'
    BY <2>2 DEF MapFollowsTheDump
  <2> QED BY <2>1, <2>3, PublishedKept
<1>3. CASE Read
  <2> USE <1>3 DEF Read
  <2>1. read' \in Nat /\ read' > read
    BY DEF Shape
  <2>2. Shape' /\ GaugeIsBehind'
    BY <2>1 DEF Shape, GaugeIsBehind
  <2>3. MapFollowsTheDump'
    BY DEF MapFollowsTheDump
  <2> QED BY <2>2, <2>3, PublishedKept
<1>4. CASE ParseLine
  <2> USE <1>4 DEF ParseLine, AtLine
  <2>1. Shape' /\ GaugeIsBehind' /\ MapFollowsTheDump'
    BY DEF Shape, GaugeIsBehind, MapFollowsTheDump
  <2>2. CASE dump[next] = Malformed
    BY <2>1, <2>2, PublishedKept
  <2>3. CASE dump[next] # Malformed
    <3> DEFINE line == dump[next]
               m == Message(line)
               sent == [line |-> line, build |-> vocabulary, message |-> m]
    <3>1. published' = published \cup {sent}
      BY <2>3
    <3> HIDE DEF line, m
    <3>2. SentAsParsed'
      <4>1. /\ sent.build \in Vocabularies
            /\ sent.message.version = version /\ version \in Nat
            /\ sent.message.sha256 = Unenriched(sent.message.data)
            /\ dataType = "releases" =>
                 sent.message.data.release = ReleaseBlocks(sent.line, sent.build)
        BY MessageIsHashedAsParsed DEF Shape, m
      <4>2. dataType = "releases" =>
              /\ IsSequence(sent.line.media) /\ IsSequence(sent.line.labelInfo)
              /\ sent.line.barcode # None => Identifiers!IsText(sent.line.barcode)
        BY <2>3, DumpsAssumption DEF Shape, line
      <4> QED BY <3>1, <4>1, <4>2 DEF SentAsParsed
    <3>3. TargetsFollowTheDump'
      <4>1. Messages' = Messages \cup {m}
        <5>1. sent.message = m
          OBVIOUS
        <5> HIDE DEF sent
        <5> QED BY <3>1, <5>1 DEF Messages
      <4>2. FollowsTheDump(m)
        BY MessageFollowsTheDump DEF m
      <4> HIDE DEF sent
      <4> QED BY <4>1, <4>2 DEF TargetsFollowTheDump, FollowsTheDump
    <3> QED BY <2>1, <3>2, <3>3
  <2> QED BY <2>2, <2>3
<1>5. CASE ParseEnds
  <2> USE <1>5 DEF ParseEnds, Dropped
  <2>1. Shape' /\ GaugeIsBehind' /\ MapFollowsTheDump'
    BY DEF Shape, GaugeIsBehind, MapFollowsTheDump, AtLine, AtEnd
  <2> QED BY <2>1, PublishedKept
<1>6. CASE ReadFails
  <2> USE <1>6 DEF ReadFails, Dropped
  <2>1. Shape' /\ GaugeIsBehind' /\ MapFollowsTheDump'
    BY DEF Shape, GaugeIsBehind, MapFollowsTheDump
  <2> QED BY <2>1, PublishedKept
<1>7. CASE NextDump
  <2> USE <1>7 DEF NextDump
  <2>1. Shape'
    BY DEF Shape, FirstPass, NoLinks
  <2>2. MapFollowsTheDump'
    <3>1. Len(dump') \in Nat /\ DOMAIN dump' = 1 .. Len(dump')
      BY <2>1, DumpsAssumption DEF Shape, IsSequence
    <3>2. \A mbid : LinkBefore(dump', 1, mbid) = None
      BY <3>1, NoLinesBeforeFirst
    <3> QED BY <3>1, <3>2 DEF MapFollowsTheDump, FirstPass, NoLinks
  <2>3. GaugeIsBehind'
    BY DEF GaugeIsBehind, Shape
  <2>4. SentAsParsed'
    BY DEF SentAsParsed, Shape
  <2>5. TargetsFollowTheDump'
    <3>1. \A m \in Messages : m.version # version'
      BY DEF Messages, SentAsParsed, Shape
    <3> QED BY <3>1 DEF TargetsFollowTheDump, Messages
  <2> QED BY <2>1, <2>2, <2>3, <2>4, <2>5
<1>8. CASE UNCHANGED vars
  BY <1>8 DEF vars, Shape, MapFollowsTheDump, GaugeIsBehind, SentAsParsed,
              TargetsFollowTheDump, Messages
<1> QED BY <1>1, <1>2, <1>3, <1>4, <1>5, <1>6, <1>7, <1>8 DEF Next

--------------------------------------------------------------------------------
(***************************************************************************)
(* The media block, for every vocabulary                                   *)
(***************************************************************************)

\* The block that is attached to a release is that of its raw media.
LEMMA BlockOfRelease ==
  ASSUME NEW line, NEW v
  PROVE  ReleaseBlocks(line, v).media
           = MapMusicBrainzRelease(ReleaseView(line, MediaRaw(line.media)), v.media)
BY DEF ReleaseBlocks

\* A set of positions that is not empty has a last one.
LEMMA HasLast ==
  ASSUME NEW n \in Nat, NEW S \in SUBSET (1 .. n), S # {}
  PROVE  Max(S) \in S
<1> DEFINE T == {k \in Nat : n - k \in S}
<1>1. T \subseteq Nat /\ T # {}
  <2>1. PICK i \in S : TRUE
    OBVIOUS
  <2>2. n - i \in Nat /\ n - (n - i) = i
    OBVIOUS
  <2> QED BY <2>1, <2>2
<1>2. PICK x \in T : \A y \in T : ~ (<<y, x>> \in OpToRel(<, Nat))
  BY <1>1, NatLessThanWellFounded, WFMin
<1>3. \A y \in T : x <= y
  <2>1. \A y \in T : ~ (y < x)
    BY <1>1, <1>2 DEF OpToRel
  <2> QED BY <1>1, <2>1
<1>4. n - x \in S /\ \A i \in S : n - x >= i
  <2>1. ASSUME NEW i \in S PROVE n - x >= i
    <3>1. n - i \in Nat /\ n - (n - i) = i
      OBVIOUS
    <3> QED BY <1>3, <3>1
  <2> QED BY <2>1
<1> QED BY <1>4 DEF Max

\* A value that is known reaches its target, any other the unmapped ones.
LEMMA OneOfTable ==
  ASSUME NEW table, NEW value, NEW targets, NEW unmapped,
         {Target(table, value)} \ {None} \subseteq targets,
         Unknown(table, {value}) \subseteq unmapped
  PROVE  Accounted(value, table, targets, unmapped)
BY DEF Accounted, Target, Unknown

\* So nothing that the release level states is lost.
LEMMA FactsAreAccounted ==
  ASSUME NEW view, NEW v
  PROVE  LET facts == MapReleaseFacts(view, v)
         IN  /\ Accounted(view.status, v.status, facts.edition, facts.descriptions)
             /\ Accounted(view.packaging, v.packaging, {facts.packaging}, facts.descriptions)
             /\ Accounted(view.primaryType, v.primaryTypes, {facts.releaseKind}, facts.descriptions)
             /\ \A s \in view.secondaryTypes :
                  Accounted(s, v.secondaryTypes, facts.traits, facts.descriptions)
<1> DEFINE facts == MapReleaseFacts(view, v)
<1>1. /\ facts.edition = {Target(v.status, view.status)} \ {None}
      /\ facts.packaging = Target(v.packaging, view.packaging)
      /\ facts.releaseKind = Target(v.primaryTypes, view.primaryType)
      /\ facts.traits = {v.secondaryTypes[s] : s \in view.secondaryTypes \cap DOMAIN v.secondaryTypes}
      /\ Unknown(v.status, {view.status}) \subseteq facts.descriptions
      /\ Unknown(v.packaging, {view.packaging}) \subseteq facts.descriptions
      /\ Unknown(v.primaryTypes, {view.primaryType}) \subseteq facts.descriptions
      /\ Unknown(v.secondaryTypes, view.secondaryTypes) \subseteq facts.descriptions
  BY DEF MapReleaseFacts
<1> HIDE DEF facts
<1>2. \A s \in view.secondaryTypes :
        Accounted(s, v.secondaryTypes, facts.traits, facts.descriptions)
  BY <1>1 DEF Accounted, Unknown
<1>3. Accounted(view.status, v.status, facts.edition, facts.descriptions)
  BY <1>1, OneOfTable
<1>4. Accounted(view.packaging, v.packaging, {facts.packaging}, facts.descriptions)
  BY <1>1, OneOfTable
<1>5. Accounted(view.primaryType, v.primaryTypes, {facts.releaseKind}, facts.descriptions)
  BY <1>1, OneOfTable
<1> QED BY <1>2, <1>3, <1>4, <1>5 DEF facts

\* A format that is stated is an item, or is seen elsewhere in the block.
LEMMA FormatsAreAccounted ==
  ASSUME NEW view, NEW v, IsVocabulary(v), IsSequence(view.media),
         NEW i \in DOMAIN view.media, view.media[i] # Bare
  PROVE  LET block == MapMusicBrainzRelease(view, v)
             name == Stated(view.media[i])
         IN  \/ i \in DOMAIN block.items /\ block.items[i].source = name
             \/ name \in block.unmapped
             \/ name \in DOMAIN v.formats /\
                  (block.container # None \/ v.formats[name].flag \in block.flags)
<1> DEFINE block == MapMusicBrainzRelease(view, v)
           name(j) == Stated(view.media[j])
           objects == {j \in DOMAIN view.media : view.media[j] # Bare}
           entry(j) == v.formats[name(j)]
           known == {j \in objects : name(j) \in DOMAIN v.formats}
           contained == {j \in known : entry(j).container # None}
<1>1. /\ block.items = [j \in {k \in objects : StatesItem(name(k), v)} |->
                          FinishItem(MapMedium(name(j), v), v)]
      /\ block.unmapped = Unknown(v.formats, {name(j) : j \in objects})
      /\ block.flags = {entry(j).flag : j \in known} \ {None}
      /\ block.container = IF contained = {} THEN None ELSE entry(Max(contained)).container
  BY DEF MapMusicBrainzRelease
<1> HIDE DEF block
<1>2. CASE StatesItem(name(i), v)
  <2>1. MapMedium(name(i), v).source = name(i)
    BY DEF MapMedium, ApplyFormatEntry, NewItem
  <2>2. FinishItem(MapMedium(name(i), v), v).source = MapMedium(name(i), v).source
    BY DEF FinishItem
  <2> QED BY <1>1, <1>2, <2>1, <2>2 DEF block
<1>3. CASE name(i) # None /\ name(i) \notin DOMAIN v.formats
  BY <1>1, <1>3 DEF Unknown, block
<1>4. CASE i \in known /\ ~ StatesItem(name(i), v)
  <2>1. entry(i).container # None \/ entry(i).flag # None
    <3>1. entry(i).medium = None /\ entry(i).family = None
      BY <1>4 DEF StatesItem
    <3> QED BY <1>4, <3>1 DEF IsVocabulary
  <2>2. CASE entry(i).flag # None
    BY <1>1, <1>4, <2>2 DEF block
  <2>3. CASE entry(i).container # None
    <3>1. contained # {} /\ contained \in SUBSET (1 .. Len(view.media)) /\ Len(view.media) \in Nat
      BY <1>4, <2>3 DEF IsSequence
    <3>2. entry(Max(contained)).container # None
      BY <3>1, HasLast
    <3> QED BY <1>1, <1>4, <3>1, <3>2 DEF block
  <2> QED BY <2>1, <2>2, <2>3
<1> QED BY <1>2, <1>3, <1>4 DEF StatesItem

\* What a family that was named without a medium resolves to is a medium of it.
LEMMA ResolvedIsKnown ==
  ASSUME NEW v, IsVocabulary(v), NEW item, item.family # None,
         NEW name \in DOMAIN v.formats, v.formats[name].family = item.family
  PROVE  /\ ResolvedMedium(item, v) \in DOMAIN v.media
         /\ v.media[ResolvedMedium(item, v)].family = item.family
<1> DEFINE f == item.family
           rule == IF f \in DOMAIN v.families THEN v.families[f] ELSE None
           resolved == IF rule = None THEN {} ELSE {rule.map[a] : a \in DOMAIN rule.map}
<1>1. f \in {v.formats[n].family : n \in DOMAIN v.formats} \ {None}
  OBVIOUS
<1>2. \A m \in resolved \cup {<<f, "unspecified">>} : m \in DOMAIN v.media /\ v.media[m].family = f
  BY <1>1 DEF IsVocabulary
<1>3. ResolvedMedium(item, v) \in resolved \cup {<<f, "unspecified">>}
  BY DEF ResolvedMedium
<1> QED BY <1>2, <1>3

\* A medium of the vocabulary has a family, and defaults that are attributes.
LEMMA MediaAreWhole ==
  ASSUME NEW v, IsVocabulary(v), NEW m \in DOMAIN v.media
  PROVE  /\ m # None /\ v.media[m].family # None
         /\ \A a \in DOMAIN v.media[m].defaults : a \in Attributes /\ v.media[m].defaults[a] # None
BY DEF IsVocabulary

\* finish_item leaves no item without its medium, its family and the defaults.
LEMMA ItemIsClassified ==
  ASSUME NEW v, IsVocabulary(v), NEW name, StatesItem(name, v)
  PROVE  LET item == FinishItem(MapMedium(name, v), v)
         IN  /\ item.medium \in DOMAIN v.media
             /\ item.family = v.media[item.medium].family
             /\ item.family # None
             /\ \A a \in DOMAIN v.media[item.medium].defaults : item.attributes[a] # None
<1> DEFINE raw == MapMedium(name, v)
           item == FinishItem(raw, v)
<1>1. \/ raw.medium \in DOMAIN v.media /\ raw.family = None
      \/ /\ raw.medium = None /\ raw.family # None
         /\ name \in DOMAIN v.formats /\ v.formats[name].family = raw.family
  <2>1. CASE name = None
    <3>1. raw.medium = <<"other", "unspecified">> /\ raw.family = None
      BY <2>1 DEF MapMedium, NewItem
    <3> QED BY <3>1 DEF IsVocabulary
  <2>2. CASE name # None
    <3>1. raw.medium = v.formats[name].medium /\ raw.family = v.formats[name].family
      BY <2>2 DEF MapMedium, ApplyFormatEntry, NewItem
    <3>2. name \in DOMAIN v.formats /\ (raw.medium # None \/ raw.family # None)
      BY <2>2, <3>1 DEF StatesItem
    <3>3. raw.medium # None => raw.family = None /\ raw.medium \in DOMAIN v.media
      BY <3>1, <3>2 DEF IsVocabulary
    <3> QED BY <3>1, <3>2, <3>3
  <2> QED BY <2>1, <2>2
<1>2. DOMAIN raw = {"family", "medium", "variants", "attributes", "source"}
  BY DEF MapMedium, ApplyFormatEntry, NewItem
<1> HIDE DEF raw
<1>3. item.medium \in DOMAIN v.media /\ item.family = v.media[item.medium].family
  <2>1. CASE raw.medium \in DOMAIN v.media /\ raw.family = None
    <3>1. raw.medium # None
      BY <2>1, MediaAreWhole
    <3> QED BY <1>2, <2>1, <3>1 DEF FinishItem
  <2>2. CASE /\ raw.medium = None /\ raw.family # None
             /\ name \in DOMAIN v.formats /\ v.formats[name].family = raw.family
    <3>1. /\ ResolvedMedium(raw, v) \in DOMAIN v.media
          /\ v.media[ResolvedMedium(raw, v)].family = raw.family
      BY <2>2, ResolvedIsKnown
    <3>2. item.medium = ResolvedMedium(raw, v) /\ item.family = raw.family
      BY <1>2, <2>2 DEF FinishItem
    <3> QED BY <3>1, <3>2
  <2> QED BY <1>1, <2>1, <2>2
<1>4. item.attributes = Filled(raw.attributes, v.media[item.medium].defaults)
  BY <1>2, <1>3 DEF FinishItem
<1>5. \A a \in DOMAIN v.media[item.medium].defaults : item.attributes[a] # None
  BY <1>3, <1>4, MediaAreWhole DEF Filled
<1> QED BY <1>3, <1>5, MediaAreWhole DEF raw

\* So every item of a block is classified, and its family is the block's.
LEMMA ItemsOfBlock ==
  ASSUME NEW view, NEW v, IsVocabulary(v),
         NEW i \in DOMAIN MapMusicBrainzRelease(view, v).items
  PROVE  LET block == MapMusicBrainzRelease(view, v)
             item == block.items[i]
         IN  /\ item.medium \in DOMAIN v.media
             /\ item.family = v.media[item.medium].family
             /\ item.family \in block.families
             /\ \A a \in DOMAIN v.media[item.medium].defaults : item.attributes[a] # None
<1> DEFINE block == MapMusicBrainzRelease(view, v)
           name == Stated(view.media[i])
<1>1. StatesItem(name, v) /\ block.items[i] = FinishItem(MapMedium(name, v), v)
  BY DEF MapMusicBrainzRelease
<1>2. block.families = {block.items[j].family : j \in DOMAIN block.items} \ {None}
  BY DEF MapMusicBrainzRelease
<1> HIDE DEF block
<1>3. i \in DOMAIN block.items
  BY DEF block
<1> QED BY <1>1, <1>2, <1>3, ItemIsClassified DEF block

--------------------------------------------------------------------------------
(***************************************************************************)
(* The theorems                                                            *)
(***************************************************************************)

\* The invariant of the two passes holds in every reachable state.
LEMMA AlwaysRInv == Spec => []RInv
BY InitRInv, NextRInv, PTL DEF Spec

\* Whatever the order of the lines, and whichever artists come twice, every
\* relation to an artist is published with the id of that artist's last link.
THEOREM TargetsAlwaysFollow == Spec => []TargetsFollowTheDump
<1>1. RInv => TargetsFollowTheDump
  BY DEF RInv
<1> QED BY <1>1, AlwaysRInv, PTL

\* Two messages have one sha256 exactly if they have the same data but for the
\* ids that the enrichment adds.
THEOREM HashAlwaysTracks == Spec => []HashTracksData
<1>1. RInv => HashTracksData
  BY DEF RInv, SentAsParsed, HashTracksData, Messages
<1> QED BY <1>1, AlwaysRInv, PTL

\* The progress of a data type never falls within one run.
THEOREM ProgressMonotone == Spec => ProgressNeverFalls
<1>1. RInv /\ [Next]_vars => [gauge'.of = gauge.of => gauge'.at >= gauge.at]_vars
  <2> SUFFICES ASSUME RInv, Next, gauge'.of = gauge.of
               PROVE  gauge'.at >= gauge.at
    BY DEF vars, progress, RInv, Shape
  <2>1. gauge.at \in Nat /\ read \in Nat /\ version \in Nat /\ Len(dump) \in Nat
    BY DumpIsLines DEF RInv, Shape
  <2>2. CASE gauge' = gauge
    BY <2>1, <2>2
  <2>3. CASE gauge' = [of |-> version, at |-> read]
    BY <2>1, <2>3 DEF RInv, GaugeIsBehind
  <2>4. CASE Read /\ gauge' = [of |-> version, at |-> read']
    BY <2>1, <2>4 DEF Read, RInv, GaugeIsBehind
  <2>5. \/ gauge' = gauge
        \/ gauge' = [of |-> version, at |-> read]
        \/ Read /\ gauge' = [of |-> version, at |-> read']
    BY DEF Next, MapLine, MapEnds, Read, ParseLine, ParseEnds, ReadFails, NextDump, Dropped,
           progress
  <2> QED BY <2>2, <2>3, <2>4, <2>5
<1> QED BY <1>1, AlwaysRInv, PTL DEF Spec, ProgressNeverFalls

\* Whatever a release states, and whatever the vocabulary of the build knows, no
\* stated format, status, packaging or type is missing from the media block.
THEOREM NothingStatedLost == Spec => []NothingStatedIsLost
<1>1. ASSUME RInv, NEW p \in published, dataType = "releases"
      PROVE  LET line  == p.line
                 v     == p.build.media
                 block == p.message.data.release.media
                 facts == block.facts
             IN  /\ \A i \in DOMAIN line.media : line.media[i] # Bare =>
                      LET name == Stated(line.media[i]) IN
                      \/ i \in DOMAIN block.items /\ block.items[i].source = name
                      \/ name \in block.unmapped
                      \/ name \in DOMAIN v.formats /\
                           (block.container # None \/ v.formats[name].flag \in block.flags)
                 /\ Accounted(line.status, v.status, facts.edition, facts.descriptions)
                 /\ Accounted(line.packaging, v.packaging, {facts.packaging}, facts.descriptions)
                 /\ Accounted(line.primaryType, v.primaryTypes, {facts.releaseKind}, facts.descriptions)
                 /\ \A s \in line.secondaryTypes :
                      Accounted(s, v.secondaryTypes, facts.traits, facts.descriptions)
  <2> DEFINE line == p.line
             v == p.build.media
             raw == MediaRaw(line.media)
             view == ReleaseView(line, raw)
             block == MapMusicBrainzRelease(view, v)
  <2>1. IsVocabulary(v) /\ IsSequence(line.media)
    BY <1>1, RecordsAssumption DEF RInv, SentAsParsed
  <2>2. p.message.data.release.media = block
    BY <1>1, BlockOfRelease DEF RInv, SentAsParsed
  <2>3. DOMAIN raw = DOMAIN line.media
    BY DEF MediaRaw
  <2>4. view.media = raw
    BY DEF ReleaseView
  <2>5. IsSequence(raw)
    BY <2>1, <2>3 DEF IsSequence
  <2>6. block.facts = MapReleaseFacts(view, v)
    BY DEF MapMusicBrainzRelease
  <2>7. ASSUME NEW i \in DOMAIN line.media, line.media[i] # Bare
        PROVE  raw[i] = line.media[i]
    BY <2>7 DEF MediaRaw
  <2>8. /\ view.status = line.status /\ view.packaging = line.packaging
        /\ view.primaryType = line.primaryType /\ view.secondaryTypes = line.secondaryTypes
    BY DEF ReleaseView
  <2> HIDE DEF line, v, raw, view, block
  <2>9. \A i \in DOMAIN line.media : line.media[i] # Bare =>
          LET name == Stated(line.media[i]) IN
          \/ i \in DOMAIN block.items /\ block.items[i].source = name
          \/ name \in block.unmapped
          \/ name \in DOMAIN v.formats /\
               (block.container # None \/ v.formats[name].flag \in block.flags)
    BY <2>1, <2>3, <2>4, <2>5, <2>7, FormatsAreAccounted DEF block
  <2> QED BY <2>2, <2>6, <2>8, <2>9, FactsAreAccounted DEF line, v
<1>2. RInv => NothingStatedIsLost
  BY <1>1 DEF NothingStatedIsLost
<1> QED BY <1>2, AlwaysRInv, PTL

\* Every item of every media block has a medium of the vocabulary, the family of
\* that medium and the medium's defaults, for every vocabulary.
THEOREM AllItemsClassified == Spec => []ItemsAreClassified
<1>1. ASSUME RInv, NEW p \in published, dataType = "releases"
      PROVE  LET v == p.build.media
                 block == p.message.data.release.media
             IN  \A i \in DOMAIN block.items :
                   LET item == block.items[i] IN
                   /\ item.medium \in DOMAIN v.media
                   /\ item.family = v.media[item.medium].family
                   /\ item.family \in block.families
                   /\ \A a \in DOMAIN v.media[item.medium].defaults : item.attributes[a] # None
  <2> DEFINE v == p.build.media
             view == ReleaseView(p.line, MediaRaw(p.line.media))
  <2>1. IsVocabulary(v)
    BY <1>1, RecordsAssumption DEF RInv, SentAsParsed
  <2>2. p.message.data.release.media = MapMusicBrainzRelease(view, v)
    BY <1>1, BlockOfRelease DEF RInv, SentAsParsed
  <2> HIDE DEF v, view
  <2> QED BY <2>1, <2>2, ItemsOfBlock DEF v
<1>2. RInv => ItemsAreClassified
  BY <1>1 DEF ItemsAreClassified
<1> QED BY <1>2, AlwaysRInv, PTL

--------------------------------------------------------------------------------
(***************************************************************************)
(* Barcodes                                                                *)
(***************************************************************************)

LEMMA IdentifiersOfRelease ==
  ASSUME NEW line, NEW v
  PROVE  ReleaseBlocks(line, v).identifiers
           = Identifiers!MapMusicBrainzIdentifiers(line, v.identifiers)
BY DEF ReleaseBlocks

\* The one barcode alias of a block is made of the digits of the barcode, and the
\* first item has the barcode as it was spelled.
LEMMA BarcodeAliases ==
  ASSUME NEW line, NEW w, Identifiers!KnowsBarcodes(w), IsSequence(line.labelInfo),
         line.barcode # None, Identifiers!IsText(line.barcode), line.barcode.digits # None
  PROVE  LET block == Identifiers!MapMusicBrainzIdentifiers(line, w)
             alias == [words |-> line.barcode.digits, lower |-> FALSE]
         IN  /\ {a \in block.aliases : a[1] = "barcode"} = {<<"barcode", alias>>}
             /\ block.items[0].value = Identifiers!Trimmed(line.barcode)
<1> DEFINE value(i) == Identifiers!Trimmed(IF i = 0 THEN line.barcode ELSE line.labelInfo[i].number)
           rawType(i) == IF i = 0 THEN "barcode" ELSE "catalog-number"
           stated == {i \in 0 .. Len(line.labelInfo) : value(i) # None}
           type(i) == IF rawType(i) \in DOMAIN w.types THEN w.types[rawType(i)] ELSE w.unmappedType
           made(i, n) == Identifiers!AliasValue(n.rule, value(i))
           spaces(i) == {m \in w.namespaces : m.type = type(i) /\ made(i, m) # None}
           aliases == UNION {{<<n.provider, made(i, n)>> : n \in spaces(i)} : i \in stated}
           block == Identifiers!MapMusicBrainzIdentifiers(line, w)
           alias == [words |-> line.barcode.digits, lower |-> FALSE]
<1>1. block.aliases = aliases /\ block.items = [i \in stated |-> [type |-> type(i), value |-> value(i)]]
  BY DEF Identifiers!MapMusicBrainzIdentifiers
<1>2. /\ value(0) = [line.barcode EXCEPT !.outer = FALSE] /\ value(0) # None
      /\ value(0).digits = line.barcode.digits
  BY DEF Identifiers!Trimmed, Identifiers!IsText
<1>3. 0 \in stated
  BY <1>2 DEF IsSequence
<1>4. type(0) = w.types["barcode"]
  BY DEF Identifiers!KnowsBarcodes
<1>5. \A i \in stated : i # 0 => type(i) # w.types["barcode"]
  BY DEF Identifiers!KnowsBarcodes
<1>6. ASSUME NEW n \in w.namespaces, n.provider = "barcode"
      PROVE  n.type = w.types["barcode"] /\ made(0, n) = alias /\ alias # None
  <2>1. n.type = w.types["barcode"] /\ n.rule = "digits_only"
    BY <1>6 DEF Identifiers!KnowsBarcodes
  <2>2. value(0).digits # None /\ alias # None
    BY <1>2 DEF Identifiers!IsText
  <2> HIDE DEF value
  <2>3. Identifiers!AliasValue("digits_only", value(0)) = [words |-> value(0).digits, lower |-> FALSE]
    BY <2>2 DEF Identifiers!AliasValue
  <2> QED BY <1>2, <2>1, <2>2, <2>3
<1>7. PICK n \in w.namespaces : n.provider = "barcode"
  BY DEF Identifiers!KnowsBarcodes
<1> HIDE DEF value, stated, type, made
<1>8. <<"barcode", alias>> \in aliases
  <2>1. n \in spaces(0) /\ <<n.provider, made(0, n)>> = <<"barcode", alias>>
    BY <1>4, <1>6, <1>7
  <2> QED BY <1>3, <2>1
<1>9. ASSUME NEW a \in aliases, a[1] = "barcode"
      PROVE  a = <<"barcode", alias>>
  <2>1. PICK i \in stated : \E m \in spaces(i) : a = <<m.provider, made(i, m)>>
    OBVIOUS
  <2>2. PICK m \in spaces(i) : a = <<m.provider, made(i, m)>>
    BY <2>1
  <2>3. m \in w.namespaces /\ m.type = type(i) /\ m.provider = "barcode"
    BY <1>9, <2>2
  <2>4. i = 0
    BY <1>5, <1>6, <2>3
  <2> QED BY <1>6, <2>2, <2>3, <2>4
<1>10. block.items[0].value = value(0)
  BY <1>1, <1>3
<1>11. value(0) = Identifiers!Trimmed(line.barcode)
  BY DEF value
<1> HIDE DEF aliases, block, alias
<1>12. {a \in block.aliases : a[1] = "barcode"} = {<<"barcode", alias>>}
  BY <1>1, <1>8, <1>9
<1> QED BY <1>10, <1>11, <1>12 DEF block, alias

\* Two releases that spell one barcode differently are published with the same
\* barcode alias, and each with its own spelling, also by builds with different
\* vocabularies.
THEOREM AliasesAlwaysUnite == Spec => []AliasesUnite
<1>1. ASSUME RInv, NEW p \in published, dataType = "releases",
             p.line.barcode # None, p.line.barcode.digits # None
      PROVE  LET block == p.message.data.release.identifiers
             IN  /\ {a \in block.aliases : a[1] = "barcode"}
                      = {<<"barcode", [words |-> p.line.barcode.digits, lower |-> FALSE]>>}
                 /\ block.items[0].value = Identifiers!Trimmed(p.line.barcode)
  <2>1. /\ Identifiers!KnowsBarcodes(p.build.identifiers) /\ IsSequence(p.line.labelInfo)
        /\ Identifiers!IsText(p.line.barcode)
    BY <1>1, BarcodesAssumption DEF RInv, SentAsParsed
  <2>2. p.message.data.release.identifiers
          = Identifiers!MapMusicBrainzIdentifiers(p.line, p.build.identifiers)
    BY <1>1, IdentifiersOfRelease DEF RInv, SentAsParsed
  <2> QED BY <1>1, <2>1, <2>2, BarcodeAliases
<1>2. RInv => AliasesUnite
  <2> SUFFICES ASSUME RInv, NEW p \in published, NEW q \in published, dataType = "releases",
                      SameBarcode(p.line.barcode, q.line.barcode)
               PROVE  LET block(r)    == r.message.data.release.identifiers
                          barcodes(r) == {a \in block(r).aliases : a[1] = "barcode"}
                      IN  /\ barcodes(p) = barcodes(q) /\ barcodes(p) # {}
                          /\ block(p).items[0].value = Identifiers!Trimmed(p.line.barcode)
    BY DEF AliasesUnite
  <2>1. /\ p.line.barcode # None /\ q.line.barcode # None /\ p.line.barcode.digits # None
        /\ p.line.barcode.digits = q.line.barcode.digits
    BY DEF SameBarcode
  <2> QED BY <1>1, <2>1
<1> QED BY <1>2, AlwaysRInv, PTL
================================================================================
