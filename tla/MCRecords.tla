------------------------------- MODULE MCRecords -------------------------------
(***************************************************************************)
(* Records for TLC: dumps of artists and of labels of up to two lines, in  *)
(* which links, repeated artists, relations and malformed lines meet in    *)
(* any order; dumps of one release, out of all that its media, release     *)
(* facts and identifiers may state; two builds with their vocabularies.    *)
(***************************************************************************)
EXTENDS Records, SequencesExt

Discogs(entity, number) ==
  [target |-> "url", type |-> "discogs", key |-> None, id |-> None,
   url |-> [site |-> "discogs", entity |-> entity, number |-> number]]
Homepage ==
  [target |-> "url", type |-> "home page", key |-> None, id |-> None,
   url |-> [site |-> "other", entity |-> None, number |-> None]]
To(target, key, mbid) ==
  [target |-> target, type |-> "member", key |-> key, id |-> mbid, url |-> None]

Line(id, rels) == [id |-> id, copied |-> "as received", relations |-> rels]

MCMbids == {"a", "b", "r"}

ArtistLines ==
  {Malformed,
   Line(None, <<Discogs("artist", 1)>>),
   Line("a", <<>>),
   Line("a", <<Homepage, Discogs("artist", 1)>>),
   Line("a", <<Discogs("label", 1), Discogs("artist", None), Discogs("artist", 2),
               To("artist", "artist", "a")>>),
   Line("b", <<To("artist", "artist", "a")>>),
   Line("b", <<Discogs("artist", 3), To("artist", "artist", "b"),
               To("release_group", "release-group", "a")>>)}

UpToTwo(lines) == {<<>>} \cup {<<l>> : l \in lines} \cup (lines \X lines)

Text(words, lower, digits, outer, inner) ==
  [words |-> words, lower |-> lower, digits |-> digits, outer |-> outer, inner |-> inner]

Media == {<<>>, <<Bare>>} \cup
  {<<[format |-> f, copied |-> 1]>> : f \in {None, "CD", "SHM-CD", "Vinyl", "12in", "Cube"}} \cup
  {<<[format |-> f, copied |-> 1], Bare, [format |-> g, copied |-> 2]>> :
     f \in {"Cube", "CD"}, g \in {"Box", "Vinyl", "Promo", "Reel"}}

Facts ==
  {[status |-> None, packaging |-> None, primaryType |-> None, secondaryTypes |-> {}],
   [status |-> "Official", packaging |-> "Odd", primaryType |-> "Album", secondaryTypes |-> {"Live"}],
   [status |-> "Bootleg", packaging |-> "Digipak", primaryType |-> "Odd",
    secondaryTypes |-> {"Live", "Odder"}]}

Stateds ==
  {[barcode |-> None, labelInfo |-> <<>>],
   [barcode |-> Text("0 1", FALSE, "01", TRUE, TRUE),
    labelInfo |-> <<[number |-> None], [number |-> Text("cat 1", TRUE, "1", FALSE, TRUE)]>>],
   [barcode |-> Text("01", FALSE, "01", FALSE, FALSE),
    labelInfo |-> <<[number |-> Text(None, FALSE, None, TRUE, FALSE)]>>],
   [barcode |-> Text("none", TRUE, None, FALSE, FALSE), labelInfo |-> <<>>]}

Events == <<Bare, [date |-> None, area |-> None], [date |-> 1969, area |-> None]>>

ReleaseLines ==
  {Line("r", <<Discogs("release", 4)>>) @@ facts @@ stated @@ [media |-> m, events |-> Events] :
     m \in Media, facts \in Facts, stated \in Stateds}

MCDumps == [artists  |-> UpToTwo(ArtistLines),
            labels   |-> UpToTwo({Malformed, Line("a", <<To("artist", "artist", "a"), Discogs("label", 1)>>)}),
            releases |-> {<<l>> : l \in ReleaseLines}]

Entry(family, medium, variant, container, flag) ==
  [family |-> family, medium |-> medium, variant |-> variant, container |-> container, flag |-> flag]

FirstMedia ==
  [version  |-> 1,
   formats  |-> ("CD"     :> Entry(None, <<"optical", "cd">>, None, None, None)) @@
                ("SHM-CD" :> Entry(None, <<"optical", "cd">>, "shm", None, None)) @@
                ("Vinyl"  :> Entry("vinyl", None, None, None, None)) @@
                ("12in"   :> Entry(None, <<"vinyl", "12">>, None, None, None)),
   families |-> [vinyl |-> [attribute |-> "size_inches", map |-> (12 :> <<"vinyl", "12">>)],
                 optical |-> None],
   media    |-> [m \in {<<"optical", "cd">>, <<"vinyl", "12">>, <<"vinyl", "unspecified">>,
                        <<"other", "unspecified">>} |->
                   [family   |-> m[1],
                    defaults |-> IF m[2] = "12" THEN [size_inches |-> 12] ELSE <<>>]],
   status   |-> [Official |-> None, Bootleg |-> "unofficial"],
   packaging |-> [Digipak |-> "digipak"],
   primaryTypes |-> [Album |-> "album"],
   secondaryTypes |-> [Live |-> "live"]]

\* The next vocabulary knows more formats, among them a container and a flag.
SecondMedia ==
  [FirstMedia EXCEPT
     !.version = 2,
     !.formats = @ @@ ("Cube"  :> Entry("vinyl", None, None, None, None))
                   @@ ("Box"   :> Entry(None, None, None, "box", None))
                   @@ ("Promo" :> Entry(None, None, None, None, "promo"))]

IdentifierVocabulary ==
  [version |-> 1, unmappedType |-> "other",
   types |-> [barcode |-> "barcode"] @@ ("catalog-number" :> "catalog_number"),
   namespaces |-> {[provider |-> "barcode", type |-> "barcode", rule |-> "digits_only"],
                   [provider |-> "catalog_number", type |-> "catalog_number",
                    rule |-> "upper_collapse_space"]}]

MCVocabularies == {[media |-> m, identifiers |-> IdentifierVocabulary] : m \in {FirstMedia, SecondMedia}}

MCDataTypes == {"artists", "labels", "releases"}
================================================================================
