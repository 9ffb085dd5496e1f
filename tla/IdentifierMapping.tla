--------------------------- MODULE IdentifierMapping ---------------------------
(***************************************************************************)
(* The canonical identifiers of a release (src/musicbrainz/identifiers.rs) *)
(* under the vocabulary w.  A text is a record of what the normalisations  *)
(* tell apart: its words (None when it is blank) and whether they are in   *)
(* lower case, its digits (None without any), and whether it has           *)
(* whitespace at the ends and runs of it inside.                           *)
(***************************************************************************)
EXTENDS Integers, Sequences

CONSTANT None

\* A text is a record, and so is what becomes of it; one with digits is not blank.
IsText(text) ==
  /\ text = [words |-> text.words, lower |-> text.lower, digits |-> text.digits,
             outer |-> text.outer, inner |-> text.inner]
  /\ None \notin {[text EXCEPT !.outer = FALSE], [words |-> text.digits, lower |-> FALSE]}
  /\ text.digits # None => text.words # None

\* What the vendored vocabulary has, and a later one has to keep: a barcode is known
\* and nothing else is taken for one, and barcodes, they alone, have an alias of
\* provider "barcode", made of their digits.
KnowsBarcodes(w) ==
  /\ "barcode" \in DOMAIN w.types
  /\ w.types["barcode"] \notin {w.unmappedType} \cup {w.types[r] : r \in DOMAIN w.types \ {"barcode"}}
  /\ {n \in w.namespaces : n.provider = "barcode"} # {}
  /\ \A n \in w.namespaces :
       n.provider = "barcode" => n.type = w.types["barcode"] /\ n.rule = "digits_only"

Trimmed(text) ==
  IF text = None THEN None ELSE IF text.words = None THEN None
  ELSE [text EXCEPT !.outer = FALSE]

\* Mutant: the value as it was received.
AliasVerbatim(rule, text) ==
  IF rule \in {"digits_only", "collapse_space", "upper_collapse_space"} THEN text ELSE None

\* None for a rule that the code does not know, or when nothing is left.
AliasValue(rule, text) ==
  CASE rule = "digits_only" /\ text.digits # None -> [words |-> text.digits, lower |-> FALSE]
    [] rule = "collapse_space"                    -> [words |-> text.words, lower |-> text.lower]
    [] rule = "upper_collapse_space"              -> [words |-> text.words, lower |-> FALSE]
    [] OTHER                                      -> None

\* The barcode is at position 0, the catalogue numbers at theirs in label-info.
MapMusicBrainzIdentifiers(line, w) ==
  LET value(i)   == Trimmed(IF i = 0 THEN line.barcode ELSE line.labelInfo[i].number)
      rawType(i) == IF i = 0 THEN "barcode" ELSE "catalog-number"
      stated     == {i \in 0 .. Len(line.labelInfo) : value(i) # None}
      type(i)    == IF rawType(i) \in DOMAIN w.types THEN w.types[rawType(i)]
                    ELSE w.unmappedType
      alias(i, n) == AliasValue(n.rule, value(i))
  IN  [version  |-> w.version,
       items    |-> [i \in stated |-> [type |-> type(i), value |-> value(i)]],
       types    |-> {type(i) : i \in stated},
       aliases  |-> UNION {{<<n.provider, alias(i, n)>> :
                              n \in {m \in w.namespaces : m.type = type(i) /\ alias(i, m) # None}} :
                            i \in stated},
       unmapped |-> {rawType(i) : i \in stated} \ DOMAIN w.types]
================================================================================
