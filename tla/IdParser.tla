------------------------------ MODULE IdParser ------------------------------
(***************************************************************************)
(* The configuration IDs of the generator MARIO (src/util/mario/util.py).  *)
(* An ID such as rw_axi_w_obi is the sequence of its words, and a front    *)
(* end ID such as reg32_3d the pair of its bit width and dimensions.       *)
(***************************************************************************)
EXTENDS Integers, Sequences, SequencesExt, FiniteSetsExt, Functions, TLC

CONSTANT Alphabet  \* the words of the IDs, in the order of sorted()

ASSUME AlphabetAssumption == IsInjective(Alphabet)

Rank(word) == CHOOSE k \in DOMAIN Alphabet : Alphabet[k] = word
AtMost(a, b) == Rank(a) <= Rank(b)

Classes == {"r", "w", "rw"}

(* id[::2], and the words after those of one specifier. *)
Specifiers(id) == [k \in 1..((Len(id) + 1) \div 2) |-> id[2 * k - 1]]

Protocols(id, specifier) ==
    LET pairs == [k \in 1..(Len(id) \div 2) |-> <<id[2 * k - 1], id[2 * k]>>]
        chosen == SelectSeq(pairs, LAMBDA pair : pair[1] = specifier)
    IN  [k \in DOMAIN chosen |-> chosen[k][2]]

Readers(id) == Protocols(id, "r") \o Protocols(id, "rw")
Writers(id) == Protocols(id, "w") \o Protocols(id, "rw")

(* Mutant: the check for double protocols looks at each specifier alone. *)
OnceEach(id) == \A specifier \in Classes : IsInjective(Protocols(id, specifier))

PortsUnique(id) == IsInjective(Readers(id)) /\ IsInjective(Writers(id))

(* How the parsing of one ID ends: an ID cut off after a specifier is read *)
(* past its end.                                                           *)
IdStatus(id) ==
    IF ~IsSorted(Specifiers(id), AtMost) \/ ~(ToSet(Specifiers(id)) \subseteq Classes) THEN "exit 1"
    ELSE IF Len(id) % 2 = 1 THEN "IndexError"
    ELSE IF \/ \E specifier \in Classes : ~IsSorted(Protocols(id, specifier), AtMost)
            \/ ~PortsUnique(id)
    THEN "exit 1" ELSE "0"

(* The entries of the resulting dictionary. *)
Ports(id) ==
    [ar |-> SortSeq(Readers(id), AtMost),
     aw |-> SortSeq(Writers(id), AtMost),
     used |-> SetToSortSeq(ToSet(Readers(id)) \cup ToSet(Writers(id)), AtMost)]

(* A dictionary keeps the first position of a key that is set again. *)
Keys(seq) == FoldLeft(LAMBDA seen, key : IF Contains(seen, key) THEN seen ELSE Append(seen, key), <<>>, seq)

(* The first ID that is refused decides; otherwise all are accepted. *)
PrepareIds(ids) ==
    LET bad == {k \in DOMAIN ids : IdStatus(ids[k]) # "0"}
    IN  [status |-> IF bad = {} THEN "0" ELSE IdStatus(ids[Min(bad)]), ids |-> Keys(ids)]

(* What findall() finds in the front end IDs; a string without a match is  *)
(* dropped without a word.  A string is the sequence of its matches.       *)
PrepareFids(strings) == Keys(FlattenSeq(strings))

----------------------------------------------------------------------------
(* The language of IDs, as the help text of the generator describes it:    *)
(* specifiers alphabetically, protocols alphabetically within a specifier, *)
(* rw exclusive to r and w for a protocol.                                 *)
After(id, specifier) == {id[2 * k] : k \in {k \in 1..(Len(id) \div 2) : id[2 * k - 1] = specifier}}

Listing(specifier, protocols) ==
    FoldLeft(LAMBDA id, p : id \o <<specifier, p>>, <<>>, SetToSortSeq(protocols, AtMost))

WellFormed(id) ==
    /\ After(id, "r") \cap After(id, "rw") = {} /\ After(id, "w") \cap After(id, "rw") = {}
    /\ id = Listing("r", After(id, "r")) \o Listing("rw", After(id, "rw")) \o Listing("w", After(id, "w"))
=============================================================================
