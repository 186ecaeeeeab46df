------------------------------- MODULE RegMap -------------------------------
(***************************************************************************)
(* The register file of the register front end, as                         *)
(* src/util/mario/frontend.py describes it for the register tool.  Widths  *)
(* and numbers of dimensions are the numbers in the front end ID; the      *)
(* template src/src/frontend/reg/tpl/idma_reg.hjson.tpl puts the           *)
(* configuration, status and id registers before the ones rendered here.   *)
(***************************************************************************)
EXTENDS Integers, Sequences, SequencesExt, FiniteSetsExt, Functions

NumProtBits == 3

(* A register is a quantity of a dimension; the names dst_addr, src_addr   *)
(* and length stand for the quantities of dimension 1.                     *)
Quantities == <<"dst", "src", "reps">>
Register(i, half) ==
    [name |-> Quantities[((i - 1) % 3) + 1], dim |-> (i - 1) \div 3 + 1, half |-> half]

(* The registers of dimension 1 are always there. *)
NumRegs(dims) == 3 * Max({1, dims})
Regs(dims, half) == [i \in 1..NumRegs(dims) |-> Register(i, half)]

SkipTo(offset) == [skipto |-> offset]
IsSkip(entry) == "skipto" \in DOMAIN entry

(* Eight bytes per register whatever the width, so that software finds the *)
(* low half at the same place.  With no dimension the 32-bit lists differ  *)
(* in length and the slice assignment raises ValueError.                   *)
AlignRegs(dims) == [i \in 1..(3 * dims) |-> SkipTo(8 * (i - 1) + 208)]

Entries(width, dims) ==
    IF width = 32 THEN FlattenSeq(Interleave(AlignRegs(dims), Regs(dims, "low")))
    ELSE <<SkipTo(208)>> \o FlattenSeq(Interleave(Regs(dims, "low"), Regs(dims, "high")))

RegStatus(width, dims) ==
    IF width \notin {32, 64} THEN "exit 255"
    ELSE IF width = 32 /\ dims = 0 THEN "ValueError" ELSE "0"

(* Mutant: one dimension too few is counted. *)
NumDimBitsShort(dims) ==
    IF dims > 2 THEN CHOOSE b \in 0..(dims - 2) : 2^b <= dims - 2 /\ dims - 2 < 2^(b + 1) ELSE 0

(* int(math.log2(dims - 1)) *)
NumDimBits(dims) ==
    IF dims > 1 THEN CHOOSE b \in 0..(dims - 2) : 2^b <= dims - 1 /\ dims - 1 < 2^(b + 1) ELSE 0

(* The fields of the configuration register that depend on the dimensions. *)
Fields(dims) ==
    LET b == NumDimBits(dims)
    IN  [enable_nd    |-> [hi |-> 10 + b, lo |-> 10],
         src_protocol |-> [hi |-> 10 + b + NumProtBits, lo |-> 10 + b + 1],
         dst_protocol |-> [hi |-> 10 + b + 2 * NumProtBits, lo |-> 10 + b + NumProtBits + 1]]

(* What the register tool does with the list: registers follow each other  *)
(* in words, a mark moves on and may not move back.                        *)
FirstFree == 196  \* after conf and 16 words each of status, next_id and done_id

Placed(entries) ==
    FoldLeft(LAMBDA map, entry :
                 IF IsSkip(entry)
                 THEN [map EXCEPT !.next = entry.skipto, !.ok = @ /\ entry.skipto >= map.next]
                 ELSE [map EXCEPT !.at = Append(@, <<entry, map.next>>), !.next = @ + 4],
             [at |-> <<>>, next |-> FirstFree, ok |-> TRUE], entries)

(* render_reg_top: the template loops over the further dimensions, and     *)
(* reaches into the burst request of an n-dimensional one.                 *)
UsedRegs(width, dims) ==
    {Register(i, half) : i \in 1..(3 * Max({1, dims})), half \in IF width = 32 THEN {"low"} ELSE {"low", "high"}}

----------------------------------------------------------------------------
Overlap(f, g) == f.lo <= g.hi /\ g.lo <= f.hi

(* The register map is one software can be written against: each register  *)
(* the hardware reads has one place of its own, the low halves are where   *)
(* they are in every other width, the dimension field holds every number   *)
(* of enabled dimensions, and the fields fit next to each other.           *)
MapSound(width, dims) ==
    LET placed == Placed(Entries(width, dims))
        fields == Fields(dims)
    IN  /\ placed.ok
        /\ UsedRegs(width, dims) = {pair[1] : pair \in ToSet(placed.at)}
        /\ \A i, j \in DOMAIN placed.at : i # j => placed.at[i][1] # placed.at[j][1] /\ placed.at[i][2] # placed.at[j][2]
        /\ \A i \in 1..NumRegs(dims) : <<Register(i, "low"), 208 + 8 * (i - 1)>> \in ToSet(placed.at)
        /\ 2^(fields.enable_nd.hi - fields.enable_nd.lo + 1) > dims - 1
        /\ \A f, g \in DOMAIN fields : f # g => ~Overlap(fields[f], fields[g])
        /\ \A f \in DOMAIN fields : 10 <= fields[f].lo /\ fields[f].lo <= fields[f].hi /\ fields[f].hi < 32
=============================================================================
