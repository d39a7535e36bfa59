-------------------------------- MODULE XImage --------------------------------
(***************************************************************************)
(* The trained index as bytes: what serialize_db writes into registered    *)
(* memory and how a client turns it back into submodels and translation    *)
(* tables.  Memory is a sequence of 4-byte cells; offsets are in cells.    *)
(***************************************************************************)
EXTENDS Integers, SequencesExt

\* Memory that was never written is zero.
Cell(cells, i) == IF i \in DOMAIN cells THEN cells[i] ELSE 0

\* A serialised XSubModel: err_max, err_min, max, and the regression behind an
\* 8-byte length (u64 and two doubles).  Submodel m is told by its cells.
ModelCells == 9
SerializeModel(m) == [j \in 1..ModelCells |-> 16 * m + j]

\* The submodel in a cut-out buffer; Garbage when the cells are not of one.
Garbage == -1
FromModel(buf) == LET m == buf[1] \div 16 IN IF buf = SerializeModel(m) THEN m ELSE Garbage

\* TT::serialize: the number of entries (u32), then each entry (u64; the model's
\* addresses fit its lower half).
SerializeTT(tt) == <<Len(tt)>> \o [j \in 1..(2 * Len(tt)) |-> IF j % 2 = 1 THEN tt[(j + 1) \div 2] ELSE 0]

\* TT::from_serialize: the entries start after the count.
FromTT(cells, at) ==
  [j \in 1..Cell(cells, at) |-> Cell(cells, at + 2 * j - 1)]

RoundUp(n, multiple) == ((n + multiple - 1) \div multiple) * multiple

\* serialize_db: submodels, padding to 8 bytes, tables.
SerializeDB(models, tts) ==
  LET ms == FlattenSeq([i \in DOMAIN models |-> SerializeModel(models[i])])
      start == RoundUp(Len(ms), 2)
      pad == [j \in 1..(start - Len(ms)) |-> 0]
  IN [cells |-> ms \o pad \o FlattenSeq([i \in DOMAIN tts |-> SerializeTT(tts[i])]),
      tt_buf |-> start]

-----------------------------------------------------------------------------
(* The client's side: num submodels, then as many tables. *)

ParseModels(cells, num) ==
  [i \in 1..num |-> FromModel([j \in 1..ModelCells |-> Cell(cells, (i - 1) * ModelCells + j)])]

\* Faulty variant: the count of a table is not skipped.
TTOffsets_Short(cells, num, from) ==
  LET off[i \in 0..num] == IF i = 0 THEN from ELSE off[i - 1] + 2 * Cell(cells, off[i - 1] + 1)
  IN off

\* The offset of table i + 1 when the first one is read at offset from: each one
\* moves it on by tt_sz().
TTOffsets(cells, num, from) ==
  LET off[i \in 0..num] == IF i = 0 THEN from ELSE off[i - 1] + 1 + 2 * Cell(cells, off[i - 1] + 1)
  IN off

ParseTTs(cells, num, from) ==
  [i \in 1..num |-> FromTT(cells, TTOffsets(cells, num, from)[i - 1] + 1)]

\* ycsb/client.cc goes on behind the last submodel.
YCSBParse(cells, num, tt_buf) ==
  [models |-> ParseModels(cells, num), tts |-> ParseTTs(cells, num, num * ModelCells)]

\* data_dist/client.cc goes to the tables' own address.
DistParse(cells, num, tt_buf) ==
  [models |-> ParseModels(cells, num), tts |-> ParseTTs(cells, num, tt_buf)]

=============================================================================
