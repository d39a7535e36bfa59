------------------------------- MODULE DataSets -------------------------------
(***************************************************************************)
(* The data sets of the two benchmarks: the keys of data_dist as 64-bit    *)
(* words, the rows a server inserts from a file, and the keys a client     *)
(* asks for from its copy of that file.  A file is the sequence of its     *)
(* lines, already split into numbers.                                      *)
(***************************************************************************)
EXTENDS Integers, Sequences, FiniteSetsExt

CONSTANTS
  HalfBits,     \* bits of half a word (32 in the code)
  kMaxDPerW,
  kMaxOrderPD,
  NumberFile,   \* lognormal_uni_100m.txt, log_data.txt: one number per line, or Junk
  OrderFile,    \* tpcc.txt: lines <<w, d, o, n>>
  RatingFile,   \* ar_r.txt: lines <<r, p>>
  MapFile       \* smap.txt: lines <<lon, lat>>

Half == 2 ^ HalfBits
WordMax == Half * Half
Junk == -1

ASSUME DataAssumption ==
  /\ HalfBits \in Nat /\ Half \in Nat \ {0}
  /\ kMaxDPerW \in Nat /\ kMaxOrderPD \in Nat
  /\ NumberFile \in Seq(Nat \cup {Junk})
  /\ OrderFile \in Seq(Nat \X Nat \X Nat \X Nat)
  /\ RatingFile \in Seq(Nat \X Nat) /\ MapFile \in Seq(Int \X Int)

-----------------------------------------------------------------------------
(* Keys. *)

\* TPCCKey(w, d, o, n); the shift drops what does not fit the word.
DistrictOf(w, d) == w * kMaxDPerW + d

\* Faulty variant: the orders of a district get no range of their own.
TPCCKey_Mixed(w, d, o, n) == ((DistrictOf(w, d) + o) * Half + n) % WordMax

TPCCKey(w, d, o, n) == ((DistrictOf(w, d) * kMaxOrderPD + o) * Half + n) % WordMax

\* The constructor's assertion bounds the district, not the whole key.
TPCCKeyAsserts(w, d) == DistrictOf(w, d) < kMaxOrderPD

\* ARKey(p, r): bit fields, the product in the lower half.
ARKey(p, r) == (r % Half) * Half + (p % Half)

\* MapKey compares points by one number (to_scalar), so points with the same
\* number are the same key.
MapScalar(lat, lon) == (lat + 360) * 360 + (lon + 360)

-----------------------------------------------------------------------------
(* Files. *)

\* FileLoader::default_converter: a line that is no number reads as 0.
Converted(line) == IF line = Junk THEN 0 ELSE line

\* The lines read by a loop that stops after count lines or at the end of the file.
Read(file, count) == 1..Min({count, Len(file)})

\* Loops that test their count only after they used a line read at least one.
AfterUse(n) == Max({n, 1})

-----------------------------------------------------------------------------
(* What a server inserts: pairs of a key and its value. *)

YCSBLinear(n) == {<<k, k>> : k \in 0..(n - 1)}

YCSBFile(n) == {<<Converted(NumberFile[i]), Converted(NumberFile[i])>> : i \in Read(NumberFile, n)}

LogFile(n) == {<<Converted(NumberFile[i]), Converted(NumberFile[i])>> : i \in Read(NumberFile, n)}

TPCCRow(l) == <<TPCCKey(l[1], l[2], l[3], l[4]), l[1]>>
TPCCFile(n) == {TPCCRow(OrderFile[i]) : i \in Read(OrderFile, AfterUse(n))}

\* Every order that is loaded passes the constructor's assertion.
Loads(data, n) ==
  data = "tpcc" =>
    \A i \in Read(OrderFile, AfterUse(n)) : TPCCKeyAsserts(OrderFile[i][1], OrderFile[i][2])

ARFile(n) == {<<ARKey(RatingFile[i][2], RatingFile[i][1]), RatingFile[i][1]>> :
                i \in Read(RatingFile, AfterUse(n))}

\* load_map stops when more than n lines were used.
MapRows(n) == {<<MapScalar(MapFile[i][2], MapFile[i][1]), MapFile[i][2]>> :
                 i \in Read(MapFile, n + 1)}

Rows(data, n) ==
  CASE data = "linear" -> YCSBLinear(n)
    [] data = "file"   -> YCSBFile(n)
    [] data = "log"    -> LogFile(n)
    [] data = "tpcc"   -> TPCCFile(n)
    [] data = "ar"     -> ARFile(n)
    [] data = "map"    -> MapRows(n)

-----------------------------------------------------------------------------
(* What a client asks for. *)

\* YCSBCWorkloadUniform draws from the loaded range.
UniformKeys(n) == 0..(n - 1)

YCSBKeys(n) == {Converted(NumberFile[i]) : i \in Read(NumberFile, n)}

LogKeys(n) == {Converted(NumberFile[i]) : i \in Read(NumberFile, n)}

TPCCKeys(n) == {TPCCRow(OrderFile[i])[1] : i \in Read(OrderFile, AfterUse(n))}

\* The client fills no key list for the two other data sets.
AskedKeys(data, n) ==
  CASE data = "linear" -> UniformKeys(n)
    [] data = "file"   -> YCSBKeys(n)
    [] data = "log"    -> LogKeys(n)
    [] data = "tpcc"   -> TPCCKeys(n)
    [] data \in {"ar", "map"} -> {}

=============================================================================
