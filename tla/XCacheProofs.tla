---------------------------- MODULE XCacheProofs ----------------------------
(***************************************************************************)
(* Proofs about the learned cache (XCache), for every leaf list, every     *)
(* router, every model and every number of submodels.                      *)
(*                                                                         *)
(* CacheInv follows the training: the walk and its table count the same    *)
(* leaves (WalkInv, TableInv), a sampler has what it needs of each leaf    *)
(* behind the walk (AllInv, PageInv), so every key lies between two        *)
(* samples of its page (BracketInv), whose errors reach that page          *)
(* (ErrInv).  A trained submodel then finds each key that is routed to it  *)
(* (TrainedInv).                                                           *)
(***************************************************************************)
EXTENDS XCache, FiniteSetTheorems, WellFoundedInduction, TLAPS

\* Leaf p has so many keys.
Size(p) == Len(leaves[p].keys)

\* The walk of submodel s starts at this leaf.
Base(s) == LeafOf(start_key[s])

\* What the walk of the submodel in training makes of the key in slot i of leaf p.
At(p, i) == [key |-> leaves[p].keys[i], label |-> encode_logic_addr(p - Base(m), i - 1)]

\* The walk has passed that key.
Passed(p, i) ==
  /\ p \in DOMAIN leaves /\ i \in 1..Size(p)
  /\ Base(m) <= p
  /\ page = 0 \/ p < page \/ (p = page /\ i < idx)

\* Training goes through the submodels in order and finds their tables empty.
PlaceInv ==
  /\ m \in 0..NumSub
  /\ pc = "dispatch" => m = 0
  /\ pc = "serve" <=> m = NumSub
  /\ \A s \in Sub : s > m \/ (s = m /\ pc \in {"dispatch", "next"}) => tts[s] = <<>>

\* A trainer has the least and the greatest key that the first layer routes to it.
RangeInv ==
  pc # "dispatch" =>
    \A s \in Sub :
      \/ Routed(s) = {} /\ end_key[s] = -1
      \/ /\ start_key[s] \in Routed(s) /\ end_key[s] \in Routed(s)
         /\ \A k \in Routed(s) : start_key[s] <= k /\ k <= end_key[s]

\* The table has the leaves of the walk in their order, and the walk has counted them.
TableInv ==
  pc \in {"scan", "err"} =>
    /\ end_key[m] # -1 /\ tts[m] # <<>> /\ logic_page_id = Len(tts[m])
    /\ \A j \in DOMAIN tts[m] :
         /\ Base(m) + j - 1 \in DOMAIN leaves
         /\ get_wo_incar(tts[m][j]) = Base(m) + j - 1

\* The walk is at the last leaf of the table, and has passed no key behind the range.
WalkInv ==
  pc = "scan" =>
    /\ page # 0 => page = Base(m) + Len(tts[m]) - 1 /\ idx \in 1..Size(page)
    /\ page = 0 => Len(leaves) = Base(m) + Len(tts[m]) - 1
    /\ \A p \in DOMAIN leaves : \A i \in 1..Size(p) : Passed(p, i) => leaves[p].keys[i] <= end_key[m]
    /\ \A n \in DOMAIN train : \E p \in DOMAIN leaves : \E i \in 1..Size(p) :
         Passed(p, i) /\ train[n] = At(p, i)

\* DefaultSample has every key passed, and none on a later leaf than the last one.
AllInv ==
  pc = "scan" /\ setup.sampler = "all" =>
    /\ \A p \in DOMAIN leaves : \A i \in 1..Size(p) : Passed(p, i) => \E n \in DOMAIN train : train[n] = At(p, i)
    /\ \A n \in DOMAIN train : decode_logic_id(train[n].label) <= decode_logic_id(train[Len(train)].label)

\* The leaf and the slot of the last key passed.
Started == page = 0 \/ page # Base(m) \/ idx # 1
LastLeaf == IF page = 0 THEN Len(leaves) ELSE IF idx = 1 THEN page - 1 ELSE page
LastSlot == IF page # 0 /\ idx # 1 THEN idx - 1 ELSE Size(LastLeaf)

\* PageSampler has the first and the last key of every leaf behind the walk, and
\* holds the first and the last key passed of the leaf the walk is on.
PageInv ==
  pc = "scan" /\ setup.sampler = "page" =>
    IF Started
    THEN /\ smin = At(LastLeaf, 1)
         /\ smax = IF LastSlot = 1 THEN None ELSE At(LastLeaf, LastSlot)
         /\ Len(train) = 2 * (LastLeaf - Base(m))
         /\ \A p \in Base(m)..(LastLeaf - 1) :
              /\ \E n \in DOMAIN train : train[n] = At(p, 1)
              /\ \E n \in DOMAIN train : train[n] = At(p, Size(p))
    ELSE smin = None /\ smax = None /\ train = <<>>

\* A sample's logical address is translated to the leaf and the slot of its key.
Translates(x) ==
  LET id  == decode_logic_id(x.label)
      off == decode_off(x.label) IN
  /\ id < Len(tts[m])
  /\ LET p == get_wo_incar(tts[m][id + 1]) IN
     p \in DOMAIN leaves /\ off + 1 \in DOMAIN leaves[p].keys /\ leaves[p].keys[off + 1] = x.key

LabelInv == pc = "err" => \A n \in DOMAIN train : Translates(train[n])

\* On the page of each key of submodel m there are samples, one predicted at or
\* before the key and one at or behind it.
BracketInv ==
  pc = "err" =>
    \A k \in Routed(m) :
      LET id == LeafOf(k) - Base(m)
          f  == second_layer[m].ml IN
      /\ id \in 0..(Len(tts[m]) - 1)
      /\ id <= decode_logic_id(second_layer[m].max)
      /\ \E a \in DOMAIN train : decode_logic_id(train[a].label) = id /\ f[train[a].key] <= f[k]
      /\ \E b \in DOMAIN train : decode_logic_id(train[b].label) = id /\ f[k] <= f[train[b].key]

\* From the prediction p for a sample, the errors reach the page of its label.
Covers(x, label, p) ==
  /\ decode_logic_id(Max2(0, p + x.err_min)) <= decode_logic_id(label)
  /\ decode_logic_id(label) <= decode_logic_id(p + x.err_max)

ErrInv ==
  pc = "err" =>
    \A n \in 1..done :
      Covers(second_layer[m], train[n].label, get_point_predict(second_layer[m], train[n].key))

\* The predictions of submodel s hold the page of each of its keys.
Trained(s) ==
  \A k \in Routed(s) :
    LET id == LeafOf(k) - Base(s) IN
    /\ FirstPage(k) <= id /\ id <= LastPage(k)
    /\ get_wo_incar(tts[s][id + 1]) = LeafOf(k)

TrainedInv == pc # "dispatch" => \A s \in Sub : s < m => Trained(s)

\* A client has the pages of its key.
ClientInv ==
  /\ cpc # "idle" => pc = "serve" /\ ckey \in Stored
  /\ cpc = "predicted" => ns = FirstPage(ckey) /\ ne = LastPage(ckey)

CacheInv ==
  /\ TypeOK /\ PlaceInv /\ RangeInv /\ TableInv /\ WalkInv /\ AllInv /\ PageInv
  /\ LabelInv /\ BracketInv /\ ErrInv /\ TrainedInv /\ ClientInv

-----------------------------------------------------------------------------
(* Least and greatest numbers. *)

\* A set of naturals has a least member.
LEMMA NatMin ==
  ASSUME NEW T \in SUBSET Nat, T # {}
  PROVE  \E l \in T : \A k \in T : l <= k
<1> DEFINE R == OpToRel(<, Nat)
<1>1. IsWellFoundedOn(R, Nat)
  BY NatLessThanWellFounded
<1>2. R = {ss \in Nat \X Nat : ss[1] < ss[2]}
  BY DEF OpToRel
<1> HIDE DEF R
<1>3. PICK x \in T : \A y \in T : <<y, x>> \notin R
  BY <1>1, WFMin
<1>4. \A y \in T : ~(y < x)
  BY <1>2, <1>3
<1>5. ASSUME NEW y \in T PROVE x <= y
  <2>1. x \in Nat /\ y \in Nat
    OBVIOUS
  <2> QED
    BY <2>1, <1>4
<1> QED
  BY <1>5

\* A bounded set of naturals has a greatest member.
LEMMA NatMax ==
  ASSUME NEW B \in Nat, NEW S \in SUBSET (0..B), S # {}
  PROVE  \E g \in S : \A k \in S : k <= g
<1> DEFINE T == {B - k : k \in S}
<1>1. T \in SUBSET Nat /\ T # {}
  <2>1. \A k \in S : k \in 0..B
    OBVIOUS
  <2>2. \A k \in 0..B : B - k \in Nat
    OBVIOUS
  <2> QED
    BY <2>1, <2>2
<1>2. PICK t \in T : \A k \in T : t <= k
  BY <1>1, NatMin
<1>3. PICK g \in S : t = B - g
  OBVIOUS
<1>4. ASSUME NEW k \in S PROVE k <= g
  <2>1. B - g <= B - k
    BY <1>2, <1>3
  <2>2. k \in 0..B /\ g \in 0..B
    OBVIOUS
  <2> QED
    BY <2>1, <2>2
<1> QED
  BY <1>4

-----------------------------------------------------------------------------
(* Logical addresses. *)

\* Division rounds down.
LEMMA DivRounds ==
  ASSUME NEW a \in Int
  PROVE  /\ a \div N \in Int /\ a % N \in 0..(N - 1)
         /\ a = (N * (a \div N)) + (a % N)
BY XCacheAssumption

\* The pages that a page number leaves behind it.
LEMMA TimesRises ==
  ASSUME NEW a \in Int, NEW b \in Int, a < b
  PROVE  N * a + N <= N * b
BY XCacheAssumption

\* Addresses in order are on pages in order.
LEMMA DivRises ==
  ASSUME NEW a \in Int, NEW b \in Int, a <= b
  PROVE  decode_logic_id(a) <= decode_logic_id(b) /\ decode_logic_id(a) \in Int
<1>1. N \in Nat
  BY XCacheAssumption
<1> QED
  BY <1>1, DivRounds, TimesRises DEF decode_logic_id

\* A logical address is decoded to what it was made of.
LEMMA Decodes ==
  ASSUME NEW id \in Int, NEW off \in 0..(N - 1)
  PROVE  /\ encode_logic_addr(id, off) \in Int
         /\ id \in Nat => encode_logic_addr(id, off) \in Nat
         /\ decode_logic_id(encode_logic_addr(id, off)) = id
         /\ decode_off(encode_logic_addr(id, off)) = off
<1> DEFINE a == id * N + off
<1>1. N \in Nat /\ N >= 4 /\ a \in Int /\ (id \in Nat => a \in Nat)
  BY XCacheAssumption
<1>2. a \div N \in Int /\ a % N \in 0..(N - 1) /\ a = (N * (a \div N)) + (a % N)
  BY <1>1, DivRounds
<1>3. a = N * id + off
  BY <1>1
<1> HIDE DEF a
<1>4. a \div N = id
  <2>1. ~(a \div N < id)
    BY <1>1, <1>2, <1>3, TimesRises
  <2>2. ~(id < a \div N)
    BY <1>1, <1>2, <1>3, TimesRises
  <2> QED
    BY <1>2, <2>1, <2>2
<1>5. a % N = off
  BY <1>1, <1>2, <1>3, <1>4
<1> QED
  BY <1>1, <1>4, <1>5 DEF a, decode_logic_id, encode_logic_addr, decode_off

\* The incarnation beside an address is trimmed again.
LEMMA Trims ==
  ASSUME NEW addr \in Nat, NEW incar \in Nat
  PROVE  /\ addr * 256 + (incar % 256) \in Nat
         /\ get_wo_incar(addr * 256 + (incar % 256)) = addr
BY DEF get_wo_incar

-----------------------------------------------------------------------------
(* Predictions and their errors. *)

Model == [ml : [Key -> Int], max : Nat, err_min : Int, err_max : Nat]

\* A prediction is an address, and follows the order of the model.
LEMMA PointRises ==
  ASSUME NEW x \in Model, NEW k \in Key, NEW j \in Key
  PROVE  /\ get_point_predict(x, k) \in Nat
         /\ x.ml[k] <= x.ml[j] => get_point_predict(x, k) <= get_point_predict(x, j)
<1>1. x.ml[k] \in Int /\ x.ml[j] \in Int /\ x.max \in Nat
  BY DEF Model
<1> QED
  BY <1>1 DEF get_point_predict, Min2, Max2

\* Greater errors cover as much.
LEMMA CoversMore ==
  ASSUME NEW x \in Model, NEW y \in Model, y.err_min <= x.err_min, x.err_max <= y.err_max,
         NEW label \in Nat, NEW p \in Nat, Covers(x, label, p)
  PROVE  Covers(y, label, p)
<1>1. /\ x.err_min \in Int /\ y.err_min \in Int /\ x.err_max \in Int /\ y.err_max \in Int
  BY DEF Model
<1>2. /\ Max2(0, p + y.err_min) \in Int /\ Max2(0, p + x.err_min) \in Int
      /\ Max2(0, p + y.err_min) <= Max2(0, p + x.err_min)
      /\ p + x.err_max \in Int /\ p + y.err_max \in Int /\ p + x.err_max <= p + y.err_max
  BY <1>1 DEF Max2
<1>3. /\ decode_logic_id(Max2(0, p + y.err_min)) <= decode_logic_id(Max2(0, p + x.err_min))
      /\ decode_logic_id(p + x.err_max) <= decode_logic_id(p + y.err_max)
  BY <1>2, DivRises
<1>4. /\ decode_logic_id(Max2(0, p + y.err_min)) \in Int /\ decode_logic_id(Max2(0, p + x.err_min)) \in Int
      /\ decode_logic_id(p + x.err_max) \in Int /\ decode_logic_id(p + y.err_max) \in Int
      /\ decode_logic_id(label) \in Int
  BY <1>2, DivRises
<1> QED
  BY <1>3, <1>4 DEF Covers

\* What covers a page: errors that reach an address of it, or go beyond, on each side.
LEMMA CoversIf ==
  ASSUME NEW x \in Model, NEW label \in Nat, NEW p \in Nat,
         NEW a \in Nat, decode_logic_id(a) <= decode_logic_id(label), p + x.err_min <= a,
         NEW b \in Nat, decode_logic_id(label) <= decode_logic_id(b), b <= p + x.err_max
  PROVE  Covers(x, label, p)
<1>1. x.err_min \in Int /\ x.err_max \in Int
  BY DEF Model
<1>2. Max2(0, p + x.err_min) \in Int /\ Max2(0, p + x.err_min) <= a /\ p + x.err_max \in Int
  BY <1>1 DEF Max2
<1>3. /\ decode_logic_id(Max2(0, p + x.err_min)) <= decode_logic_id(a)
      /\ decode_logic_id(b) <= decode_logic_id(p + x.err_max)
      /\ decode_logic_id(Max2(0, p + x.err_min)) \in Int /\ decode_logic_id(p + x.err_max) \in Int
      /\ decode_logic_id(label) \in Int /\ decode_logic_id(a) \in Int /\ decode_logic_id(b) \in Int
  BY <1>1, <1>2, DivRises
<1> QED
  BY <1>3 DEF Covers

\* The edges of a page are on it.
LEMMA GapReaches ==
  ASSUME NEW label \in Nat, NEW p \in Nat, decode_logic_id(p) # decode_logic_id(label)
  PROVE  /\ Gap(label, p) \in Int
         /\ p + Gap(label, p) \in Nat
         /\ decode_logic_id(p + Gap(label, p)) = decode_logic_id(label)
         /\ label < p => Gap(label, p) < 0
         /\ label >= p => Gap(label, p) > 0
<1> DEFINE id == decode_logic_id(label)
           edge == id * N
<1>1. N \in Nat /\ N >= 4
  BY XCacheAssumption
<1>2. /\ id \in Int /\ id >= 0 /\ decode_logic_id(p) \in Int
      /\ label = (N * id) + (label % N) /\ label % N \in 0..(N - 1)
      /\ p = (N * decode_logic_id(p)) + (p % N) /\ p % N \in 0..(N - 1)
  <2>1. decode_logic_id(0) = 0
    BY <1>1 DEF decode_logic_id
  <2>2. id \in Int /\ id >= 0 /\ decode_logic_id(p) \in Int
    BY <2>1, DivRises
  <2>3. /\ label = (N * (label \div N)) + (label % N) /\ label % N \in 0..(N - 1)
        /\ p = (N * (p \div N)) + (p % N) /\ p % N \in 0..(N - 1)
    BY DivRounds
  <2> QED
    BY <2>2, <2>3 DEF decode_logic_id
<1>3. edge = N * id /\ edge \in Nat
  BY <1>1, <1>2
<1> HIDE DEF id, edge
<1>4. CASE label < p
  <2>1. id < decode_logic_id(p)
    BY <1>2, <1>4, DivRises DEF id
  <2>2. N * id + N <= N * decode_logic_id(p)
    BY <1>2, <2>1, TimesRises
  <2>3. N * decode_logic_id(p) \in Int
    BY <1>1, <1>2
  <2>4. edge + N <= p
    BY <1>1, <1>2, <1>3, <2>2, <2>3
  <2>5. Gap(label, p) = edge + N - 1 - p
    BY <1>4 DEF Gap, edge, id
  <2>6. p + Gap(label, p) = encode_logic_addr(id, N - 1)
    BY <1>1, <1>3, <2>5 DEF encode_logic_addr, edge
  <2>7. N - 1 \in 0..(N - 1)
    BY <1>1
  <2>8. decode_logic_id(p + Gap(label, p)) = id
    BY <1>2, <2>6, <2>7, Decodes
  <2> QED
    BY <1>1, <1>3, <1>4, <2>4, <2>5, <2>8 DEF id
<1>5. CASE label >= p
  <2>1. decode_logic_id(p) < id
    BY <1>2, <1>5, DivRises DEF id
  <2>2. N * decode_logic_id(p) + N <= N * id
    BY <1>2, <2>1, TimesRises
  <2>3. N * decode_logic_id(p) \in Int
    BY <1>1, <1>2
  <2>4. p < edge
    BY <1>1, <1>2, <1>3, <2>2, <2>3
  <2>5. Gap(label, p) = edge - p
    BY <1>5 DEF Gap, edge, id
  <2>6. p + Gap(label, p) = encode_logic_addr(id, 0)
    BY <1>1, <1>3, <2>5 DEF encode_logic_addr, edge
  <2>7. 0 \in 0..(N - 1)
    BY <1>1
  <2>8. decode_logic_id(p + Gap(label, p)) = id
    BY <1>2, <2>6, <2>7, Decodes
  <2> QED
    BY <1>1, <1>3, <1>5, <2>4, <2>5, <2>8 DEF id
<1> QED
  BY <1>4, <1>5

\* page_updater covers the sample and nothing less than before.
LEMMA UpdaterCovers ==
  ASSUME NEW x \in Model, x.err_min <= 0, NEW label \in Nat, NEW p \in Nat
  PROVE  LET y == page_updater(x, label, p) IN
         /\ y \in Model /\ y.ml = x.ml /\ y.max = x.max
         /\ y.err_min <= x.err_min /\ x.err_max <= y.err_max
         /\ Covers(y, label, p)
<1> DEFINE y == page_updater(x, label, p)
           id == decode_logic_id(label)
           err == IF setup.gap THEN Gap(label, p) ELSE label - p
<1>1. x.err_min \in Int /\ x.err_max \in Nat /\ id \in Int
  BY DivRises DEF Model
<1>2. CASE decode_logic_id(p) = id
  <2>1. y = x
    BY <1>2 DEF page_updater
  <2>2. p + x.err_min <= p /\ p <= p + x.err_max
    BY <1>1
  <2>3. Covers(x, label, p)
    BY <1>1, <1>2, <2>2, CoversIf
  <2> QED
    BY <1>1, <2>1, <2>3
<1>3. CASE decode_logic_id(p) # id /\ setup.gap /\ Reaches(x, p, id)
  <2>1. y = x
    BY <1>3 DEF page_updater
  <2>2. p + x.err_min \in Nat /\ p + x.err_max \in Nat
    BY <1>1, <1>3 DEF Reaches
  <2>3. Covers(x, label, p)
    BY <1>1, <1>3, <2>2, CoversIf DEF Reaches
  <2> QED
    BY <1>1, <2>1, <2>3
<1>4. CASE decode_logic_id(p) # id /\ ~(setup.gap /\ Reaches(x, p, id))
  <2>1. /\ err \in Int /\ p + err \in Nat /\ decode_logic_id(p + err) = id
        /\ label < p => err < 0
        /\ label >= p => err >= 0
    <3>1. CASE setup.gap
      BY <1>4, <3>1, GapReaches
    <3>2. CASE ~setup.gap
      <4>1. err = label - p
        BY <3>2
      <4>2. p + err = label
        BY <4>1
      <4> QED
        BY <4>1, <4>2
    <3> QED
      BY <3>1, <3>2
  <2>2. y = [x EXCEPT !.err_min = Min2(@, err), !.err_max = Max2(@, err)]
    BY <1>4 DEF page_updater
  <2> HIDE DEF err, y
  <2>3. Min2(x.err_min, err) \in Int /\ Max2(x.err_max, err) \in Nat
    BY <1>1, <2>1 DEF Min2, Max2
  <2>4. /\ y \in Model /\ y.ml = x.ml /\ y.max = x.max
        /\ y.err_min = Min2(x.err_min, err) /\ y.err_max = Max2(x.err_max, err)
    BY <2>2, <2>3 DEF Model
  <2>5. y.err_min <= x.err_min /\ x.err_max <= y.err_max
    BY <1>1, <2>1, <2>4 DEF Min2, Max2
  <2>6. Covers(y, label, p)
    <3>1. CASE label < p
      <4>1. p + y.err_min <= p + err /\ p <= p + y.err_max
        BY <1>1, <2>1, <2>4 DEF Min2, Max2
      <4>2. id <= decode_logic_id(p)
        BY <3>1, DivRises
      <4> QED
        BY <1>1, <2>1, <2>4, <4>1, <4>2, CoversIf
    <3>2. CASE label >= p
      <4>1. p + y.err_min <= p /\ p + err <= p + y.err_max
        BY <1>1, <2>1, <2>4, x.err_min <= 0 DEF Min2, Max2
      <4>2. decode_logic_id(p) <= id
        BY <3>2, DivRises
      <4> QED
        BY <1>1, <2>1, <2>4, <4>1, <4>2, CoversIf
    <3> QED
      BY <3>1, <3>2
  <2> QED
    BY <2>4, <2>5, <2>6 DEF y
<1> QED
  BY <1>2, <1>3, <1>4

-----------------------------------------------------------------------------
(* The leaf list. *)

\* The leaves have keys, all of them but an only one at least two.
LEMMA LeafSizes ==
  ASSUME LeafList(leaves)
  PROVE  /\ leaves \in Seq(Page) /\ Len(leaves) \in Nat /\ Len(leaves) >= 1
         /\ DOMAIN leaves = 1..Len(leaves)
         /\ \A p \in DOMAIN leaves :
              /\ leaves[p].incarnation \in Nat
              /\ Size(p) \in 1..N /\ (Len(leaves) > 1 => Size(p) >= 2)
              /\ DOMAIN leaves[p].keys = 1..Size(p)
              /\ \A i \in 1..Size(p) : leaves[p].keys[i] \in Key
<1>1. N \in Nat /\ N >= 4 /\ N \div 2 >= 2
  BY XCacheAssumption
<1>2. leaves \in Seq(Page) /\ leaves # <<>>
  BY DEF LeafList
<1>3. Len(leaves) \in Nat /\ Len(leaves) >= 1 /\ DOMAIN leaves = 1..Len(leaves)
  BY <1>2
<1>4. ASSUME NEW p \in DOMAIN leaves
      PROVE  /\ leaves[p].incarnation \in Nat
             /\ Size(p) \in 1..N /\ (Len(leaves) > 1 => Size(p) >= 2)
             /\ DOMAIN leaves[p].keys = 1..Size(p)
             /\ \A i \in 1..Size(p) : leaves[p].keys[i] \in Key
  <2>1. leaves[p] \in Page
    BY <1>2
  <2>2. leaves[p].keys \in Seq(Key) /\ leaves[p].incarnation \in Nat
    BY <2>1 DEF Page
  <2>3. Size(p) \in 1..N /\ (Len(leaves) > 1 => Size(p) >= N \div 2)
    BY DEF LeafList, Size
  <2> QED
    BY <1>1, <2>2, <2>3 DEF Size
<1> QED
  BY <1>2, <1>3, <1>4

\* The keys rise along the list.
LEMMA KeysRise ==
  ASSUME LeafList(leaves),
         NEW p \in DOMAIN leaves, NEW i \in 1..Size(p),
         NEW q \in DOMAIN leaves, NEW j \in 1..Size(q)
  PROVE  leaves[p].keys[i] < leaves[q].keys[j] <=> p < q \/ (p = q /\ i < j)
<1>1. /\ p \in Nat /\ q \in Nat /\ i \in Nat /\ j \in Nat
      /\ leaves[p].keys[i] \in Nat /\ leaves[q].keys[j] \in Nat
      /\ i \in DOMAIN leaves[p].keys /\ j \in DOMAIN leaves[q].keys
  BY LeafSizes, XCacheAssumption, SMTT(30) DEF Key
<1>2. /\ p < q => leaves[p].keys[i] < leaves[q].keys[j]
      /\ q < p => leaves[q].keys[j] < leaves[p].keys[i]
      /\ p = q /\ i < j => leaves[p].keys[i] < leaves[q].keys[j]
      /\ p = q /\ j < i => leaves[q].keys[j] < leaves[p].keys[i]
  BY <1>1 DEF LeafList
<1>3. p = q /\ i = j => leaves[p].keys[i] = leaves[q].keys[j]
  OBVIOUS
<1> QED
  BY <1>1, <1>2, <1>3

\* A stored key is on its leaf only.
LEMMA LeafOfKey ==
  ASSUME LeafList(leaves)
  PROVE  /\ Stored \subseteq Key
         /\ \A p \in DOMAIN leaves : \A i \in 1..Size(p) :
              leaves[p].keys[i] \in Stored /\ LeafOf(leaves[p].keys[i]) = p
         /\ \A k \in Stored : /\ LeafOf(k) \in DOMAIN leaves /\ k \in KeysOf(LeafOf(k))
                              /\ \E i \in 1..Size(LeafOf(k)) : leaves[LeafOf(k)].keys[i] = k
<1>1. \A p \in DOMAIN leaves : \A k : k \in KeysOf(p) <=> \E i \in 1..Size(p) : leaves[p].keys[i] = k
  BY LeafSizes DEF KeysOf
<1>2. \A k : k \in Stored <=> \E p \in DOMAIN leaves : k \in KeysOf(p)
  BY DEF Stored
<1>3. ASSUME NEW p \in DOMAIN leaves, NEW q \in DOMAIN leaves, NEW k, k \in KeysOf(p), k \in KeysOf(q)
      PROVE  p = q
  <2>1. PICK i \in 1..Size(p) : leaves[p].keys[i] = k
    BY <1>1, <1>3
  <2>2. PICK j \in 1..Size(q) : leaves[q].keys[j] = k
    BY <1>1, <1>3
  <2>3. k \in Nat /\ p \in Nat /\ q \in Nat
    BY <2>1, LeafSizes, XCacheAssumption DEF Key
  <2>4. ~(p < q) /\ ~(q < p)
    BY <2>1, <2>2, <2>3, KeysRise
  <2> QED
    BY <2>3, <2>4
<1>4. ASSUME NEW k \in Stored
      PROVE  LeafOf(k) \in DOMAIN leaves /\ k \in KeysOf(LeafOf(k))
  BY <1>2 DEF LeafOf
<1>5. ASSUME NEW p \in DOMAIN leaves, NEW i \in 1..Size(p)
      PROVE  /\ leaves[p].keys[i] \in Stored /\ LeafOf(leaves[p].keys[i]) = p
             /\ leaves[p].keys[i] \in Key
  <2>1. leaves[p].keys[i] \in KeysOf(p)
    BY <1>1
  <2> QED
    BY <1>2, <1>3, <1>4, <2>1, LeafSizes
<1>6. Stored \subseteq Key
  BY <1>1, <1>2, LeafSizes
<1> QED
  BY <1>1, <1>4, <1>5, <1>6

\* Keys in order are on leaves in order.
LEMMA LeafOfRises ==
  ASSUME LeafList(leaves), NEW k \in Stored, NEW j \in Stored, k <= j
  PROVE  LeafOf(k) <= LeafOf(j)
<1>1. PICK i \in 1..Size(LeafOf(k)) : leaves[LeafOf(k)].keys[i] = k
  BY LeafOfKey
<1>2. PICK n \in 1..Size(LeafOf(j)) : leaves[LeafOf(j)].keys[n] = j
  BY LeafOfKey
<1>3. LeafOf(k) \in DOMAIN leaves /\ LeafOf(j) \in DOMAIN leaves /\ k \in Nat /\ j \in Nat
  BY LeafOfKey, XCacheAssumption DEF Key
<1>4. ~(LeafOf(j) < LeafOf(k))
  BY <1>1, <1>2, <1>3, KeysRise
<1> QED
  BY <1>3, <1>4, LeafSizes

\* A submodel has a routed key's number.
LEMMA Routes ==
  ASSUME LeafList(leaves), router \in [Key -> Int], NEW k \in Stored
  PROVE  select_sec_model(k) \in Sub
<1>1. IsFiniteSet(Stored) /\ Cardinality(Stored) \in Nat /\ NumSub \in Nat /\ NumSub >= 1
  <2>1. IsFiniteSet(Key)
    BY XCacheAssumption, FS_Interval DEF Key
  <2> QED
    BY <2>1, LeafOfKey, FS_Subset, FS_CardinalityType, XCacheAssumption
<1>2. Max2(router[k], 0) \in Nat
  BY LeafOfKey DEF Max2
<1>3. first_layer_predict(k) \in Nat
  <2> DEFINE U == Cardinality(Stored)
             r == Max2(router[k], 0)
  <2>1. CASE r >= U
    BY <1>1, <1>2, <2>1 DEF first_layer_predict
  <2>2. CASE ~(r >= U)
    <3>1. U \in Nat /\ r \in Nat /\ U > 0
      BY <1>1, <1>2, <2>2
    <3>2. first_layer_predict(k) = (r * NumSub) \div U
      BY <2>2 DEF first_layer_predict
    <3> HIDE DEF U, r
    <3>3. r * NumSub \in Nat
      BY <1>1, <3>1
    <3>4. (r * NumSub) \div U \in Nat
      BY <3>1, <3>3
    <3> QED
      BY <3>2, <3>4
  <2> QED
    BY <2>1, <2>2
<1> QED
  BY <1>1, <1>3 DEF select_sec_model, Min2, Sub

\* Steps leave the index alone, and what is defined by it.
LEMMA IndexFixed ==
  ASSUME leaves' = leaves, router' = router
  PROVE  /\ Stored' = Stored
         /\ \A k : LeafOf(k)' = LeafOf(k) /\ select_sec_model(k)' = select_sec_model(k)
         /\ \A s : Routed(s)' = Routed(s) /\ Size(s)' = Size(s) /\ KeysOf(s)' = KeysOf(s)
<1>1. Stored' = Stored /\ \A s : KeysOf(s)' = KeysOf(s)
  BY DEF Stored, KeysOf
<1>2. \A k : LeafOf(k)' = LeafOf(k) /\ select_sec_model(k)' = select_sec_model(k)
  BY <1>1 DEF LeafOf, select_sec_model, first_layer_predict
<1> QED
  BY <1>1, <1>2 DEF Routed, Size

-----------------------------------------------------------------------------
(* Types. *)

\* The submodel in training.
LEMMA AtWork ==
  ASSUME TypeOK, PlaceInv, pc # "serve"
  PROVE  m \in Sub /\ m + 1 \in 0..NumSub
BY XCacheAssumption DEF TypeOK, PlaceInv, Sub

\* The keys of a trainer are stored keys.
LEMMA RangeHas ==
  ASSUME TypeOK, RangeInv, pc # "dispatch", NEW s \in Sub
  PROVE  /\ Routed(s) \subseteq Stored
         /\ \A k \in Routed(s) : k \in Stored /\ k \in Key /\ k \in Nat
         /\ end_key[s] = -1 => Routed(s) = {}
         /\ end_key[s] # -1 =>
              /\ start_key[s] \in Routed(s) /\ end_key[s] \in Routed(s)
              /\ \A k \in Routed(s) : start_key[s] <= k /\ k <= end_key[s]
              /\ Base(s) \in DOMAIN leaves /\ Base(s) \in Nat
<1>1. LeafList(leaves) /\ Stored \subseteq Key /\ Key \subseteq Nat
  BY LeafOfKey, XCacheAssumption DEF TypeOK, Key
<1>2. Routed(s) \subseteq Stored
  BY DEF Routed
<1>3. end_key[s] = -1 => Routed(s) = {}
  <2>1. -1 \notin Nat
    OBVIOUS
  <2> QED
    BY <1>1, <1>2, <2>1 DEF RangeInv
<1>4. ASSUME end_key[s] # -1
      PROVE  /\ start_key[s] \in Routed(s) /\ end_key[s] \in Routed(s)
             /\ \A k \in Routed(s) : start_key[s] <= k /\ k <= end_key[s]
             /\ Base(s) \in DOMAIN leaves /\ Base(s) \in Nat
  <2>1. /\ start_key[s] \in Routed(s) /\ end_key[s] \in Routed(s)
        /\ \A k \in Routed(s) : start_key[s] <= k /\ k <= end_key[s]
    BY <1>4 DEF RangeInv
  <2>2. Base(s) \in DOMAIN leaves /\ DOMAIN leaves \subseteq Nat
    <3>1. start_key[s] \in Stored
      BY <1>2, <2>1
    <3>2. DOMAIN leaves \subseteq Nat
      BY <1>1, LeafSizes
    <3> QED
      BY <1>1, <3>1, <3>2, LeafOfKey DEF Base
  <2> QED
    BY <2>1, <2>2
<1> QED
  BY <1>1, <1>2, <1>3, <1>4

\* What the walk makes of a key.
LEMMA AtFields ==
  ASSUME LeafList(leaves), Base(m) \in Nat,
         NEW p \in DOMAIN leaves, NEW i \in 1..Size(p), Base(m) <= p
  PROVE  /\ At(p, i) \in Sample /\ At(p, i) # None
         /\ At(p, i).key = leaves[p].keys[i]
         /\ At(p, i).label \in Nat
         /\ decode_logic_id(At(p, i).label) = p - Base(m)
         /\ decode_off(At(p, i).label) = i - 1
<1>1. /\ p \in Nat /\ p - Base(m) \in Nat /\ i \in Nat /\ i - 1 \in 0..(N - 1)
      /\ leaves[p].keys[i] \in Key
  BY LeafSizes, XCacheAssumption
<1> DEFINE a == encode_logic_addr(p - Base(m), i - 1)
<1>2. a \in Nat /\ decode_logic_id(a) = p - Base(m) /\ decode_off(a) = i - 1
  BY <1>1, Decodes
<1>3. At(p, i) = [key |-> leaves[p].keys[i], label |-> a]
  BY DEF At
<1> HIDE DEF a
<1>4. At(p, i) # None
  BY <1>2, <1>3 DEF None
<1> QED
  BY <1>1, <1>2, <1>3, <1>4 DEF Sample

\* The key the walk is at.
LEMMA CurIs ==
  ASSUME TypeOK, PlaceInv, RangeInv, TableInv, WalkInv, pc = "scan", page # 0
  PROVE  /\ page \in DOMAIN leaves /\ page \in Nat /\ idx \in 1..Size(page) /\ idx \in Nat
         /\ Base(m) <= page /\ Base(m) \in Nat
         /\ Cur = At(page, idx) /\ CurKey = leaves[page].keys[idx]
         /\ CurLabel = At(page, idx).label
<1>1. m \in Sub /\ LeafList(leaves)
  BY AtWork DEF TypeOK
<1>2. /\ end_key[m] # -1 /\ tts[m] # <<>> /\ tts[m] \in Seq(Nat) /\ logic_page_id = Len(tts[m])
      /\ page = Base(m) + Len(tts[m]) - 1 /\ idx \in 1..Size(page)
  BY <1>1 DEF TypeOK, TableInv, WalkInv
<1>3. Base(m) \in Nat
  BY <1>1, <1>2, RangeHas
<1>4. Len(tts[m]) \in Nat /\ Len(tts[m]) >= 1
  BY <1>2
<1>5. page \in DOMAIN leaves /\ page \in Nat /\ idx \in Nat
  <2>1. page \in 0..Len(leaves) /\ idx \in 0..N /\ N \in Nat
    BY XCacheAssumption DEF TypeOK
  <2>2. DOMAIN leaves = 1..Len(leaves) /\ Len(leaves) \in Nat
    BY <1>1, LeafSizes
  <2> QED
    BY <2>1, <2>2
<1>6. logic_page_id - 1 = page - Base(m) /\ Base(m) <= page
  BY <1>2, <1>3, <1>4, <1>5
<1> QED
  BY <1>2, <1>3, <1>5, <1>6 DEF Cur, CurKey, CurLabel, At

\* add_cur keeps a sequence of samples, and does not shorten it.
LEMMA AddCurType ==
  ASSUME TypeOK
  PROVE  AddCur \in Seq(Sample) /\ Len(AddCur) >= Len(train)
<1>1. train \in Seq(Sample) /\ smin \in Sample \cup {None} /\ smax \in Sample \cup {None}
  BY DEF TypeOK
<1>2. CASE smin = None
  BY <1>1, <1>2 DEF AddCur
<1>3. CASE smin # None /\ (smax = None \/ decode_off(smin.label) = decode_off(smax.label))
  BY <1>1, <1>3 DEF AddCur
<1>4. CASE smin # None /\ ~(smax = None \/ decode_off(smin.label) = decode_off(smax.label))
  <2>1. AddCur = train \o <<smin, smax>> /\ smin \in Sample /\ smax \in Sample
    BY <1>1, <1>4 DEF AddCur
  <2>2. <<smin, smax>> \in Seq(Sample) /\ Len(<<smin, smax>>) = 2
    BY <2>1
  <2> QED
    BY <1>1, <2>1, <2>2
<1> QED
  BY <1>2, <1>3, <1>4

\* Entering a leaf adds it to the table of the submodel, and counts it.
LEMMA Enters ==
  ASSUME TypeOK, m \in Sub, NEW p \in DOMAIN leaves, NEW c \in Nat, Enter(p, c)
  PROVE  /\ page' = p /\ idx' = 1 /\ tts' \in [Sub -> Seq(Nat)]
         /\ logic_page_id' = c + 1 /\ logic_page_id' \in Nat
         /\ \A s \in Sub : s # m => tts'[s] = tts[s]
         /\ Len(tts'[m]) = Len(tts[m]) + 1 /\ Len(tts[m]) \in Nat
         /\ \A j \in 1..Len(tts[m]) : tts'[m][j] = tts[m][j]
         /\ get_wo_incar(tts'[m][Len(tts[m]) + 1]) = p
         /\ p \in 0..Len(leaves) /\ 1 \in 0..N
<1>1. p \in Nat /\ leaves[p].incarnation \in Nat /\ p \in 0..Len(leaves) /\ 1 \in 0..N
  BY LeafSizes, XCacheAssumption DEF TypeOK
<1> DEFINE e == p * 256 + (leaves[p].incarnation % 256)
<1>2. e \in Nat /\ get_wo_incar(e) = p
  <2>1. p \in Nat /\ leaves[p].incarnation \in Nat
    BY <1>1
  <2> QED
    BY <2>1, Trims, SMTT(30)
<1>3. tts \in [Sub -> Seq(Nat)] /\ tts[m] \in Seq(Nat)
  BY DEF TypeOK
<1>4. tts' = [tts EXCEPT ![m] = Append(@, e)]
  BY DEF Enter, add_w_incar
<1> HIDE DEF e
<1>5. Append(tts[m], e) \in Seq(Nat)
  BY <1>2, <1>3
<1>6. tts'[m] = Append(tts[m], e) /\ \A s \in Sub : s # m => tts'[s] = tts[s]
  BY <1>3, <1>4
<1>7. tts' \in [Sub -> Seq(Nat)]
  BY <1>3, <1>4, <1>5
<1>8. Len(tts'[m]) = Len(tts[m]) + 1 /\ Len(tts[m]) \in Nat
  BY <1>2, <1>3, <1>6
<1>9. tts'[m][Len(tts[m]) + 1] = e /\ \A j \in 1..Len(tts[m]) : tts'[m][j] = tts[m][j]
  BY <1>2, <1>3, <1>6
<1>10. page' = p /\ idx' = 1 /\ logic_page_id' = c + 1 /\ logic_page_id' \in Nat
  BY DEF Enter
<1> QED
  BY <1>1, <1>2, <1>6, <1>7, <1>8, <1>9, <1>10

-----------------------------------------------------------------------------
(* The walk. *)

\* What is defined by the index, the ranges and the submodel in training alone.
LEMMA WalkFixed ==
  ASSUME leaves' = leaves, start_key' = start_key, m' = m
  PROVE  /\ \A s : Base(s)' = Base(s)
         /\ \A p, i : At(p, i)' = At(p, i)
<1>1. \A s : Base(s)' = Base(s)
  BY DEF Base, LeafOf, KeysOf
<1>2. Base(m)' = Base(m)
  BY DEF Base, LeafOf, KeysOf
<1>3. \A p, i : At(p, i)' = At(p, i)
  BY <1>2 DEF At
<1> QED
  BY <1>1, <1>3

\* A step of the walk passes the key it is at.
LEMMA WalkMoves ==
  ASSUME TypeOK, PlaceInv, RangeInv, TableInv, WalkInv, pc = "scan", page # 0,
         IterNext, leaves' = leaves, start_key' = start_key, end_key' = end_key, m' = m, pc' = pc
  PROVE  /\ \A p \in DOMAIN leaves : \A i \in 1..Size(p) :
              Passed(p, i)' <=> Passed(p, i) \/ (p = page /\ i = idx)
         /\ tts' \in [Sub -> Seq(Nat)] /\ \A s \in Sub : s # m => tts'[s] = tts[s]
         /\ page' \in 0..Len(leaves) /\ idx' \in 0..N /\ logic_page_id' \in Nat
         /\ page' # 0 => page' = Base(m) + Len(tts'[m]) - 1 /\ idx' \in 1..Size(page')
         /\ page' = 0 => Len(leaves) = Base(m) + Len(tts'[m]) - 1
         /\ Started' /\ LastLeaf' = page /\ LastSlot' = idx
         /\ TableInv'
<1>1. /\ page \in DOMAIN leaves /\ page \in Nat /\ idx \in 1..Size(page) /\ idx \in Nat
      /\ Base(m) <= page /\ Base(m) \in Nat
  BY CurIs
<1>2. /\ LeafList(leaves) /\ m \in Sub /\ tts \in [Sub -> Seq(Nat)] /\ tts[m] \in Seq(Nat)
      /\ end_key[m] # -1 /\ Len(tts[m]) \in Nat /\ Len(tts[m]) >= 1 /\ tts[m] # <<>>
      /\ logic_page_id = Len(tts[m]) /\ logic_page_id \in Nat
      /\ page = Base(m) + Len(tts[m]) - 1
      /\ \A j \in DOMAIN tts[m] : /\ Base(m) + j - 1 \in DOMAIN leaves
                                  /\ get_wo_incar(tts[m][j]) = Base(m) + j - 1
  <2>1. m \in Sub /\ tts \in [Sub -> Seq(Nat)] /\ LeafList(leaves)
    BY AtWork DEF TypeOK
  <2>2. tts[m] \in Seq(Nat) /\ tts[m] # <<>>
    BY <2>1 DEF TableInv
  <2> QED
    BY <2>1, <2>2 DEF TableInv, WalkInv
<1>3. Base(m)' = Base(m) /\ \A p : Size(p)' = Size(p)
  BY WalkFixed DEF Size
<1>4. /\ DOMAIN leaves = 1..Len(leaves) /\ Len(leaves) \in Nat
      /\ \A p \in DOMAIN leaves : Size(p) \in 1..N /\ Size(p) \in Nat
  BY <1>2, LeafSizes, XCacheAssumption
<1>5. CASE idx < Len(leaves[page].keys) /\ idx' = idx + 1
      /\ UNCHANGED <<page, logic_page_id, tts>>
  <2>1. /\ idx + 1 \in 1..Size(page) /\ idx + 1 \in 0..N /\ page' = page /\ tts' = tts
        /\ idx' = idx + 1 /\ logic_page_id' = logic_page_id
    BY <1>1, <1>4, <1>5, XCacheAssumption DEF Size
  <2>2. Started' /\ LastLeaf' = page /\ LastSlot' = idx
    BY <1>1, <2>1 DEF Started, LastLeaf, LastSlot
  <2>3. \A p \in DOMAIN leaves : \A i \in 1..Size(p) :
          Passed(p, i)' <=> Passed(p, i) \/ (p = page /\ i = idx)
    BY <1>1, <1>3, <1>4, <2>1 DEF Passed
  <2>4. TableInv'
    BY <1>2, <1>3, <2>1 DEF TableInv
  <2> QED
    BY <1>1, <1>2, <1>4, <2>1, <2>2, <2>3, <2>4
<1>6. CASE idx = Len(leaves[page].keys) /\ page < Len(leaves)
      /\ Enter(page + 1, logic_page_id)
  <2>1. page + 1 \in DOMAIN leaves /\ page + 1 # 0 /\ 1 \in 1..Size(page + 1) /\ page + 1 \in Nat
    BY <1>1, <1>4, <1>6
  <2>2. /\ page' = page + 1 /\ idx' = 1 /\ tts' \in [Sub -> Seq(Nat)]
        /\ \A s \in Sub : s # m => tts'[s] = tts[s]
        /\ Len(tts'[m]) = Len(tts[m]) + 1
        /\ logic_page_id' = logic_page_id + 1 /\ logic_page_id' \in Nat
        /\ \A j \in 1..Len(tts[m]) : tts'[m][j] = tts[m][j]
        /\ get_wo_incar(tts'[m][Len(tts[m]) + 1]) = page + 1
        /\ page + 1 \in 0..Len(leaves) /\ 1 \in 0..N
    BY <1>2, <1>6, <2>1, Enters
  <2>3. Started' /\ LastLeaf' = page /\ LastSlot' = idx
    <3>1. page' # Base(m)
      BY <1>1, <2>2
    <3>2. LastLeaf' = page
      BY <1>1, <2>1, <2>2 DEF LastLeaf
    <3>3. LastSlot' = Size(page)
      BY <1>3, <2>2, <3>2 DEF LastSlot, Size
    <3> QED
      BY <1>3, <1>6, <3>1, <3>2, <3>3 DEF Started, Size
  <2>4. \A p \in DOMAIN leaves : \A i \in 1..Size(p) :
          Passed(p, i)' <=> Passed(p, i) \/ (p = page /\ i = idx)
    BY <1>1, <1>3, <1>4, <1>6, <2>1, <2>2 DEF Passed, Size
  <2>5. tts'[m] \in Seq(Nat) /\ DOMAIN tts'[m] = 1..(Len(tts[m]) + 1) /\ DOMAIN tts[m] = 1..Len(tts[m])
    BY <1>2, <2>2
  <2>6. \A j \in DOMAIN tts'[m] : /\ Base(m) + j - 1 \in DOMAIN leaves
                                  /\ get_wo_incar(tts'[m][j]) = Base(m) + j - 1
    <3> TAKE j \in DOMAIN tts'[m]
    <3>1. CASE j = Len(tts[m]) + 1
      <4>1. Base(m) + j - 1 = page + 1
        BY <1>1, <1>2, <3>1
      <4> QED
        BY <2>1, <2>2, <3>1, <4>1
    <3>2. CASE j # Len(tts[m]) + 1
      <4>1. j \in DOMAIN tts[m] /\ j \in 1..Len(tts[m])
        BY <1>2, <2>5, <3>2
      <4> QED
        BY <1>2, <2>2, <4>1
    <3> QED
      BY <3>1, <3>2
  <2>7. tts'[m] # <<>>
    BY <1>2, <2>2, <2>5
  <2>8. TableInv'
    BY <1>2, <1>3, <2>2, <2>6, <2>7 DEF TableInv
  <2> QED
    BY <1>1, <1>2, <2>1, <2>2, <2>3, <2>4, <2>8, SMTT(30)
<1>7. CASE idx = Len(leaves[page].keys) /\ page = Len(leaves) /\ page' = 0
      /\ UNCHANGED <<idx, logic_page_id, tts>>
  <2>1. /\ page' = 0 /\ tts' = tts /\ idx' = idx /\ 0 \in 0..Len(leaves)
        /\ logic_page_id' = logic_page_id
    BY <1>4, <1>7
  <2>2. Started' /\ LastLeaf' = page /\ LastSlot' = idx
    <3>1. Started' /\ LastLeaf' = page
      BY <1>7 DEF Started, LastLeaf
    <3>2. LastSlot' = Size(page)
      BY <1>3, <1>7, <3>1 DEF LastSlot, Size
    <3> QED
      BY <1>7, <3>1, <3>2 DEF Size
  <2>3. \A p \in DOMAIN leaves : \A i \in 1..Size(p) :
          Passed(p, i)' <=> Passed(p, i) \/ (p = page /\ i = idx)
    BY <1>1, <1>3, <1>4, <1>7 DEF Passed, Size
  <2>4. TableInv'
    BY <1>2, <1>3, <2>1 DEF TableInv
  <2> QED
    BY <1>1, <1>2, <1>4, <1>7, <2>1, <2>2, <2>3, <2>4 DEF TypeOK
<1> QED
  BY <1>5, <1>6, <1>7 DEF IterNext

\* The last key passed, and the keys up to it.
LEMMA LastPassed ==
  ASSUME TypeOK, PlaceInv, RangeInv, TableInv, WalkInv, pc = "scan", Started
  PROVE  /\ LastLeaf \in DOMAIN leaves /\ LastLeaf \in Nat
         /\ Base(m) \in Nat /\ Base(m) <= LastLeaf
         /\ LastSlot \in 1..Size(LastLeaf) /\ LastSlot \in Nat /\ 1 \in 1..Size(LastLeaf)
         /\ \A p \in DOMAIN leaves : \A i \in 1..Size(p) :
              Passed(p, i) <=> Base(m) <= p /\ (p < LastLeaf \/ (p = LastLeaf /\ i <= LastSlot))
<1>1. /\ LeafList(leaves) /\ m \in Sub /\ Base(m) \in Nat
      /\ Len(tts[m]) \in Nat /\ Len(tts[m]) >= 1
  <2>1. m \in Sub /\ LeafList(leaves) /\ tts[m] \in Seq(Nat)
    BY AtWork DEF TypeOK
  <2>2. end_key[m] # -1 /\ tts[m] # <<>>
    BY DEF TableInv
  <2>3. Base(m) \in Nat
    BY <2>1, <2>2, RangeHas
  <2> QED
    BY <2>1, <2>2, <2>3
<1>2. /\ DOMAIN leaves = 1..Len(leaves) /\ Len(leaves) \in Nat /\ Len(leaves) >= 1
      /\ \A p \in DOMAIN leaves : Size(p) \in Nat /\ Size(p) >= 1
  BY <1>1, LeafSizes, XCacheAssumption
<1>3. CASE page = 0
  <2>1. LastLeaf = Len(leaves) /\ LastSlot = Size(Len(leaves)) /\ Base(m) <= Len(leaves)
    BY <1>1, <1>3 DEF LastLeaf, LastSlot, WalkInv
  <2> QED
    BY <1>1, <1>2, <1>3, <2>1 DEF Passed
<1>4. CASE page # 0 /\ idx = 1
  <2>1. page \in DOMAIN leaves /\ Base(m) <= page /\ page # Base(m)
    BY <1>4, CurIs DEF Started
  <2>2. LastLeaf = page - 1 /\ LastSlot = Size(page - 1)
    BY <1>4 DEF LastLeaf, LastSlot
  <2>3. page - 1 \in DOMAIN leaves /\ Base(m) <= page - 1
    <3>1. page \in Nat /\ 1 <= page /\ page <= Len(leaves)
      BY <1>2, <2>1
    <3>2. Base(m) < page /\ 1 <= Base(m)
      <4>1. Base(m) \in DOMAIN leaves
        BY <1>1, RangeHas DEF TableInv
      <4> QED
        BY <1>1, <1>2, <2>1, <3>1, <4>1
    <3> QED
      BY <1>1, <1>2, <3>1, <3>2
  <2> QED
    BY <1>1, <1>2, <1>4, <2>1, <2>2, <2>3 DEF Passed
<1>5. CASE page # 0 /\ idx # 1
  <2>1. page \in DOMAIN leaves /\ Base(m) <= page /\ idx \in 1..Size(page)
    BY <1>5, CurIs
  <2>2. LastLeaf = page /\ LastSlot = idx - 1
    BY <1>5 DEF LastLeaf, LastSlot
  <2> QED
    BY <1>1, <1>2, <1>5, <2>1, <2>2 DEF Passed
<1> QED
  BY <1>3, <1>4, <1>5

\* Two samples more.
LEMMA TwoMore ==
  ASSUME NEW s \in Seq(Sample), NEW a \in Sample, NEW b \in Sample, NEW F, F = s \o <<a, b>>
  PROVE  /\ Len(F) = Len(s) + 2 /\ Len(s) \in Nat /\ DOMAIN F = 1..(Len(s) + 2)
         /\ \A n \in DOMAIN s : F[n] = s[n]
         /\ F[Len(s) + 1] = a /\ F[Len(s) + 2] = b
<1> DEFINE two == <<a, b>>
<1>1. two \in Seq(Sample) /\ Len(two) = 2 /\ two[1] = a /\ two[2] = b
  OBVIOUS
<1>2. F = s \o two
  OBVIOUS
<1> HIDE DEF two
<1>3. /\ Len(F) = Len(s) + Len(two) /\ DOMAIN F = 1..(Len(s) + Len(two))
      /\ \A j \in 1..Len(two) : F[Len(s) + j] = two[j]
      /\ \A n \in DOMAIN s : F[n] = s[n]
  BY <1>1, <1>2
<1> QED
  BY <1>1, <1>3

\* add_cur adds the first and the last key passed of the leaf, once if they are one.
LEMMA AddCurHas ==
  ASSUME TypeOK, PlaceInv, RangeInv, TableInv, WalkInv, PageInv,
         pc = "scan", setup.sampler = "page", Started
  PROVE  LET more == IF LastSlot = 1 THEN 1 ELSE 2 IN
         /\ Len(AddCur) = Len(train) + more /\ Len(train) \in Nat
         /\ DOMAIN AddCur = 1..(Len(train) + more) /\ DOMAIN train = 1..Len(train)
         /\ \A n \in DOMAIN train : AddCur[n] = train[n]
         /\ AddCur[Len(train) + 1] = At(LastLeaf, 1)
         /\ AddCur[Len(train) + more] = At(LastLeaf, LastSlot)
<1>1. /\ LastLeaf \in DOMAIN leaves /\ Base(m) \in Nat /\ Base(m) <= LastLeaf
      /\ LastSlot \in 1..Size(LastLeaf) /\ 1 \in 1..Size(LastLeaf) /\ LastSlot \in Nat
      /\ LeafList(leaves)
  BY LastPassed DEF TypeOK
<1>2. /\ smin = At(LastLeaf, 1) /\ At(LastLeaf, 1) # None /\ At(LastLeaf, 1) \in Sample
      /\ At(LastLeaf, LastSlot) # None /\ At(LastLeaf, LastSlot) \in Sample
      /\ decode_off(At(LastLeaf, 1).label) = 0
      /\ decode_off(At(LastLeaf, LastSlot).label) = LastSlot - 1
      /\ smax = IF LastSlot = 1 THEN None ELSE At(LastLeaf, LastSlot)
  BY <1>1, AtFields DEF PageInv
<1>3. train \in Seq(Sample) /\ Len(train) \in Nat /\ DOMAIN train = 1..Len(train)
  BY DEF TypeOK
<1>4. CASE LastSlot = 1
  <2>1. AddCur = Append(train, At(LastLeaf, 1))
    BY <1>2, <1>4 DEF AddCur
  <2> QED
    BY <1>2, <1>3, <1>4, <2>1
<1>5. CASE LastSlot # 1
  <2>1. smax = At(LastLeaf, LastSlot) /\ smin # None /\ smax # None
        /\ decode_off(smin.label) # decode_off(smax.label)
    BY <1>1, <1>2, <1>5
  <2>2. AddCur = train \o <<At(LastLeaf, 1), At(LastLeaf, LastSlot)>>
    BY <1>2, <2>1 DEF AddCur
  <2> QED
    BY <1>2, <1>3, <1>5, <2>2, TwoMore
<1> QED
  BY <1>4, <1>5

\* One sample more.
LEMMA OneMore ==
  ASSUME NEW s \in Seq(Sample), NEW a \in Sample
  PROVE  /\ Append(s, a) \in Seq(Sample) /\ Len(Append(s, a)) = Len(s) + 1 /\ Len(s) \in Nat
         /\ DOMAIN Append(s, a) = 1..(Len(s) + 1) /\ DOMAIN s = 1..Len(s)
         /\ \A n \in DOMAIN s : n \in DOMAIN Append(s, a) /\ Append(s, a)[n] = s[n]
         /\ Append(s, a)[Len(s) + 1] = a
OBVIOUS

\* PageSampler keeps the ends of the leaves: what a round leaves in it.
LEMMA PageSteps ==
  ASSUME TypeOK, PlaceInv, RangeInv, TableInv, WalkInv, PageInv,
         pc = "scan", setup.sampler = "page", page # 0, AddToPage
  PROVE  /\ train' \in Seq(Sample) /\ Len(train') >= Len(train)
         /\ \A n \in DOMAIN train' : \E p \in DOMAIN leaves : \E i \in 1..Size(p) :
              Passed(p, i) /\ train'[n] = At(p, i)
         /\ smin' = At(page, 1) /\ smax' = IF idx = 1 THEN None ELSE At(page, idx)
         /\ Len(train') = 2 * (page - Base(m))
         /\ \A p \in Base(m)..(page - 1) :
              /\ \E n \in DOMAIN train' : train'[n] = At(p, 1)
              /\ \E n \in DOMAIN train' : train'[n] = At(p, Size(p))
<1>1. /\ page \in DOMAIN leaves /\ page \in Nat /\ idx \in 1..Size(page) /\ idx \in Nat
      /\ Base(m) <= page /\ Base(m) \in Nat
      /\ Cur = At(page, idx) /\ CurKey = leaves[page].keys[idx]
      /\ CurLabel = At(page, idx).label
  BY CurIs
<1>2. /\ LeafList(leaves) /\ train \in Seq(Sample) /\ Len(train) \in Nat
      /\ DOMAIN leaves = 1..Len(leaves) /\ Len(leaves) \in Nat
  BY LeafSizes DEF TypeOK
<1>3. \A n \in DOMAIN train : \E p \in DOMAIN leaves : \E i \in 1..Size(p) :
        Passed(p, i) /\ train[n] = At(p, i)
  BY DEF WalkInv
<1>4. decode_logic_id(CurLabel) = page - Base(m)
  BY <1>1, <1>2, AtFields
<1>5. CASE ~Started
  <2>1. page = Base(m) /\ idx = 1 /\ smin = None /\ smax = None /\ train = <<>>
    BY <1>5 DEF Started, PageInv
  <2>2. smin' = Cur /\ smax' = smax /\ train' = train
    BY <2>1 DEF AddToPage
  <2>3. 2 * (page - Base(m)) = 0 /\ Base(m)..(page - 1) = {}
    BY <1>1, <2>1
  <2>4. Len(train') = 0
    BY <2>1, <2>2
  <2> QED
    BY <1>1, <1>2, <1>3, <2>1, <2>2, <2>3, <2>4
<1>6. CASE Started
  <2>1. /\ LastLeaf \in DOMAIN leaves /\ LastLeaf \in Nat /\ Base(m) <= LastLeaf
        /\ LastSlot \in 1..Size(LastLeaf) /\ LastSlot \in Nat /\ 1 \in 1..Size(LastLeaf)
        /\ Passed(LastLeaf, 1) /\ Passed(LastLeaf, LastSlot)
    BY <1>6, LastPassed
  <2>2. /\ smin = At(LastLeaf, 1)
        /\ smax = IF LastSlot = 1 THEN None ELSE At(LastLeaf, LastSlot)
        /\ Len(train) = 2 * (LastLeaf - Base(m))
        /\ \A p \in Base(m)..(LastLeaf - 1) :
             /\ \E n \in DOMAIN train : train[n] = At(p, 1)
             /\ \E n \in DOMAIN train : train[n] = At(p, Size(p))
    BY <1>6 DEF PageInv
  <2>3. /\ At(LastLeaf, 1) # None /\ decode_logic_id(smin.label) = LastLeaf - Base(m)
        /\ smin.key = leaves[LastLeaf].keys[1]
        /\ At(LastLeaf, LastSlot).key = leaves[LastLeaf].keys[LastSlot]
    BY <1>1, <1>2, <2>1, <2>2, AtFields
  <2>4. CASE idx = 1
    <3>1. LastLeaf = page - 1 /\ LastSlot = Size(page - 1)
      BY <1>1, <2>4, page # 0 DEF LastLeaf, LastSlot
    <3>2. Size(LastLeaf) >= 2 /\ LastSlot # 1
      <4>1. Len(leaves) > 1
        BY <1>1, <1>2, <2>1, <3>1
      <4> QED
        BY <1>2, <2>1, <3>1, <4>1, LeafSizes
    <3>3. decode_logic_id(CurLabel) # decode_logic_id(smin.label)
      BY <1>1, <1>4, <2>3, <3>1
    <3>4. train' = AddCur /\ smin' = Cur /\ smax' = None
      BY <2>2, <2>3, <3>3 DEF AddToPage
    <3>5. /\ Len(AddCur) = Len(train) + 2
          /\ DOMAIN AddCur = 1..(Len(train) + 2) /\ DOMAIN train = 1..Len(train)
          /\ \A n \in DOMAIN train : AddCur[n] = train[n]
          /\ AddCur[Len(train) + 1] = At(LastLeaf, 1)
          /\ AddCur[Len(train) + 2] = At(LastLeaf, LastSlot)
      BY <1>6, <3>2, AddCurHas
    <3>6. Len(train') = 2 * (page - Base(m))
      BY <1>1, <1>2, <2>2, <3>1, <3>4, <3>5, SMTT(30)
    <3>7. \A n \in DOMAIN train' : \E p \in DOMAIN leaves : \E i \in 1..Size(p) :
            Passed(p, i) /\ train'[n] = At(p, i)
      <4> TAKE n \in DOMAIN train'
      <4>1. n \in DOMAIN train \/ n = Len(train) + 1 \/ n = Len(train) + 2
        BY <1>2, <3>4, <3>5
      <4>2. CASE n \in DOMAIN train
        BY <1>3, <3>4, <3>5, <4>2
      <4>3. CASE n = Len(train) + 1
        BY <2>1, <3>4, <3>5, <4>3
      <4>4. CASE n = Len(train) + 2
        BY <2>1, <3>4, <3>5, <4>4
      <4> QED
        BY <4>1, <4>2, <4>3, <4>4
    <3>8. ASSUME NEW p \in Base(m)..(page - 1)
          PROVE  /\ \E n \in DOMAIN train' : train'[n] = At(p, 1)
                 /\ \E n \in DOMAIN train' : train'[n] = At(p, Size(p))
      <4>1. CASE p = LastLeaf
        <5>1. Len(train) + 1 \in DOMAIN train' /\ Len(train) + 2 \in DOMAIN train'
          BY <1>2, <3>4, <3>5
        <5> QED
          BY <3>1, <3>4, <3>5, <4>1, <5>1
      <4>2. CASE p # LastLeaf
        <5>1. p \in Base(m)..(LastLeaf - 1)
          BY <1>1, <2>1, <3>1, <4>2
        <5>2. \A n \in DOMAIN train : n \in DOMAIN train' /\ train'[n] = train[n]
          BY <1>2, <3>4, <3>5
        <5> QED
          BY <2>2, <5>1, <5>2
      <4> QED
        BY <4>1, <4>2
    <3>9. train' \in Seq(Sample) /\ Len(train') >= Len(train)
      BY <3>4, AddCurType
    <3> QED
      BY <1>1, <2>4, <3>4, <3>6, <3>7, <3>8, <3>9
  <2>5. CASE idx # 1
    <3>1. LastLeaf = page /\ LastSlot = idx - 1
      BY <1>1, <2>5, page # 0 DEF LastLeaf, LastSlot
    <3>2. decode_logic_id(CurLabel) = decode_logic_id(smin.label) /\ smin # None
      BY <1>4, <2>2, <2>3, <3>1
    <3>3. /\ train' = train
          /\ smax' = IF smax = None \/ CurKey > smax.key THEN Cur ELSE smax
          /\ smin' = IF smin.key > CurKey THEN Cur ELSE smin
      BY <3>2 DEF AddToPage
    <3>4. 1 \in 1..Size(page) /\ idx - 1 \in 1..Size(page) /\ idx - 1 < idx /\ 1 < idx
      BY <1>1, <2>1, <2>5, <3>1
    <3>5. leaves[page].keys[1] < CurKey /\ leaves[page].keys[idx - 1] < CurKey
      BY <1>1, <1>2, <3>4, KeysRise
    <3>6. smin' = smin
      <4>1. leaves[page].keys[1] \in Nat /\ CurKey \in Nat
        BY <1>1, <1>2, <3>4, LeafSizes, XCacheAssumption DEF Key
      <4>2. ~(smin.key > CurKey)
        BY <2>3, <3>1, <3>5, <4>1
      <4> QED
        BY <3>3, <4>2
    <3>7. smax' = Cur
      <4>1. CASE smax = None
        BY <3>3, <4>1
      <4>2. CASE smax # None
        <5>1. smax.key = leaves[page].keys[idx - 1]
          BY <2>2, <2>3, <3>1, <4>2
        <5>2. leaves[page].keys[idx - 1] \in Nat /\ CurKey \in Nat
          BY <1>1, <1>2, <3>4, LeafSizes, XCacheAssumption DEF Key
        <5>3. CurKey > smax.key
          BY <3>5, <5>1, <5>2
        <5> QED
          BY <3>3, <5>3
      <4> QED
        BY <4>1, <4>2
    <3> QED
      BY <1>1, <1>2, <1>3, <2>2, <2>5, <3>1, <3>3, <3>6, <3>7
  <2> QED
    BY <2>4, <2>5
<1> QED
  BY <1>5, <1>6

\* A round of the loop over the index keeps what the walk, its table and its
\* sampler are.
LEMMA ScanSteps ==
  ASSUME TypeOK, PlaceInv, RangeInv, TableInv, WalkInv, AllInv, PageInv, ScanKey
  PROVE  TypeOK' /\ PlaceInv' /\ TableInv' /\ WalkInv' /\ AllInv' /\ PageInv'
<1>1. /\ pc = "scan" /\ page # 0 /\ CurKey <= end_key[m] /\ AddTo /\ IterNext
      /\ setup' = setup /\ leaves' = leaves /\ router' = router /\ pc' = pc
      /\ start_key' = start_key /\ end_key' = end_key /\ m' = m /\ done' = done
      /\ second_layer' = second_layer /\ cpc' = cpc /\ ckey' = ckey /\ ns' = ns /\ ne' = ne
  BY DEF ScanKey, index, client
<1>2. /\ page \in DOMAIN leaves /\ page \in Nat /\ idx \in 1..Size(page) /\ idx \in Nat
      /\ Base(m) <= page /\ Base(m) \in Nat
      /\ Cur = At(page, idx) /\ CurKey = leaves[page].keys[idx]
  BY <1>1, CurIs
<1>3. /\ \A p \in DOMAIN leaves : \A i \in 1..Size(p) :
           Passed(p, i)' <=> Passed(p, i) \/ (p = page /\ i = idx)
      /\ tts' \in [Sub -> Seq(Nat)] /\ \A s \in Sub : s # m => tts'[s] = tts[s]
      /\ page' \in 0..Len(leaves) /\ idx' \in 0..N /\ logic_page_id' \in Nat
      /\ page' # 0 => page' = Base(m) + Len(tts'[m]) - 1 /\ idx' \in 1..Size(page')
      /\ page' = 0 => Len(leaves) = Base(m) + Len(tts'[m]) - 1
      /\ Started' /\ LastLeaf' = page /\ LastSlot' = idx
      /\ TableInv'
  BY <1>1, WalkMoves
<1>4. /\ LeafList(leaves) /\ train \in Seq(Sample) /\ Len(train) \in Nat /\ m \in Sub
      /\ smin \in Sample \cup {None} /\ smax \in Sample \cup {None}
      /\ setup.sampler \in {"page", "all"}
  BY <1>1, AtWork, SMTT(30) DEF TypeOK, AddTo
<1>5. /\ Base(m)' = Base(m) /\ \A p, i : At(p, i)' = At(p, i)
      /\ \A p : Size(p)' = Size(p)
  BY <1>1, WalkFixed DEF Size
<1>6. Cur \in Sample /\ decode_logic_id(Cur.label) = page - Base(m)
  BY <1>2, <1>4, AtFields
<1>7. /\ train' \in Seq(Sample) /\ Len(train') >= Len(train)
      /\ smin' \in Sample \cup {None} /\ smax' \in Sample \cup {None}
      /\ \A n \in DOMAIN train' : \E p \in DOMAIN leaves : \E i \in 1..Size(p) :
           Passed(p, i)' /\ train'[n] = At(p, i)
  <2>1. CASE setup.sampler = "page"
    <3>1. AddToPage
      BY <1>1, <2>1 DEF AddTo
    <3>2. /\ train' \in Seq(Sample) /\ Len(train') >= Len(train)
          /\ \A n \in DOMAIN train' : \E p \in DOMAIN leaves : \E i \in 1..Size(p) :
               Passed(p, i) /\ train'[n] = At(p, i)
          /\ smin' = At(page, 1) /\ smax' = IF idx = 1 THEN None ELSE At(page, idx)
      BY <1>1, <2>1, <3>1, PageSteps
    <3>3. 1 \in 1..Size(page)
      BY <1>2, <1>4, LeafSizes, XCacheAssumption
    <3>4. smin' \in Sample /\ smax' \in Sample \cup {None}
      BY <1>2, <1>4, <3>2, <3>3, AtFields
    <3> QED
      BY <1>3, <3>2, <3>4
  <2>2. CASE setup.sampler = "all"
    <3>1. train' = Append(train, Cur) /\ smin' = smin /\ smax' = smax
      BY <1>1, <2>2 DEF AddTo
    <3>2. /\ train' \in Seq(Sample) /\ Len(train') = Len(train) + 1
          /\ DOMAIN train' = 1..(Len(train) + 1) /\ DOMAIN train = 1..Len(train)
          /\ \A n \in DOMAIN train : train'[n] = train[n]
          /\ train'[Len(train) + 1] = Cur
      BY <1>4, <1>6, <3>1, OneMore
    <3>3. ASSUME NEW n \in DOMAIN train'
          PROVE  \E p \in DOMAIN leaves : \E i \in 1..Size(p) :
                   Passed(p, i)' /\ train'[n] = At(p, i)
      <4>1. CASE n = Len(train) + 1
        BY <1>2, <1>3, <3>2, <4>1
      <4>2. CASE n # Len(train) + 1
        <5>1. n \in DOMAIN train
          BY <1>4, <3>2, <4>2
        <5>2. PICK p \in DOMAIN leaves : \E i \in 1..Size(p) : Passed(p, i) /\ train[n] = At(p, i)
          BY <1>1, <5>1 DEF WalkInv
        <5> QED
          BY <1>3, <3>2, <5>1, <5>2
      <4> QED
        BY <4>1, <4>2
    <3> QED
      BY <1>4, <3>1, <3>2, <3>3
  <2> QED
    BY <1>4, <2>1, <2>2
<1>8. TypeOK'
  <2>1. done' \in 0..Len(train')
    BY <1>1, <1>4, <1>7 DEF TypeOK
  <2> QED
    BY <1>1, <1>3, <1>7, <2>1 DEF TypeOK
<1>9. PlaceInv'
  <2>1. \A s \in Sub : s > m => s # m
    BY <1>4, XCacheAssumption DEF Sub
  <2> QED
    BY <1>1, <1>3, <2>1 DEF PlaceInv
<1>10. WalkInv'
  <2>1. \A p \in DOMAIN leaves : \A i \in 1..Size(p) : Passed(p, i)' => leaves[p].keys[i] <= end_key[m]
    BY <1>1, <1>2, <1>3 DEF WalkInv
  <2> QED
    BY <1>1, <1>3, <1>5, <1>7, <2>1 DEF WalkInv
<1>11. AllInv'
  <2>1. CASE setup.sampler = "all"
    <3>1. train' = Append(train, Cur)
      BY <1>1, <2>1 DEF AddTo
    <3>2. /\ Len(train') = Len(train) + 1
          /\ DOMAIN train' = 1..(Len(train) + 1) /\ DOMAIN train = 1..Len(train)
          /\ \A n \in DOMAIN train : n \in DOMAIN train' /\ train'[n] = train[n]
          /\ train'[Len(train) + 1] = Cur
      BY <1>4, <1>6, <3>1, OneMore
    <3>3. Len(train) + 1 \in DOMAIN train' /\ train'[Len(train')] = Cur
      BY <1>4, <3>2
    <3>4. ASSUME NEW p \in DOMAIN leaves, NEW i \in 1..Size(p), Passed(p, i)'
          PROVE  \E n \in DOMAIN train' : train'[n] = At(p, i)
      <4>1. CASE Passed(p, i)
        <5>1. PICK n \in DOMAIN train : train[n] = At(p, i)
          BY <1>1, <2>1, <4>1 DEF AllInv
        <5> QED
          BY <3>2, <5>1
      <4>2. CASE p = page /\ i = idx
        BY <1>2, <3>2, <3>3, <4>2
      <4> QED
        BY <1>3, <3>4, <4>1, <4>2
    <3>5. ASSUME NEW n \in DOMAIN train'
          PROVE  decode_logic_id(train'[n].label) <= decode_logic_id(train'[Len(train')].label)
      <4>1. PICK p \in DOMAIN leaves : \E i \in 1..Size(p) : Passed(p, i)' /\ train'[n] = At(p, i)
        BY <1>7
      <4>2. PICK i \in 1..Size(p) : Passed(p, i)' /\ train'[n] = At(p, i)
        BY <4>1
      <4>3. Base(m) <= p /\ p <= page /\ p \in Nat
        <5>1. CASE Passed(p, i)
          <6>1. p \in Nat
            BY <1>4, LeafSizes
          <6> QED
            BY <1>1, <1>2, <5>1, <6>1 DEF Passed
        <5>2. CASE p = page
          BY <1>2, <5>2
        <5> QED
          BY <1>3, <4>2, <5>1, <5>2
      <4>4. decode_logic_id(train'[n].label) = p - Base(m)
        BY <1>2, <1>4, <4>2, <4>3, AtFields
      <4> QED
        BY <1>2, <1>6, <3>3, <4>3, <4>4
    <3> QED
      BY <1>5, <1>1, <3>4, <3>5 DEF AllInv
  <2>2. CASE setup.sampler # "all"
    BY <1>1, <2>2 DEF AllInv
  <2> QED
    BY <2>1, <2>2
<1>12. PageInv'
  <2>1. CASE setup.sampler = "page"
    <3>1. AddToPage
      BY <1>1, <2>1 DEF AddTo
    <3>2. /\ smin' = At(page, 1) /\ smax' = IF idx = 1 THEN None ELSE At(page, idx)
          /\ Len(train') = 2 * (page - Base(m))
          /\ \A p \in Base(m)..(page - 1) :
               /\ \E n \in DOMAIN train' : train'[n] = At(p, 1)
               /\ \E n \in DOMAIN train' : train'[n] = At(p, Size(p))
      BY <1>1, <2>1, <3>1, PageSteps
    <3>3. /\ At(LastLeaf, 1)' = At(page, 1) /\ At(LastLeaf, LastSlot)' = At(page, idx)
          /\ \A p : At(p, Size(p))' = At(p, Size(p))
      BY <1>1, <1>3, <1>5 DEF At, Size
    <3> QED
      BY <1>3, <1>5, <3>2, <3>3 DEF PageInv
  <2>2. CASE setup.sampler # "page"
    BY <1>1, <2>2 DEF PageInv
  <2> QED
    BY <2>1, <2>2
<1> QED
  BY <1>3, <1>8, <1>9, <1>10, <1>11, <1>12

\* The walk of a submodel starts at the leaf of its least key, with an empty
\* sampler and a table of that leaf.
LEMMA SeekSteps ==
  ASSUME TypeOK, PlaceInv, RangeInv, Seek
  PROVE  TypeOK' /\ PlaceInv' /\ TableInv' /\ WalkInv' /\ AllInv' /\ PageInv'
<1>1. /\ pc = "next" /\ end_key[m] # -1 /\ Enter(Base(m), 0) /\ pc' = "scan"
      /\ smin' = None /\ smax' = None /\ train' = <<>> /\ done' = 0
      /\ setup' = setup /\ leaves' = leaves /\ router' = router
      /\ start_key' = start_key /\ end_key' = end_key /\ m' = m
      /\ second_layer' = second_layer /\ cpc' = cpc /\ ckey' = ckey /\ ns' = ns /\ ne' = ne
  BY DEF Seek, Base, index, client
<1>2. m \in Sub /\ LeafList(leaves) /\ tts[m] = <<>>
  BY <1>1, AtWork DEF TypeOK, PlaceInv
<1>3. Base(m) \in DOMAIN leaves /\ Base(m) \in Nat
  BY <1>1, <1>2, RangeHas
<1>4. /\ page' = Base(m) /\ idx' = 1 /\ tts' \in [Sub -> Seq(Nat)]
      /\ \A s \in Sub : s # m => tts'[s] = tts[s]
      /\ Len(tts'[m]) = 1 /\ get_wo_incar(tts'[m][1]) = Base(m)
      /\ logic_page_id' = 1 /\ logic_page_id' \in Nat
      /\ Base(m) \in 0..Len(leaves) /\ 1 \in 0..N
  <2>1. Len(tts[m]) = 0
    BY <1>2
  <2> QED
    BY <1>1, <1>2, <1>3, <2>1, Enters
<1>5. Base(m)' = Base(m) /\ (\A p : Size(p)' = Size(p)) /\ 1 \in 1..Size(Base(m)) /\ Base(m) # 0
  BY <1>1, <1>2, <1>3, WalkFixed, LeafSizes, XCacheAssumption DEF Size
<1>6. TypeOK'
  <2>1. <<>> \in Seq(Sample) /\ 0 \in 0..Len(<<>>)
    OBVIOUS
  <2> QED
    BY <1>1, <1>4, <2>1 DEF TypeOK
<1>7. PlaceInv'
  <2>1. \A s \in Sub : s > m => s # m
    BY <1>2, XCacheAssumption DEF Sub
  <2> QED
    BY <1>1, <1>4, <2>1 DEF PlaceInv
<1>8. TableInv'
  <2>1. tts'[m] \in Seq(Nat)
    BY <1>2, <1>4
  <2>2. DOMAIN tts'[m] = 1..1 /\ tts'[m] # <<>>
    BY <1>4, <2>1
  <2>3. \A j \in 1..1 : j = 1 /\ Base(m) + j - 1 = Base(m)
    BY <1>3
  <2> QED
    BY <1>1, <1>3, <1>4, <1>5, <2>2, <2>3 DEF TableInv
<1>9. \A p \in DOMAIN leaves : \A i \in 1..Size(p) : ~Passed(p, i)'
  <2> SUFFICES ASSUME NEW p \in DOMAIN leaves, NEW i \in 1..Size(p), Passed(p, i)'
               PROVE  FALSE
    OBVIOUS
  <2>1. p \in Nat /\ i \in Nat
    BY <1>2, LeafSizes
  <2>2. Base(m) <= p /\ (p < Base(m) \/ (p = Base(m) /\ i < 1))
    BY <1>4, <1>5, <2>1 DEF Passed
  <2> QED
    BY <1>3, <2>1, <2>2
<1>10. WalkInv'
  <2>1. Base(m) = Base(m) + 1 - 1
    BY <1>3
  <2>2. DOMAIN train' = {}
    BY <1>1
  <2> QED
    BY <1>1, <1>4, <1>5, <1>9, <2>1, <2>2 DEF WalkInv
<1>11. AllInv'
  <2>1. DOMAIN train' = {}
    BY <1>1
  <2> QED
    BY <1>1, <1>5, <1>9, <2>1 DEF AllInv
<1>12. PageInv'
  <2>1. ~Started'
    BY <1>4, <1>5 DEF Started
  <2> QED
    BY <1>1, <2>1 DEF PageInv
<1> QED
  BY <1>6, <1>7, <1>8, <1>10, <1>11, <1>12

-----------------------------------------------------------------------------
(* Training. *)

\* When the loop ends the walk has passed every key of the submodel.
LEMMA RangePassed ==
  ASSUME TypeOK, PlaceInv, RangeInv, TableInv, WalkInv, pc = "scan",
         page # 0 => CurKey > end_key[m], NEW k \in Routed(m)
  PROVE  /\ LeafOf(k) \in DOMAIN leaves /\ LeafOf(k) \in Nat /\ k \in Nat /\ k \in Key
         /\ Base(m) <= LeafOf(k) /\ Base(m) \in Nat
         /\ \E i \in 1..Size(LeafOf(k)) : leaves[LeafOf(k)].keys[i] = k /\ Passed(LeafOf(k), i)
<1>1. LeafList(leaves) /\ m \in Sub /\ end_key[m] # -1
  BY AtWork DEF TypeOK, TableInv
<1>2. /\ k \in Stored /\ k \in Nat /\ k \in Key /\ start_key[m] \in Routed(m) /\ end_key[m] \in Routed(m)
      /\ start_key[m] \in Stored /\ end_key[m] \in Nat
      /\ start_key[m] <= k /\ k <= end_key[m] /\ Base(m) \in Nat
  BY <1>1, RangeHas
<1>3. LeafOf(k) \in DOMAIN leaves /\ LeafOf(k) \in Nat /\ Base(m) <= LeafOf(k)
  <2>1. LeafOf(k) \in DOMAIN leaves /\ DOMAIN leaves \subseteq Nat
    BY <1>1, <1>2, LeafOfKey, LeafSizes
  <2>2. LeafOf(start_key[m]) <= LeafOf(k)
    BY <1>1, <1>2, LeafOfRises
  <2> QED
    BY <2>1, <2>2 DEF Base
<1>4. PICK i \in 1..Size(LeafOf(k)) : leaves[LeafOf(k)].keys[i] = k
  BY <1>1, <1>2, LeafOfKey
<1>5. Passed(LeafOf(k), i)
  <2>1. CASE page = 0
    BY <1>3, <2>1 DEF Passed
  <2>2. CASE page # 0
    <3>1. page \in DOMAIN leaves /\ idx \in 1..Size(page) /\ CurKey = leaves[page].keys[idx]
      BY <2>2, CurIs
    <3>2. CurKey \in Nat
      BY <1>1, <3>1, LeafSizes, XCacheAssumption DEF Key
    <3>3. leaves[LeafOf(k)].keys[i] < leaves[page].keys[idx]
      BY <1>2, <1>4, <2>2, <3>1, <3>2
    <3>4. LeafOf(k) < page \/ (LeafOf(k) = page /\ i < idx)
      BY <1>1, <1>3, <3>1, <3>3, KeysRise
    <3> QED
      BY <1>3, <3>4 DEF Passed
  <2> QED
    BY <2>1, <2>2
<1> QED
  BY <1>2, <1>3, <1>4, <1>5

\* A walk that ends has begun: its first key is not behind the range.
LEMMA WalkStarts ==
  ASSUME TypeOK, PlaceInv, RangeInv, TableInv, WalkInv, pc = "scan",
         page # 0 => CurKey > end_key[m]
  PROVE  Started
<1>1. m \in Sub /\ end_key[m] # -1
  BY AtWork DEF TableInv
<1>2. start_key[m] \in Routed(m)
  BY <1>1, RangeHas
<1>3. PICK i \in 1..Size(LeafOf(start_key[m])) : Passed(LeafOf(start_key[m]), i)
  BY <1>2, RangePassed
<1>4. i \in Nat /\ i >= 1 /\ Base(m) \in Nat
  BY <1>2, RangePassed
<1> QED
  BY <1>3, <1>4 DEF Passed, Started, Base

\* What training is done on.
TrainSet == IF setup.sampler = "page" THEN AddCur ELSE train

\* The sampler kept two samples of the page of key k (one twice if it kept all
\* keys), and the label that bounds predictions is not before that page.
LEMMA TrainSetHas ==
  ASSUME TypeOK, PlaceInv, RangeInv, TableInv, WalkInv, AllInv, PageInv, pc = "scan",
         page # 0 => CurKey > end_key[m]
  PROVE  /\ TrainSet \in Seq(Sample) /\ LastKept(Len(TrainSet)) \in DOMAIN TrainSet
         /\ \A n \in DOMAIN TrainSet : \E p \in DOMAIN leaves : \E i \in 1..Size(p) :
              Passed(p, i) /\ TrainSet[n] = At(p, i)
         /\ \A k \in Routed(m) :
              LET id == LeafOf(k) - Base(m) IN
              /\ id <= decode_logic_id(TrainSet[LastKept(Len(TrainSet))].label)
              /\ \E a \in DOMAIN TrainSet :
                   /\ decode_logic_id(TrainSet[a].label) = id
                   /\ IF setup.sampler = "page" THEN TrainSet[a].key <= k ELSE TrainSet[a].key = k
              /\ \E b \in DOMAIN TrainSet :
                   /\ decode_logic_id(TrainSet[b].label) = id
                   /\ IF setup.sampler = "page" THEN k <= TrainSet[b].key ELSE TrainSet[b].key = k
<1>1. /\ LeafList(leaves) /\ m \in Sub /\ end_key[m] # -1 /\ setup \in Programs
      /\ train \in Seq(Sample) /\ Len(train) \in Nat /\ DOMAIN train = 1..Len(train)
  BY AtWork DEF TypeOK, TableInv
<1>2. /\ LastLeaf \in DOMAIN leaves /\ LastLeaf \in Nat
      /\ Base(m) \in Nat /\ Base(m) <= LastLeaf
      /\ LastSlot \in 1..Size(LastLeaf) /\ LastSlot \in Nat /\ 1 \in 1..Size(LastLeaf)
      /\ \A p \in DOMAIN leaves : \A i \in 1..Size(p) :
           Passed(p, i) <=> Base(m) <= p /\ (p < LastLeaf \/ (p = LastLeaf /\ i <= LastSlot))
  BY WalkStarts, LastPassed
<1>3. ASSUME NEW k \in Routed(m)
      PROVE  /\ LeafOf(k) \in DOMAIN leaves /\ LeafOf(k) \in Nat /\ k \in Nat
             /\ Base(m) <= LeafOf(k)
             /\ \E i \in 1..Size(LeafOf(k)) : leaves[LeafOf(k)].keys[i] = k /\ Passed(LeafOf(k), i)
  BY <1>3, RangePassed
<1>4. \A n \in DOMAIN train : \E p \in DOMAIN leaves : \E i \in 1..Size(p) :
        Passed(p, i) /\ train[n] = At(p, i)
  BY DEF WalkInv
<1>5. CASE setup.sampler = "page"
  <2>1. TrainSet = AddCur /\ setup.step = 2
    BY <1>1, <1>5 DEF TrainSet, Programs, Setup
  <2> DEFINE more == IF LastSlot = 1 THEN 1 ELSE 2
  <2>2. /\ Len(AddCur) = Len(train) + more
        /\ DOMAIN AddCur = 1..(Len(train) + more)
        /\ \A n \in DOMAIN train : AddCur[n] = train[n]
        /\ AddCur[Len(train) + 1] = At(LastLeaf, 1)
        /\ AddCur[Len(train) + more] = At(LastLeaf, LastSlot)
    BY <1>5, WalkStarts, AddCurHas
  <2>3. /\ Len(train) = 2 * (LastLeaf - Base(m))
        /\ \A p \in Base(m)..(LastLeaf - 1) :
             /\ \E n \in DOMAIN train : train[n] = At(p, 1)
             /\ \E n \in DOMAIN train : train[n] = At(p, Size(p))
    BY <1>5, WalkStarts DEF PageInv
  <2>4. more \in {1, 2}
    OBVIOUS
  <2> HIDE DEF more
  <2>5. Len(train) + 1 \in DOMAIN AddCur /\ Len(train) + more \in DOMAIN AddCur
    BY <1>1, <2>2, <2>4
  <2>6. LastKept(Len(AddCur)) = Len(train) + 1
    <3>1. LastLeaf - Base(m) \in Nat
      BY <1>2
    <3>2. \A d \in Nat : /\ (2 * d + 1) - ((2 * d + 1 - 1) % 2) = 2 * d + 1
                         /\ (2 * d + 2) - ((2 * d + 2 - 1) % 2) = 2 * d + 1
      OBVIOUS
    <3>3. /\ Len(AddCur) = 2 * (LastLeaf - Base(m)) + 1 \/ Len(AddCur) = 2 * (LastLeaf - Base(m)) + 2
          /\ Len(train) = 2 * (LastLeaf - Base(m))
      BY <2>2, <2>3, <2>4, <3>1
    <3>4. LastKept(Len(AddCur)) = Len(AddCur) - ((Len(AddCur) - 1) % 2)
      BY <2>1 DEF LastKept
    <3> HIDE DEF LastKept
    <3> QED
      BY <3>1, <3>2, <3>3, <3>4
  <2>7. \A n \in DOMAIN AddCur : n \in DOMAIN train \/ n = Len(train) + 1 \/ n = Len(train) + more
    BY <1>1, <2>2, <2>4
  <2>8. ASSUME NEW n \in DOMAIN AddCur
        PROVE  \E p \in DOMAIN leaves : \E i \in 1..Size(p) : Passed(p, i) /\ AddCur[n] = At(p, i)
    <3>1. CASE n \in DOMAIN train
      BY <1>4, <2>2, <3>1
    <3>2. CASE n = Len(train) + 1
      <4>1. Passed(LastLeaf, 1)
        BY <1>2
      <4> QED
        BY <1>2, <2>2, <3>2, <4>1
    <3>3. CASE n = Len(train) + more
      <4>1. Passed(LastLeaf, LastSlot)
        BY <1>2
      <4> QED
        BY <1>2, <2>2, <3>3, <4>1
    <3> QED
      BY <2>7, <3>1, <3>2, <3>3
  <2>9. AddCur \in Seq(Sample)
    BY AddCurType
  <2>10. decode_logic_id(AddCur[LastKept(Len(AddCur))].label) = LastLeaf - Base(m)
    BY <1>1, <1>2, <2>2, <2>6, AtFields
  <2>11. ASSUME NEW k \in Routed(m)
         PROVE  /\ LeafOf(k) <= LastLeaf
                /\ \E a \in DOMAIN AddCur :
                     decode_logic_id(AddCur[a].label) = LeafOf(k) - Base(m) /\ AddCur[a].key <= k
                /\ \E b \in DOMAIN AddCur :
                     decode_logic_id(AddCur[b].label) = LeafOf(k) - Base(m) /\ k <= AddCur[b].key
    <3> DEFINE p == LeafOf(k)
    <3>1. p \in DOMAIN leaves /\ p \in Nat /\ k \in Nat /\ Base(m) <= p
      BY <1>3
    <3>2. PICK i \in 1..Size(p) : leaves[p].keys[i] = k /\ Passed(p, i)
      BY <1>3
    <3>3. p <= LastLeaf /\ (p = LastLeaf => i <= LastSlot)
      BY <1>2, <3>1, <3>2
    <3> HIDE DEF p
    <3> DEFINE last == IF p = LastLeaf THEN LastSlot ELSE Size(p)
    <3>4. /\ \E a \in DOMAIN AddCur : AddCur[a] = At(p, 1)
          /\ \E b \in DOMAIN AddCur : AddCur[b] = At(p, last)
      <4>1. CASE p = LastLeaf
        BY <2>2, <2>5, <4>1
      <4>2. CASE p # LastLeaf
        <5>1. p \in Base(m)..(LastLeaf - 1)
          BY <1>2, <3>1, <3>3, <4>2
        <5>2. \A n \in DOMAIN train : n \in DOMAIN AddCur /\ AddCur[n] = train[n]
          BY <1>1, <2>2, <2>4
        <5> QED
          BY <2>3, <4>2, <5>1, <5>2
      <4> QED
        BY <4>1, <4>2
    <3>5. /\ 1 \in 1..Size(p) /\ last \in 1..Size(p) /\ i <= last
      <4>1. Size(p) \in Nat /\ Size(p) >= 1
        BY <1>1, <3>1, LeafSizes, XCacheAssumption
      <4> QED
        BY <1>2, <3>3, <4>1
    <3> HIDE DEF last
    <3>6. leaves[p].keys[1] <= k /\ k <= leaves[p].keys[last]
      <4>1. leaves[p].keys[1] \in Nat /\ leaves[p].keys[last] \in Nat
        BY <1>1, <3>1, <3>5, LeafSizes, XCacheAssumption DEF Key
      <4>2. ~(i < 1) /\ ~(last < i) /\ ~(p < p)
        BY <3>1, <3>5
      <4>3. ~(leaves[p].keys[i] < leaves[p].keys[1]) /\ ~(leaves[p].keys[last] < leaves[p].keys[i])
        BY <1>1, <3>1, <3>5, <4>2, KeysRise
      <4> QED
        BY <3>1, <3>2, <4>1, <4>3
    <3>7. /\ At(p, 1).key = leaves[p].keys[1] /\ At(p, last).key = leaves[p].keys[last]
          /\ decode_logic_id(At(p, 1).label) = p - Base(m)
          /\ decode_logic_id(At(p, last).label) = p - Base(m)
      BY <1>1, <1>2, <3>1, <3>5, AtFields
    <3>8. /\ p <= LastLeaf
          /\ \E a \in DOMAIN AddCur : decode_logic_id(AddCur[a].label) = p - Base(m) /\ AddCur[a].key <= k
          /\ \E b \in DOMAIN AddCur : decode_logic_id(AddCur[b].label) = p - Base(m) /\ k <= AddCur[b].key
      BY <3>3, <3>4, <3>6, <3>7
    <3> QED
      BY <3>8 DEF p
  <2>12. \A k \in Routed(m) : LeafOf(k) - Base(m) <= LastLeaf - Base(m)
    BY <1>2, <1>3, <2>11
  <2> QED
    BY <1>5, <2>1, <2>5, <2>6, <2>8, <2>9, <2>10, <2>11, <2>12
<1>6. CASE setup.sampler # "page"
  <2>1. TrainSet = train /\ setup.step = 1 /\ setup.sampler = "all"
    BY <1>1, <1>6 DEF TrainSet, Programs, Setup
  <2>2. /\ \A p \in DOMAIN leaves : \A i \in 1..Size(p) : Passed(p, i) => \E n \in DOMAIN train : train[n] = At(p, i)
        /\ \A n \in DOMAIN train : decode_logic_id(train[n].label) <= decode_logic_id(train[Len(train)].label)
    BY <2>1 DEF AllInv
  <2>3. LastKept(Len(train)) = Len(train)
    <3>1. \A n \in Nat : n - ((n - 1) % 1) = n
      OBVIOUS
    <3> QED
      BY <1>1, <2>1, <3>1 DEF LastKept
  <2>4. Len(train) \in DOMAIN train
    <3>1. Passed(LastLeaf, LastSlot)
      BY <1>2
    <3>2. \E n \in DOMAIN train : TRUE
      BY <1>2, <2>2, <3>1
    <3> QED
      BY <1>1, <3>2
  <2>5. ASSUME NEW k \in Routed(m)
        PROVE  \E a \in DOMAIN train : decode_logic_id(train[a].label) = LeafOf(k) - Base(m) /\ train[a].key = k
    <3>1. PICK i \in 1..Size(LeafOf(k)) : leaves[LeafOf(k)].keys[i] = k /\ Passed(LeafOf(k), i)
      BY <1>3
    <3>2. PICK a \in DOMAIN train : train[a] = At(LeafOf(k), i)
      BY <1>3, <2>2, <3>1
    <3>3. At(LeafOf(k), i).key = k /\ decode_logic_id(At(LeafOf(k), i).label) = LeafOf(k) - Base(m)
      BY <1>1, <1>2, <1>3, <3>1, AtFields
    <3> QED
      BY <3>2, <3>3
  <2> QED
    BY <1>1, <1>4, <1>6, <2>1, <2>2, <2>3, <2>4, <2>5
<1> QED
  BY <1>5, <1>6

\* A key the walk has passed is on a leaf of the table, and its logical address is
\* translated to its place.
LEMMA PassedTranslates ==
  ASSUME TypeOK, PlaceInv, RangeInv, TableInv, WalkInv, pc = "scan",
         NEW p \in DOMAIN leaves, NEW i \in 1..Size(p), Passed(p, i)
  PROVE  /\ p - Base(m) \in 0..(Len(tts[m]) - 1)
         /\ Translates(At(p, i))
<1>1. /\ LeafList(leaves) /\ m \in Sub /\ Base(m) \in Nat
      /\ tts[m] \in Seq(Nat) /\ Len(tts[m]) \in Nat /\ DOMAIN tts[m] = 1..Len(tts[m])
      /\ DOMAIN leaves = 1..Len(leaves) /\ Len(leaves) \in Nat
  <2>1. LeafList(leaves) /\ m \in Sub /\ end_key[m] # -1
    BY AtWork DEF TypeOK, TableInv
  <2>2. Base(m) \in Nat /\ tts[m] \in Seq(Nat)
    BY <2>1, RangeHas DEF TypeOK
  <2> QED
    BY <2>1, <2>2, LeafSizes
<1>2. p \in Nat /\ i \in Nat /\ i <= Size(p) /\ Base(m) <= p
  BY <1>1, LeafSizes DEF Passed
<1>3. p <= Base(m) + Len(tts[m]) - 1
  <2>1. CASE page = 0
    BY <1>1, <1>2, <2>1 DEF WalkInv
  <2>2. CASE page # 0
    <3>1. page = Base(m) + Len(tts[m]) - 1 /\ page \in Nat
      BY <2>2, CurIs DEF WalkInv
    <3>2. p <= page
      BY <1>2, <2>2, <3>1 DEF Passed
    <3> QED
      BY <3>1, <3>2
  <2> QED
    BY <2>1, <2>2
<1>4. p - Base(m) \in 0..(Len(tts[m]) - 1) /\ p - Base(m) + 1 \in DOMAIN tts[m]
      /\ Base(m) + (p - Base(m) + 1) - 1 = p
  <2>1. \A b, l \in Nat : p <= b + l - 1 /\ b <= p =>
          p - b \in 0..(l - 1) /\ p - b + 1 \in 1..l /\ b + (p - b + 1) - 1 = p
    BY <1>2
  <2> QED
    BY <1>1, <1>2, <1>3, <2>1
<1>5. get_wo_incar(tts[m][p - Base(m) + 1]) = p
  BY <1>4 DEF TableInv
<1>6. /\ decode_logic_id(At(p, i).label) = p - Base(m) /\ decode_off(At(p, i).label) = i - 1
      /\ At(p, i).key = leaves[p].keys[i]
  BY <1>1, <1>2, AtFields
<1>7. p - Base(m) < Len(tts[m]) /\ i \in DOMAIN leaves[p].keys /\ i - 1 + 1 = i
  <2>1. DOMAIN leaves[p].keys = 1..Size(p)
    BY <1>1, LeafSizes
  <2>2. \A x \in 0..(Len(tts[m]) - 1) : x < Len(tts[m])
    BY <1>1
  <2> QED
    BY <1>2, <1>4, <2>1, <2>2
<1> QED
  BY <1>4, <1>5, <1>6, <1>7 DEF Translates

\* Training on that set leaves a model whose predictions keep the order of two
\* samples around each key.
LEMMA TrainSteps ==
  ASSUME TypeOK, PlaceInv, RangeInv, TableInv, WalkInv, AllInv, PageInv, TrainMl
  PROVE  TypeOK' /\ PlaceInv' /\ TableInv' /\ LabelInv' /\ BracketInv' /\ ErrInv'
<1>1. /\ pc = "scan" /\ (page # 0 => CurKey > end_key[m]) /\ pc' = "err"
      /\ train' = TrainSet /\ done' = 0
      /\ setup' = setup /\ leaves' = leaves /\ router' = router
      /\ start_key' = start_key /\ end_key' = end_key /\ m' = m
      /\ page' = page /\ idx' = idx /\ logic_page_id' = logic_page_id
      /\ smin' = smin /\ smax' = smax /\ tts' = tts
      /\ cpc' = cpc /\ ckey' = ckey /\ ns' = ns /\ ne' = ne
  BY DEF TrainMl, TrainSet, index, client
<1> DEFINE max == TrainSet[LastKept(Len(TrainSet))].label
<1>2. PICK f \in IF setup.sampler = "page" THEN Lines ELSE Curves :
        second_layer' = [second_layer EXCEPT ![m] = [ml |-> f, max |-> max, err_min |-> 0, err_max |-> 0]]
  BY DEF TrainMl, TrainSet
<1>3. /\ TrainSet \in Seq(Sample) /\ LastKept(Len(TrainSet)) \in DOMAIN TrainSet
      /\ \A n \in DOMAIN TrainSet : \E p \in DOMAIN leaves : \E i \in 1..Size(p) :
           Passed(p, i) /\ TrainSet[n] = At(p, i)
      /\ \A k \in Routed(m) :
           LET id == LeafOf(k) - Base(m) IN
           /\ id <= decode_logic_id(max)
           /\ \E a \in DOMAIN TrainSet :
                /\ decode_logic_id(TrainSet[a].label) = id
                /\ IF setup.sampler = "page" THEN TrainSet[a].key <= k ELSE TrainSet[a].key = k
           /\ \E b \in DOMAIN TrainSet :
                /\ decode_logic_id(TrainSet[b].label) = id
                /\ IF setup.sampler = "page" THEN k <= TrainSet[b].key ELSE TrainSet[b].key = k
  BY <1>1, TrainSetHas
<1>4. /\ LeafList(leaves) /\ m \in Sub /\ end_key[m] # -1 /\ Base(m) \in Nat
      /\ tts[m] \in Seq(Nat) /\ Len(tts[m]) \in Nat /\ DOMAIN tts[m] = 1..Len(tts[m])
      /\ DOMAIN leaves = 1..Len(leaves) /\ Len(leaves) \in Nat
  <2>1. LeafList(leaves) /\ m \in Sub /\ end_key[m] # -1
    BY <1>1, AtWork DEF TypeOK, TableInv
  <2>2. Base(m) \in Nat /\ tts[m] \in Seq(Nat)
    BY <1>1, <2>1, RangeHas DEF TypeOK
  <2> QED
    BY <2>1, <2>2, LeafSizes
<1>5. max \in Nat
  <2>1. TrainSet[LastKept(Len(TrainSet))] \in Sample
    BY <1>3
  <2> QED
    BY <2>1 DEF Sample
<1> HIDE DEF max
<1>6. f \in [Key -> Int] /\ (setup.sampler = "page" => Monotone(f))
  BY <1>2, XCacheAssumption
<1>7. /\ second_layer'[m].ml = f /\ second_layer'[m].max = max
      /\ \A s \in Sub : s # m => second_layer'[s] = second_layer[s]
      /\ second_layer' \in [Sub -> Model]
      /\ \A s \in Sub : second_layer'[s].err_min <= 0
  <2> DEFINE x == [ml |-> f, max |-> max, err_min |-> 0, err_max |-> 0]
  <2>1. x \in Model /\ x.ml = f /\ x.max = max /\ x.err_min = 0
    BY <1>5, <1>6 DEF Model
  <2>2. second_layer' = [second_layer EXCEPT ![m] = x]
    BY <1>2
  <2> HIDE DEF x
  <2>3. second_layer \in [Sub -> Model] /\ \A s \in Sub : second_layer[s].err_min <= 0
    BY DEF TypeOK, Model
  <2>4. second_layer'[m] = x /\ \A s \in Sub : s # m => second_layer'[s] = second_layer[s]
    BY <1>4, <2>2, <2>3
  <2>5. second_layer' \in [Sub -> Model]
    BY <1>4, <2>1, <2>2, <2>3
  <2> QED
    BY <2>1, <2>3, <2>4, <2>5
<1>8. /\ Base(m)' = Base(m) /\ Routed(m)' = Routed(m) /\ \A k : LeafOf(k)' = LeafOf(k)
  BY <1>1, WalkFixed, IndexFixed
<1>9. TypeOK'
  <2>1. 0 \in 0..Len(TrainSet)
    BY <1>3
  <2>2. /\ setup' \in Programs /\ LeafList(leaves') /\ router' \in [Key -> Int]
        /\ pc' \in {"dispatch", "next", "scan", "err", "serve"}
        /\ start_key' \in [Sub -> Key \cup {MaxKey + 1}] /\ end_key' \in [Sub -> Key \cup {-1}]
        /\ m' \in 0..NumSub /\ page' \in 0..Len(leaves') /\ idx' \in 0..N
        /\ logic_page_id' \in Nat
        /\ smin' \in Sample \cup {None} /\ smax' \in Sample \cup {None}
        /\ tts' \in [Sub -> Seq(Nat)]
        /\ cpc' \in {"idle", "predicted", "ok", "assert"} /\ ckey' \in Key /\ ns' \in Nat /\ ne' \in Int
    BY <1>1 DEF TypeOK
  <2>3. train' \in Seq(Sample) /\ done' \in 0..Len(train')
    BY <1>1, <1>3, <2>1
  <2>4. /\ second_layer' \in [Sub -> [ml : [Key -> Int], max : Nat, err_min : Int, err_max : Nat]]
        /\ \A s \in Sub : second_layer'[s].err_min <= 0
    BY <1>7 DEF Model
  <2> QED
    BY <2>2, <2>3, <2>4 DEF TypeOK
<1>10. PlaceInv'
  BY <1>1, <1>4 DEF PlaceInv
<1>11. TableInv'
  BY <1>1, <1>8 DEF TableInv
<1>12. LabelInv'
  <2>1. ASSUME NEW n \in DOMAIN TrainSet PROVE Translates(TrainSet[n])
    <3>1. PICK p \in DOMAIN leaves : \E i \in 1..Size(p) : Passed(p, i) /\ TrainSet[n] = At(p, i)
      BY <1>3
    <3>2. PICK i \in 1..Size(p) : Passed(p, i) /\ TrainSet[n] = At(p, i)
      BY <3>1
    <3> QED
      BY <1>1, <3>2, PassedTranslates
  <2> QED
    BY <1>1, <2>1 DEF LabelInv, Translates
<1>13. BracketInv'
  <2>1. ASSUME NEW k \in Routed(m)
        PROVE  LET id == LeafOf(k) - Base(m) IN
               /\ id \in 0..(Len(tts[m]) - 1)
               /\ id <= decode_logic_id(max)
               /\ \E a \in DOMAIN TrainSet : decode_logic_id(TrainSet[a].label) = id /\ f[TrainSet[a].key] <= f[k]
               /\ \E b \in DOMAIN TrainSet : decode_logic_id(TrainSet[b].label) = id /\ f[k] <= f[TrainSet[b].key]
    <3>1. /\ LeafOf(k) \in DOMAIN leaves /\ k \in Key /\ k \in Nat
          /\ \E i \in 1..Size(LeafOf(k)) : Passed(LeafOf(k), i)
      BY <1>1, RangePassed
    <3>2. LeafOf(k) - Base(m) \in 0..(Len(tts[m]) - 1)
      BY <1>1, <3>1, PassedTranslates
    <3>3. \A n \in DOMAIN TrainSet : TrainSet[n].key \in Key /\ TrainSet[n].key \in Nat
      <4>1. \A n \in DOMAIN TrainSet : TrainSet[n] \in Sample
        BY <1>3
      <4> QED
        BY <4>1, XCacheAssumption DEF Sample, Key
    <3>4. f[k] \in Int
      BY <1>6, <3>1
    <3>5. ASSUME setup.sampler = "page", NEW x \in Key, NEW y \in Key, x <= y PROVE f[x] <= f[y]
      <4>1. f[x] \in Int /\ x \in Nat /\ y \in Nat
        BY <1>6, XCacheAssumption DEF Key
      <4>2. x < y => f[x] <= f[y]
        BY <1>6, <3>5 DEF Monotone
      <4> QED
        BY <3>5, <4>1, <4>2
    <3>6. \E a \in DOMAIN TrainSet : decode_logic_id(TrainSet[a].label) = LeafOf(k) - Base(m) /\ f[TrainSet[a].key] <= f[k]
      <4>1. PICK a \in DOMAIN TrainSet :
              /\ decode_logic_id(TrainSet[a].label) = LeafOf(k) - Base(m)
              /\ IF setup.sampler = "page" THEN TrainSet[a].key <= k ELSE TrainSet[a].key = k
        BY <1>3
      <4>2. f[TrainSet[a].key] <= f[k]
        <5>1. CASE setup.sampler = "page"
          BY <3>1, <3>3, <3>5, <4>1, <5>1
        <5>2. CASE setup.sampler # "page"
          BY <3>4, <4>1, <5>2
        <5> QED
          BY <5>1, <5>2
      <4> QED
        BY <4>1, <4>2
    <3>7. \E b \in DOMAIN TrainSet : decode_logic_id(TrainSet[b].label) = LeafOf(k) - Base(m) /\ f[k] <= f[TrainSet[b].key]
      <4>1. PICK b \in DOMAIN TrainSet :
              /\ decode_logic_id(TrainSet[b].label) = LeafOf(k) - Base(m)
              /\ IF setup.sampler = "page" THEN k <= TrainSet[b].key ELSE TrainSet[b].key = k
        BY <1>3
      <4>2. f[k] <= f[TrainSet[b].key]
        <5>1. CASE setup.sampler = "page"
          BY <3>1, <3>3, <3>5, <4>1, <5>1
        <5>2. CASE setup.sampler # "page"
          BY <3>4, <4>1, <5>2
        <5> QED
          BY <5>1, <5>2
      <4> QED
        BY <4>1, <4>2
    <3>8. LeafOf(k) - Base(m) <= decode_logic_id(max)
      BY <1>3
    <3> QED
      BY <3>2, <3>6, <3>7, <3>8
  <2> QED
    BY <1>1, <1>7, <1>8, <2>1 DEF BracketInv
<1>14. ErrInv'
  <2>1. 1..0 = {}
    OBVIOUS
  <2> QED
    BY <1>1, <2>1 DEF ErrInv
<1> QED
  BY <1>9, <1>10, <1>11, <1>12, <1>13, <1>14

-----------------------------------------------------------------------------
(* Errors. *)

\* Pages are numbers.
LEMMA PagesType ==
  ASSUME TypeOK, NEW k \in Stored
  PROVE  FirstPage(k) \in Nat /\ LastPage(k) \in Int
<1>1. k \in Key /\ select_sec_model(k) \in Sub
  BY LeafOfKey, Routes DEF TypeOK
<1> DEFINE x == second_layer[select_sec_model(k)]
<1>2. x \in Model /\ tts[select_sec_model(k)] \in Seq(Nat)
  BY <1>1 DEF TypeOK, Model
<1>3. get_point_predict(x, k) \in Nat /\ x.max \in Nat /\ x.err_min \in Int /\ x.err_max \in Int
  BY <1>1, <1>2, PointRises, SMTT(30) DEF Model
<1>4. get_predict_range(x, k)[1] \in Int /\ get_predict_range(x, k)[2] \in Int
  BY <1>3 DEF get_predict_range, Max2, Min2
<1>5. get_predict_range(x, k)[1] \div N \in Int /\ get_predict_range(x, k)[2] \div N \in Int
  BY <1>4, DivRounds
<1>6. FirstPage(k) \in Nat
  BY <1>5 DEF FirstPage, Max2
<1>7. LastPage(k) \in Int
  <2>1. Len(tts[select_sec_model(k)]) \in Nat
    BY <1>2
  <2> QED
    BY <1>5, <2>1 DEF LastPage, Min2
<1> QED
  BY <1>6, <1>7

\* Errors that cover two samples of a page, predicted on both sides of key k,
\* hold that page in the prediction for k.
LEMMA BetweenSamples ==
  ASSUME NEW x \in Model, NEW k \in Key, NEW id \in Nat, id <= decode_logic_id(x.max),
         NEW a \in Sample, decode_logic_id(a.label) = id, x.ml[a.key] <= x.ml[k],
         Covers(x, a.label, get_point_predict(x, a.key)),
         NEW b \in Sample, decode_logic_id(b.label) = id, x.ml[k] <= x.ml[b.key],
         Covers(x, b.label, get_point_predict(x, b.key))
  PROVE  /\ get_predict_range(x, k)[1] \div N <= id
         /\ id <= get_predict_range(x, k)[2] \div N
<1>1. a.key \in Key /\ b.key \in Key /\ x.err_min \in Int /\ x.err_max \in Int /\ x.max \in Nat
  BY DEF Sample, Model
<1> DEFINE pa == get_point_predict(x, a.key)
           pk == get_point_predict(x, k)
           pb == get_point_predict(x, b.key)
<1>2. pa \in Nat /\ pk \in Nat /\ pb \in Nat /\ pa <= pk /\ pk <= pb
  BY <1>1, PointRises
<1>3. /\ get_predict_range(x, k)[1] = Max2(0, pk + x.err_min)
      /\ get_predict_range(x, k)[2] = Min2(x.max, pk + x.err_max)
  BY DEF get_predict_range
<1>4. id <= decode_logic_id(pa + x.err_max) /\ decode_logic_id(Max2(0, pb + x.err_min)) <= id
  BY DEF Covers
<1> HIDE DEF pa, pk, pb
<1>5. /\ Max2(0, pk + x.err_min) \in Int /\ Max2(0, pb + x.err_min) \in Int
      /\ Max2(0, pk + x.err_min) <= Max2(0, pb + x.err_min)
      /\ pa + x.err_max \in Int /\ pk + x.err_max \in Int /\ pa + x.err_max <= pk + x.err_max
  BY <1>1, <1>2 DEF Max2
<1>6. decode_logic_id(Max2(0, pk + x.err_min)) <= id
  <2>1. decode_logic_id(Max2(0, pk + x.err_min)) <= decode_logic_id(Max2(0, pb + x.err_min))
    BY <1>5, DivRises
  <2>2. decode_logic_id(Max2(0, pk + x.err_min)) \in Int /\ decode_logic_id(Max2(0, pb + x.err_min)) \in Int
    BY <1>5, DivRises
  <2> QED
    BY <1>4, <2>1, <2>2
<1>7. id <= decode_logic_id(pk + x.err_max)
  <2>1. decode_logic_id(pa + x.err_max) <= decode_logic_id(pk + x.err_max)
    BY <1>5, DivRises
  <2>2. decode_logic_id(pa + x.err_max) \in Int /\ decode_logic_id(pk + x.err_max) \in Int
    BY <1>5, DivRises
  <2> QED
    BY <1>4, <2>1, <2>2
<1>8. id <= decode_logic_id(Min2(x.max, pk + x.err_max))
  <2>1. Min2(x.max, pk + x.err_max) = x.max \/ Min2(x.max, pk + x.err_max) = pk + x.err_max
    BY DEF Min2
  <2> QED
    BY <1>7, <2>1
<1> QED
  BY <1>3, <1>6, <1>8 DEF decode_logic_id

\* What a submodel predicts depends on nothing that is not its own.
LEMMA TrainedFixed ==
  ASSUME leaves' = leaves, router' = router, start_key' = start_key,
         NEW s \in Sub, second_layer'[s] = second_layer[s], tts'[s] = tts[s], Trained(s)
  PROVE  Trained(s)'
<1>1. /\ Base(s)' = Base(s) /\ Routed(s)' = Routed(s)
      /\ \A k : LeafOf(k)' = LeafOf(k) /\ select_sec_model(k)' = select_sec_model(k)
  <2>1. Base(s)' = Base(s)
    BY DEF Base, LeafOf, KeysOf
  <2> QED
    BY <2>1, IndexFixed
<1>2. ASSUME NEW k \in Routed(s) PROVE FirstPage(k)' = FirstPage(k) /\ LastPage(k)' = LastPage(k)
  <2>1. select_sec_model(k) = s /\ select_sec_model(k)' = s
    BY <1>1 DEF Routed
  <2>2. FirstPage(k)' = FirstPage(k)
    BY <2>1 DEF FirstPage
  <2>3. LastPage(k)' = LastPage(k)
    BY <2>1 DEF LastPage
  <2> QED
    BY <2>2, <2>3
<1>3. \A k \in Routed(s) : /\ FirstPage(k)' <= LeafOf(k) - Base(s) /\ LeafOf(k) - Base(s) <= LastPage(k)'
                           /\ get_wo_incar(tts'[s][LeafOf(k) - Base(s) + 1]) = LeafOf(k)
  BY <1>2 DEF Trained
<1> QED
  BY <1>1, <1>3 DEF Trained

\* One round of cal_error covers one sample more and keeps the others covered.
LEMMA CalErrorSteps ==
  ASSUME TypeOK, PlaceInv, RangeInv, TableInv, LabelInv, BracketInv, ErrInv, CalError
  PROVE  TypeOK' /\ PlaceInv' /\ TableInv' /\ LabelInv' /\ BracketInv' /\ ErrInv'
<1> DEFINE x == second_layer[m]
           s == train[done + 1]
           y == page_updater(x, s.label, get_point_predict(x, s.key))
<1>1. /\ pc = "err" /\ done < Len(train) /\ pc' = pc /\ done' = done + 1
      /\ second_layer' = [second_layer EXCEPT ![m] = y]
      /\ setup' = setup /\ leaves' = leaves /\ router' = router
      /\ start_key' = start_key /\ end_key' = end_key /\ m' = m
      /\ page' = page /\ idx' = idx /\ logic_page_id' = logic_page_id
      /\ smin' = smin /\ smax' = smax /\ tts' = tts /\ train' = train
      /\ cpc' = cpc /\ ckey' = ckey /\ ns' = ns /\ ne' = ne
  BY DEF CalError, index, client
<1>2. /\ m \in Sub /\ second_layer \in [Sub -> Model] /\ x \in Model /\ x.err_min <= 0
      /\ train \in Seq(Sample) /\ done \in 0..Len(train) /\ Len(train) \in Nat
      /\ \A t \in Sub : second_layer[t].err_min <= 0
  <2>1. m \in Sub /\ second_layer \in [Sub -> Model] /\ \A t \in Sub : second_layer[t].err_min <= 0
    BY <1>1, AtWork DEF TypeOK, Model
  <2>2. train \in Seq(Sample) /\ done \in 0..Len(train) /\ Len(train) \in Nat
    BY DEF TypeOK
  <2> QED
    BY <2>1, <2>2
<1>3. done + 1 \in 1..Len(train) /\ done \in Nat /\ 1..(done + 1) = 1..done \cup {done + 1}
  BY <1>1, <1>2
<1>4. \A n \in 1..Len(train) :
        train[n] \in Sample /\ train[n].label \in Nat /\ train[n].key \in Key
        /\ get_point_predict(x, train[n].key) \in Nat
  <2>1. \A n \in 1..Len(train) : train[n] \in Sample
    BY <1>2
  <2>2. \A k \in Key : get_point_predict(x, k) \in Nat
    BY <1>2, PointRises
  <2> HIDE DEF x
  <2> QED
    BY <2>1, <2>2 DEF Sample
<1>5. /\ y \in Model /\ y.ml = x.ml /\ y.max = x.max
      /\ y.err_min <= x.err_min /\ x.err_max <= y.err_max
      /\ Covers(y, s.label, get_point_predict(x, s.key))
  BY <1>2, <1>3, <1>4, UpdaterCovers
<1> HIDE DEF x, s, y
<1>6. /\ second_layer' \in [Sub -> Model] /\ second_layer'[m] = y
      /\ \A t \in Sub : t # m => second_layer'[t] = second_layer[t]
  BY <1>1, <1>2, <1>5
<1>7. \A k : get_point_predict(y, k) = get_point_predict(x, k)
  BY <1>5 DEF get_point_predict
<1>8. TypeOK'
  <2>1. /\ setup' \in Programs /\ LeafList(leaves') /\ router' \in [Key -> Int]
        /\ pc' \in {"dispatch", "next", "scan", "err", "serve"}
        /\ start_key' \in [Sub -> Key \cup {MaxKey + 1}] /\ end_key' \in [Sub -> Key \cup {-1}]
        /\ m' \in 0..NumSub /\ page' \in 0..Len(leaves') /\ idx' \in 0..N
        /\ logic_page_id' \in Nat
        /\ smin' \in Sample \cup {None} /\ smax' \in Sample \cup {None}
        /\ tts' \in [Sub -> Seq(Nat)] /\ train' \in Seq(Sample)
        /\ cpc' \in {"idle", "predicted", "ok", "assert"} /\ ckey' \in Key /\ ns' \in Nat /\ ne' \in Int
    BY <1>1 DEF TypeOK
  <2>2. done' \in 0..Len(train')
    BY <1>1, <1>2, <1>3
  <2>3. \A t \in Sub : second_layer'[t].err_min <= 0
    <3>1. y.err_min \in Int /\ x.err_min \in Int
      BY <1>2, <1>5 DEF Model
    <3>2. y.err_min <= 0
      BY <1>2, <1>5, <3>1
    <3> QED
      BY <1>2, <1>6, <3>2
  <2>4. second_layer' \in [Sub -> [ml : [Key -> Int], max : Nat, err_min : Int, err_max : Nat]]
    BY <1>6 DEF Model
  <2> QED
    BY <2>1, <2>2, <2>3, <2>4 DEF TypeOK
<1>9. PlaceInv'
  BY <1>1 DEF PlaceInv
<1>10. Base(m)' = Base(m) /\ Routed(m)' = Routed(m) /\ \A k : LeafOf(k)' = LeafOf(k)
  BY <1>1, WalkFixed, IndexFixed
<1>11. TableInv'
  BY <1>1, <1>10 DEF TableInv
<1>12. LabelInv'
  BY <1>1 DEF LabelInv, Translates
<1>13. BracketInv'
  BY <1>1, <1>5, <1>6, <1>10 DEF BracketInv, x
<1>14. ErrInv'
  <2>1. ASSUME NEW n \in 1..(done + 1)
        PROVE  Covers(y, train[n].label, get_point_predict(y, train[n].key))
    <3>1. n \in 1..Len(train)
      BY <1>1, <1>2, <1>3
    <3>2. CASE n = done + 1
      BY <1>5, <1>7, <3>2 DEF s
    <3>3. CASE n # done + 1
      <4>1. Covers(x, train[n].label, get_point_predict(x, train[n].key))
        BY <1>1, <1>3, <3>3 DEF ErrInv, x
      <4> QED
        BY <1>2, <1>4, <1>5, <1>7, <3>1, <4>1, CoversMore
    <3> QED
      BY <3>2, <3>3
  <2> QED
    BY <1>1, <1>6, <2>1 DEF ErrInv
<1> QED
  BY <1>8, <1>9, <1>11, <1>12, <1>13, <1>14

\* A submodel whose samples are all covered predicts the pages of its keys.
LEMMA DoneTrains ==
  ASSUME TypeOK, PlaceInv, RangeInv, TableInv, BracketInv, ErrInv, pc = "err", done = Len(train)
  PROVE  Trained(m)
<1>1. /\ m \in Sub /\ LeafList(leaves) /\ end_key[m] # -1 /\ Base(m) \in Nat
      /\ second_layer[m] \in Model /\ tts[m] \in Seq(Nat) /\ Len(tts[m]) \in Nat
      /\ train \in Seq(Sample) /\ Len(train) \in Nat /\ DOMAIN train = 1..Len(train)
  <2>1. m \in Sub /\ LeafList(leaves) /\ end_key[m] # -1
    BY AtWork DEF TypeOK, TableInv
  <2>2. Base(m) \in Nat
    BY <2>1, RangeHas
  <2>3. second_layer[m] \in Model /\ tts[m] \in Seq(Nat) /\ train \in Seq(Sample)
    BY <2>1 DEF TypeOK, Model
  <2> QED
    BY <2>1, <2>2, <2>3
<1> SUFFICES ASSUME NEW k \in Routed(m)
             PROVE  /\ FirstPage(k) <= LeafOf(k) - Base(m) /\ LeafOf(k) - Base(m) <= LastPage(k)
                    /\ get_wo_incar(tts[m][LeafOf(k) - Base(m) + 1]) = LeafOf(k)
  BY DEF Trained
<1> DEFINE id == LeafOf(k) - Base(m)
           x == second_layer[m]
<1>2. select_sec_model(k) = m /\ k \in Key /\ k \in Stored
  BY <1>1, RangeHas DEF Routed
<1>3. /\ id \in 0..(Len(tts[m]) - 1)
      /\ id <= decode_logic_id(x.max)
      /\ \E a \in DOMAIN train : decode_logic_id(train[a].label) = id /\ x.ml[train[a].key] <= x.ml[k]
      /\ \E b \in DOMAIN train : decode_logic_id(train[b].label) = id /\ x.ml[k] <= x.ml[train[b].key]
  BY DEF BracketInv
<1>4. PICK a \in DOMAIN train : decode_logic_id(train[a].label) = id /\ x.ml[train[a].key] <= x.ml[k]
  BY <1>3
<1>5. PICK b \in DOMAIN train : decode_logic_id(train[b].label) = id /\ x.ml[k] <= x.ml[train[b].key]
  BY <1>3
<1>6. \A n \in DOMAIN train : train[n] \in Sample /\ Covers(x, train[n].label, get_point_predict(x, train[n].key))
  <2>1. \A n \in DOMAIN train : train[n] \in Sample
    BY <1>1
  <2> QED
    BY <1>1, <2>1 DEF ErrInv
<1>7. id \in Nat
  BY <1>1, <1>3
<1> HIDE DEF id, x
<1>8. get_predict_range(x, k)[1] \div N <= id /\ id <= get_predict_range(x, k)[2] \div N
  <2>1. x \in Model
    BY <1>1 DEF x
  <2>2. train[a] \in Sample /\ train[b] \in Sample
    BY <1>4, <1>5, <1>6
  <2> QED
    BY <1>2, <1>3, <1>4, <1>5, <1>6, <1>7, <2>1, <2>2, BetweenSamples
<1>9. FirstPage(k) = Max2(get_predict_range(x, k)[1] \div N, 0)
  BY <1>2 DEF FirstPage, x
<1>10. LastPage(k) = Min2(Len(tts[m]) - 1, get_predict_range(x, k)[2] \div N)
  BY <1>2 DEF LastPage, x
<1>11. FirstPage(k) <= id
  BY <1>7, <1>8, <1>9 DEF Max2
<1>12. id <= LastPage(k)
  <2>1. id <= Len(tts[m]) - 1
    BY <1>1, <1>3
  <2> QED
    BY <1>8, <1>10, <2>1 DEF Min2
<1>13. get_wo_incar(tts[m][id + 1]) = LeafOf(k)
  <2>1. LeafOf(k) \in Nat
    BY <1>1, <1>2, LeafOfKey, LeafSizes
  <2>2. id + 1 \in DOMAIN tts[m] /\ Base(m) + (id + 1) - 1 = LeafOf(k)
    BY <1>1, <1>3, <2>1, SMTT(30) DEF id
  <2>3. get_wo_incar(tts[m][id + 1]) = Base(m) + (id + 1) - 1
    BY <2>2 DEF TableInv
  <2> QED
    BY <2>2, <2>3
<1> QED
  BY <1>11, <1>12, <1>13 DEF id

\* After training every stored key is on a page of its prediction.
LEMMA ServedKey ==
  ASSUME TypeOK, PlaceInv, RangeInv, TrainedInv, pc = "serve", NEW k \in Stored
  PROVE  \E p \in FirstPage(k)..LastPage(k) :
           get_wo_incar(tts[select_sec_model(k)][p + 1]) = LeafOf(k)
<1> DEFINE s == select_sec_model(k)
           id == LeafOf(k) - Base(s)
<1>1. s \in Sub /\ FirstPage(k) \in Nat /\ LastPage(k) \in Int
  BY Routes, PagesType DEF TypeOK
<1>2. s < m
  BY <1>1, XCacheAssumption DEF PlaceInv, Sub
<1>3. Trained(s) /\ k \in Routed(s)
  BY <1>1, <1>2 DEF TrainedInv, Routed
<1>4. FirstPage(k) <= id /\ id <= LastPage(k) /\ get_wo_incar(tts[s][id + 1]) = LeafOf(k)
  BY <1>3 DEF Trained
<1>5. id \in Int
  <2>1. LeafOf(k) \in Nat
    BY LeafOfKey, LeafSizes DEF TypeOK
  <2>2. Base(s) \in Nat
    BY <1>1, <1>3, RangeHas
  <2> QED
    BY <2>1, <2>2
<1>6. id \in FirstPage(k)..LastPage(k)
  BY <1>1, <1>4, <1>5
<1> QED
  BY <1>4, <1>6

-----------------------------------------------------------------------------
(* The steps. *)

\* A training step keeps the invariant: nothing is known of the steps of training
\* that are over, and of the submodels before this one it keeps what they predict.
LEMMA DispatchStep ==
  ASSUME CacheInv, Dispatch
  PROVE  CacheInv'
<1>1. /\ TypeOK /\ PlaceInv /\ ClientInv /\ LeafList(leaves)
      /\ pc = "dispatch" /\ pc' = "next" /\ m = 0
      /\ setup' = setup /\ leaves' = leaves /\ router' = router
      /\ m' = m /\ page' = page /\ idx' = idx /\ logic_page_id' = logic_page_id
      /\ smin' = smin /\ smax' = smax /\ train' = train
      /\ done' = done /\ second_layer' = second_layer /\ tts' = tts
      /\ cpc' = cpc /\ ckey' = ckey /\ ns' = ns /\ ne' = ne
  BY DEF CacheInv, Dispatch, index, walk, client, TypeOK, PlaceInv
<1>2. /\ \A s \in Sub : Routed(s) \subseteq Key
      /\ \A s : Routed(s)' = Routed(s) /\ Key \subseteq Nat
  BY <1>1, LeafOfKey, IndexFixed, XCacheAssumption DEF Routed, Key
<1>3. ASSUME NEW s \in Sub
      PROVE  IF Routed(s) = {} THEN start_key'[s] = MaxKey + 1 /\ end_key'[s] = -1
             ELSE /\ start_key'[s] \in Routed(s) /\ end_key'[s] \in Routed(s)
                  /\ \A k \in Routed(s) : start_key'[s] <= k /\ k <= end_key'[s]
  <2>1. /\ start_key'[s] = IF Routed(s) = {} THEN MaxKey + 1
                           ELSE CHOOSE k \in Routed(s) : \A j \in Routed(s) : k <= j
        /\ end_key'[s] = IF Routed(s) = {} THEN -1
                         ELSE CHOOSE k \in Routed(s) : \A j \in Routed(s) : k >= j
    BY DEF Dispatch
  <2>2. CASE Routed(s) = {}
    BY <2>1, <2>2
  <2>3. CASE Routed(s) # {}
    <3>1. \E k \in Routed(s) : \A j \in Routed(s) : k <= j
      <4>1. Routed(s) \in SUBSET Nat
        BY <1>2
      <4> QED
        BY <2>3, <4>1, NatMin
    <3>2. \E k \in Routed(s) : \A j \in Routed(s) : j <= k
      <4>1. Routed(s) \in SUBSET (0..MaxKey) /\ MaxKey \in Nat
        BY <1>2, XCacheAssumption DEF Key
      <4> QED
        BY <2>3, <4>1, NatMax
    <3>3. \E k \in Routed(s) : \A j \in Routed(s) : k >= j
      <4>1. PICK k \in Routed(s) : \A j \in Routed(s) : j <= k
        BY <3>2
      <4>2. \A j \in Routed(s) : k \in Nat /\ j \in Nat
        BY <1>2
      <4>3. \A j \in Routed(s) : k >= j
        BY <4>1, <4>2
      <4> QED
        BY <4>3
    <3>4. start_key'[s] \in Routed(s) /\ \A j \in Routed(s) : start_key'[s] <= j
      BY <2>1, <2>3, <3>1
    <3>5. end_key'[s] \in Routed(s) /\ \A j \in Routed(s) : end_key'[s] >= j
      BY <2>1, <2>3, <3>3
    <3>6. \A j \in Routed(s) : j \in Nat
      BY <1>2
    <3> QED
      BY <2>3, <3>4, <3>5, <3>6
  <2> QED
    BY <2>2, <2>3
<1>4. RangeInv'
  BY <1>2, <1>3 DEF RangeInv
<1>5. TypeOK'
  <2>1. start_key' = [s \in Sub |-> start_key'[s]] /\ end_key' = [s \in Sub |-> end_key'[s]]
    BY DEF Dispatch
  <2>2. \A s \in Sub : start_key'[s] \in Key \cup {MaxKey + 1} /\ end_key'[s] \in Key \cup {-1}
    BY <1>2, <1>3
  <2>3. start_key' \in [Sub -> Key \cup {MaxKey + 1}] /\ end_key' \in [Sub -> Key \cup {-1}]
    BY <2>1, <2>2
  <2> QED
    BY <1>1, <2>3 DEF TypeOK
<1>6. PlaceInv'
  BY <1>1, XCacheAssumption DEF PlaceInv
<1>7. TableInv' /\ WalkInv' /\ AllInv' /\ PageInv' /\ LabelInv' /\ BracketInv' /\ ErrInv'
  BY <1>1 DEF TableInv, WalkInv, AllInv, PageInv, LabelInv, BracketInv, ErrInv
<1>8. TrainedInv'
  <2>1. \A s \in Sub : ~(s < 0)
    BY XCacheAssumption DEF Sub
  <2> QED
    BY <1>1, <2>1 DEF TrainedInv
<1>9. ClientInv'
  BY <1>1 DEF ClientInv
<1> QED
  BY <1>4, <1>5, <1>6, <1>7, <1>8, <1>9 DEF CacheInv

\* The steps that train one submodel leave the others and the clients alone.
LEMMA OthersStay ==
  ASSUME CacheInv, pc # "serve", pc # "dispatch", pc' \notin {"dispatch"},
         leaves' = leaves, router' = router, start_key' = start_key, end_key' = end_key,
         \A s \in Sub : s < m => second_layer'[s] = second_layer[s] /\ tts'[s] = tts[s],
         cpc' = cpc, ckey' = ckey, ns' = ns, ne' = ne
  PROVE  /\ RangeInv'
         /\ \A s \in Sub : s < m => Trained(s)'
         /\ ClientInv'
<1>1. RangeInv /\ TrainedInv /\ ClientInv
  BY DEF CacheInv
<1>2. RangeInv'
  <2>1. \A s : Routed(s)' = Routed(s)
    BY IndexFixed
  <2> QED
    BY <1>1, <2>1 DEF RangeInv
<1>3. \A s \in Sub : s < m => Trained(s)'
  BY <1>1, TrainedFixed DEF TrainedInv
<1>4. ClientInv'
  BY <1>1 DEF ClientInv
<1> QED
  BY <1>2, <1>3, <1>4

\* The steps inside the training of one submodel.
LEMMA InsideStep ==
  ASSUME CacheInv, Seek \/ ScanKey \/ TrainMl \/ CalError
  PROVE  CacheInv'
<1>1. /\ TypeOK /\ PlaceInv /\ RangeInv /\ TableInv /\ WalkInv /\ AllInv /\ PageInv
      /\ LabelInv /\ BracketInv /\ ErrInv
  BY DEF CacheInv
<1>2. \A s \in Sub : s < m => s # m
  BY <1>1, XCacheAssumption DEF Sub, TypeOK
<1>3. CASE Seek
  <2>1. TypeOK' /\ PlaceInv' /\ TableInv' /\ WalkInv' /\ AllInv' /\ PageInv'
    BY <1>1, <1>3, SeekSteps
  <2>2. /\ pc = "next" /\ pc' = "scan" /\ m' = m /\ Enter(LeafOf(start_key[m]), 0)
        /\ end_key[m] # -1
        /\ leaves' = leaves /\ router' = router /\ start_key' = start_key /\ end_key' = end_key
        /\ second_layer' = second_layer /\ cpc' = cpc /\ ckey' = ckey /\ ns' = ns /\ ne' = ne
    BY <1>3 DEF Seek, index, client
  <2>3. \A s \in Sub : s # m => tts'[s] = tts[s]
    <3>1. m \in Sub /\ LeafOf(start_key[m]) \in DOMAIN leaves
      BY <1>1, <2>2, AtWork, RangeHas DEF Base
    <3> QED
      BY <1>1, <2>2, <3>1, Enters
  <2>4. RangeInv' /\ (\A s \in Sub : s < m => Trained(s)') /\ ClientInv'
    BY <1>2, <2>2, <2>3, OthersStay
  <2>5. LabelInv' /\ BracketInv' /\ ErrInv' /\ TrainedInv'
    BY <2>2, <2>4 DEF LabelInv, BracketInv, ErrInv, TrainedInv
  <2> QED
    BY <2>1, <2>4, <2>5 DEF CacheInv
<1>4. CASE ScanKey
  <2>1. TypeOK' /\ PlaceInv' /\ TableInv' /\ WalkInv' /\ AllInv' /\ PageInv'
    BY <1>1, <1>4, ScanSteps
  <2>2. /\ pc = "scan" /\ pc' = "scan" /\ m' = m /\ page # 0 /\ IterNext
        /\ leaves' = leaves /\ router' = router /\ start_key' = start_key /\ end_key' = end_key
        /\ second_layer' = second_layer /\ cpc' = cpc /\ ckey' = ckey /\ ns' = ns /\ ne' = ne
    BY <1>4 DEF ScanKey, index, client
  <2>3. \A s \in Sub : s # m => tts'[s] = tts[s]
    BY <1>1, <2>2, WalkMoves
  <2>4. RangeInv' /\ (\A s \in Sub : s < m => Trained(s)') /\ ClientInv'
    BY <1>2, <2>2, <2>3, OthersStay
  <2>5. LabelInv' /\ BracketInv' /\ ErrInv' /\ TrainedInv'
    BY <2>2, <2>4 DEF LabelInv, BracketInv, ErrInv, TrainedInv
  <2> QED
    BY <2>1, <2>4, <2>5 DEF CacheInv
<1>5. CASE TrainMl
  <2>1. TypeOK' /\ PlaceInv' /\ TableInv' /\ LabelInv' /\ BracketInv' /\ ErrInv'
    BY <1>1, <1>5, TrainSteps
  <2>2. /\ pc = "scan" /\ pc' = "err" /\ m' = m /\ tts' = tts
        /\ leaves' = leaves /\ router' = router /\ start_key' = start_key /\ end_key' = end_key
        /\ cpc' = cpc /\ ckey' = ckey /\ ns' = ns /\ ne' = ne
        /\ \E x : second_layer' = [second_layer EXCEPT ![m] = x]
    BY <1>5 DEF TrainMl, index, client
  <2>3. \A s \in Sub : s # m => second_layer'[s] = second_layer[s]
    BY <1>1, <2>2 DEF TypeOK
  <2>4. RangeInv' /\ (\A s \in Sub : s < m => Trained(s)') /\ ClientInv'
    BY <1>2, <2>2, <2>3, OthersStay
  <2>5. WalkInv' /\ AllInv' /\ PageInv' /\ TrainedInv'
    BY <2>2, <2>4 DEF WalkInv, AllInv, PageInv, TrainedInv
  <2> QED
    BY <2>1, <2>4, <2>5 DEF CacheInv
<1>6. CASE CalError
  <2>1. TypeOK' /\ PlaceInv' /\ TableInv' /\ LabelInv' /\ BracketInv' /\ ErrInv'
    BY <1>1, <1>6, CalErrorSteps
  <2>2. /\ pc = "err" /\ pc' = "err" /\ m' = m /\ tts' = tts
        /\ leaves' = leaves /\ router' = router /\ start_key' = start_key /\ end_key' = end_key
        /\ cpc' = cpc /\ ckey' = ckey /\ ns' = ns /\ ne' = ne
        /\ \E x : second_layer' = [second_layer EXCEPT ![m] = x]
    BY <1>6 DEF CalError, index, client
  <2>3. \A s \in Sub : s # m => second_layer'[s] = second_layer[s]
    BY <1>1, <2>2 DEF TypeOK
  <2>4. RangeInv' /\ (\A s \in Sub : s < m => Trained(s)') /\ ClientInv'
    BY <1>2, <2>2, <2>3, OthersStay
  <2>5. WalkInv' /\ AllInv' /\ PageInv' /\ TrainedInv'
    BY <2>2, <2>4 DEF WalkInv, AllInv, PageInv, TrainedInv
  <2> QED
    BY <2>1, <2>4, <2>5 DEF CacheInv
<1> QED
  BY <1>3, <1>4, <1>5, <1>6

\* The steps to the next submodel: a trainer without keys has nothing to predict.
LEMMA DoneStep ==
  ASSUME CacheInv, TrainNull \/ TrainDone
  PROVE  CacheInv'
<1>1. /\ TypeOK /\ PlaceInv /\ RangeInv /\ TableInv /\ BracketInv /\ ErrInv
  BY DEF CacheInv
<1>2. /\ pc \in {"next", "err"} /\ m' = m + 1 /\ pc' = (IF m + 1 = NumSub THEN "serve" ELSE "next")
      /\ setup' = setup /\ leaves' = leaves /\ router' = router
      /\ start_key' = start_key /\ end_key' = end_key
      /\ page' = page /\ idx' = idx /\ logic_page_id' = logic_page_id
      /\ smin' = smin /\ smax' = smax /\ train' = train /\ done' = done
      /\ second_layer' = second_layer /\ tts' = tts
      /\ cpc' = cpc /\ ckey' = ckey /\ ns' = ns /\ ne' = ne
  BY DEF TrainNull, TrainDone, Done, index, client
<1>3. m \in Sub /\ m + 1 \in 0..NumSub
  BY <1>1, <1>2, AtWork
<1>4. Trained(m)
  <2>1. CASE TrainNull
    <3>1. Routed(m) = {}
      BY <1>1, <1>3, <2>1, RangeHas DEF TrainNull
    <3> QED
      BY <3>1 DEF Trained
  <2>2. CASE TrainDone
    BY <1>1, <2>2, DoneTrains DEF TrainDone
  <2> QED
    BY <2>1, <2>2
<1>5. \A s \in Sub : s = m => Trained(s)'
  BY <1>2, <1>4, TrainedFixed
<1>6. RangeInv' /\ (\A s \in Sub : s < m => Trained(s)') /\ ClientInv'
  BY <1>2, OthersStay
<1>7. TrainedInv'
  <2>1. \A s \in Sub : s < m + 1 => s < m \/ s = m
    BY <1>3, XCacheAssumption DEF Sub
  <2> QED
    BY <1>2, <1>5, <1>6, <2>1 DEF TrainedInv
<1>8. TypeOK'
  BY <1>1, <1>2, <1>3 DEF TypeOK
<1>9. PlaceInv'
  <2>1. \A s \in Sub : s > m + 1 \/ s = m + 1 => s > m
    BY <1>3, XCacheAssumption DEF Sub
  <2> QED
    BY <1>1, <1>2, <1>3, <2>1 DEF PlaceInv
<1>10. TableInv' /\ WalkInv' /\ AllInv' /\ PageInv' /\ LabelInv' /\ BracketInv' /\ ErrInv'
  BY <1>2 DEF TableInv, WalkInv, AllInv, PageInv, LabelInv, BracketInv, ErrInv
<1> QED
  BY <1>6, <1>7, <1>8, <1>9, <1>10 DEF CacheInv

\* What training leaves is fixed for the clients.
LEMMA ClientStep ==
  ASSUME CacheInv, (\E k \in Key : Lookup(k)) \/ LookupByRpc \/ LookupByRead
  PROVE  CacheInv'
<1>1. /\ TypeOK /\ PlaceInv /\ RangeInv /\ TrainedInv /\ ClientInv
  BY DEF CacheInv
<1>2. /\ pc = "serve" /\ pc' = pc /\ m' = m
      /\ setup' = setup /\ leaves' = leaves /\ router' = router
      /\ start_key' = start_key /\ end_key' = end_key
      /\ page' = page /\ idx' = idx /\ logic_page_id' = logic_page_id
      /\ smin' = smin /\ smax' = smax /\ train' = train /\ done' = done
      /\ second_layer' = second_layer /\ tts' = tts
  BY <1>1 DEF Lookup, LookupByRpc, LookupByRead, index, walk, ClientInv
<1>3. \A k \in Stored : FirstPage(k)' = FirstPage(k) /\ LastPage(k)' = LastPage(k)
  <2> TAKE k \in Stored
  <2>1. select_sec_model(k)' = select_sec_model(k)
    BY <1>2, IndexFixed
  <2> QED
    BY <1>2, <2>1 DEF FirstPage, LastPage
<1>4. /\ Stored' = Stored /\ Stored \subseteq Key
  BY <1>1, <1>2, IndexFixed, LeafOfKey DEF TypeOK
<1>5. ClientInv' /\ ckey' \in Key /\ ns' \in Nat /\ ne' \in Int /\ cpc' \in {"idle", "predicted", "ok", "assert"}
  <2>1. ASSUME NEW k \in Key, Lookup(k)
        PROVE  /\ ClientInv' /\ ckey' \in Key /\ ns' \in Nat /\ ne' \in Int
               /\ cpc' \in {"idle", "predicted", "ok", "assert"}
    <3>1. k \in Stored /\ ckey' = k /\ ns' = FirstPage(k) /\ ne' = LastPage(k) /\ cpc' = "predicted"
      BY <2>1 DEF Lookup
    <3>2. FirstPage(k) \in Nat /\ LastPage(k) \in Int
      BY <1>1, <3>1, PagesType
    <3>3. FirstPage(ckey)' = FirstPage(k) /\ LastPage(ckey)' = LastPage(k)
      <4>1. select_sec_model(ckey)' = select_sec_model(k)
        BY <1>2, <3>1 DEF select_sec_model, first_layer_predict, Stored, KeysOf
      <4> QED
        BY <1>2, <3>1, <4>1 DEF FirstPage, LastPage
    <3> QED
      BY <1>2, <1>4, <3>1, <3>2, <3>3 DEF ClientInv
  <2>2. ASSUME LookupByRpc \/ LookupByRead
        PROVE  /\ ClientInv' /\ ckey' \in Key /\ ns' \in Nat /\ ne' \in Int
               /\ cpc' \in {"idle", "predicted", "ok", "assert"}
    <3>1. /\ cpc = "predicted" /\ cpc' \in {"ok", "assert"}
          /\ ckey' = ckey /\ ns' = ns /\ ne' = ne
      BY <2>2 DEF LookupByRpc, LookupByRead
    <3> QED
      BY <1>1, <1>2, <1>4, <3>1 DEF ClientInv, TypeOK
  <2> QED
    BY <2>1, <2>2
<1>6. TypeOK'
  BY <1>1, <1>2, <1>5 DEF TypeOK
<1>7. PlaceInv'
  BY <1>1, <1>2 DEF PlaceInv
<1>8. RangeInv'
  <2>1. \A s : Routed(s)' = Routed(s)
    BY <1>2, IndexFixed
  <2> QED
    BY <1>1, <1>2, <2>1 DEF RangeInv
<1>9. TrainedInv'
  BY <1>1, <1>2, TrainedFixed DEF TrainedInv
<1>10. TableInv' /\ WalkInv' /\ AllInv' /\ PageInv' /\ LabelInv' /\ BracketInv' /\ ErrInv'
  BY <1>2 DEF TableInv, WalkInv, AllInv, PageInv, LabelInv, BracketInv, ErrInv
<1> QED
  BY <1>5, <1>6, <1>7, <1>8, <1>9, <1>10 DEF CacheInv

-----------------------------------------------------------------------------
(* The theorems. *)

\* The invariant holds of the cache in every state, for any of its programs.
THEOREM CacheHolds == Spec => []CacheInv
<1>1. Init => CacheInv
  <2> SUFFICES ASSUME Init PROVE CacheInv
    OBVIOUS
  <2>1. /\ setup \in Programs /\ LeafList(leaves) /\ router \in [Key -> Int] /\ pc = "dispatch"
        /\ start_key = [s \in Sub |-> MaxKey + 1] /\ end_key = [s \in Sub |-> -1]
        /\ m = 0 /\ page = 0 /\ idx = 0 /\ logic_page_id = 0 /\ smin = None /\ smax = None
        /\ train = <<>> /\ done = 0
        /\ second_layer = [s \in Sub |-> NullModel] /\ tts = [s \in Sub |-> <<>>]
        /\ cpc = "idle" /\ ckey = 0 /\ ns = 0 /\ ne = 0
    BY XCacheAssumption DEF Init
  <2>2. /\ N \in Nat /\ MaxKey \in Nat /\ NumSub \in Nat \ {0} /\ Len(leaves) \in Nat /\ 0 \in Key
    BY <2>1, LeafSizes, XCacheAssumption DEF Key
  <2>3. NullModel \in Model /\ NullModel.err_min <= 0
    BY DEF NullModel, Model
  <2>4. second_layer \in [Sub -> Model] /\ \A s \in Sub : second_layer[s].err_min <= 0
    BY <2>1, <2>3
  <2>5. tts \in [Sub -> Seq(Nat)] /\ train \in Seq(Sample) /\ done \in 0..Len(train)
    BY <2>1
  <2>6. start_key \in [Sub -> Key \cup {MaxKey + 1}] /\ end_key \in [Sub -> Key \cup {-1}]
    BY <2>1
  <2>7. /\ m \in 0..NumSub /\ page \in 0..Len(leaves) /\ idx \in 0..N /\ 0 # NumSub
        /\ logic_page_id \in Nat
    BY <2>1, <2>2
  <2>8. TypeOK
    BY <2>1, <2>2, <2>4, <2>5, <2>6, <2>7 DEF TypeOK, Model
  <2>9. PlaceInv
    BY <2>1, <2>7 DEF PlaceInv
  <2>10. /\ RangeInv /\ TableInv /\ WalkInv /\ AllInv /\ PageInv /\ LabelInv /\ BracketInv /\ ErrInv
         /\ TrainedInv /\ ClientInv
    BY <2>1 DEF RangeInv, TableInv, WalkInv, AllInv, PageInv, LabelInv, BracketInv, ErrInv,
                TrainedInv, ClientInv
  <2> QED
    BY <2>8, <2>9, <2>10 DEF CacheInv
<1>2. CacheInv /\ [Next]_vars => CacheInv'
  <2> SUFFICES ASSUME CacheInv, [Next]_vars PROVE CacheInv'
    OBVIOUS
  <2>1. CASE Dispatch
    BY <2>1, DispatchStep
  <2>2. CASE Seek \/ ScanKey \/ TrainMl \/ CalError
    BY <2>2, InsideStep
  <2>3. CASE TrainNull \/ TrainDone
    BY <2>3, DoneStep
  <2>4. CASE (\E k \in Key : Lookup(k)) \/ LookupByRpc \/ LookupByRead
    BY <2>4, ClientStep
  <2>5. CASE UNCHANGED vars
    <3>1. /\ setup' = setup /\ leaves' = leaves /\ router' = router /\ pc' = pc
          /\ start_key' = start_key /\ end_key' = end_key
          /\ m' = m /\ page' = page /\ idx' = idx /\ logic_page_id' = logic_page_id
          /\ smin' = smin /\ smax' = smax
          /\ train' = train /\ done' = done /\ second_layer' = second_layer /\ tts' = tts
          /\ cpc' = cpc /\ ckey' = ckey /\ ns' = ns /\ ne' = ne
      BY <2>5 DEF vars, index, walk, client
    <3>2. /\ TypeOK /\ PlaceInv /\ RangeInv /\ TableInv /\ WalkInv /\ AllInv /\ PageInv
          /\ LabelInv /\ BracketInv /\ ErrInv /\ TrainedInv /\ ClientInv
      BY DEF CacheInv
    <3>3. /\ Stored' = Stored
          /\ \A k : LeafOf(k)' = LeafOf(k) /\ select_sec_model(k)' = select_sec_model(k)
          /\ \A s : Routed(s)' = Routed(s) /\ Size(s)' = Size(s) /\ Base(s)' = Base(s)
          /\ \A p, i : At(p, i)' = At(p, i)
      BY <3>1, IndexFixed, WalkFixed
    <3>4. Base(m)' = Base(m) /\ Routed(m)' = Routed(m)
      BY <3>1, <3>3
    <3>5. TypeOK' /\ PlaceInv' /\ RangeInv' /\ TableInv'
      BY <3>1, <3>2, <3>3, <3>4 DEF TypeOK, PlaceInv, RangeInv, TableInv
    <3>6. WalkInv' /\ AllInv'
      <4>1. \A p, i : Passed(p, i)' <=> Passed(p, i)
        BY <3>1, <3>3, <3>4 DEF Passed
      <4> QED
        BY <3>1, <3>2, <3>3, <3>4, <4>1 DEF WalkInv, AllInv
    <3>7. PageInv'
      <4>1. /\ Started' = Started /\ LastLeaf' = LastLeaf /\ LastSlot' = LastSlot
            /\ At(LastLeaf, 1)' = At(LastLeaf, 1) /\ At(LastLeaf, LastSlot)' = At(LastLeaf, LastSlot)
            /\ \A p : At(p, Size(p))' = At(p, Size(p))
        BY <3>1, <3>4 DEF Started, LastLeaf, LastSlot, Size, At
      <4> QED
        BY <3>1, <3>2, <3>3, <3>4, <4>1 DEF PageInv
    <3>8. LabelInv' /\ BracketInv' /\ ErrInv'
      BY <3>1, <3>2, <3>3, <3>4 DEF LabelInv, Translates, BracketInv, ErrInv
    <3>9. TrainedInv'
      BY <3>1, <3>2, TrainedFixed DEF TrainedInv
    <3>10. ClientInv'
      <4>1. select_sec_model(ckey)' = select_sec_model(ckey)
        BY <3>1 DEF select_sec_model, first_layer_predict, Stored, KeysOf
      <4>2. FirstPage(ckey)' = FirstPage(ckey) /\ LastPage(ckey)' = LastPage(ckey)
        BY <3>1, <4>1 DEF FirstPage, LastPage
      <4> QED
        BY <3>1, <3>2, <3>3, <4>2 DEF ClientInv
    <3> QED
      BY <3>5, <3>6, <3>7, <3>8, <3>9, <3>10 DEF CacheInv
  <2> QED
    BY <2>1, <2>2, <2>3, <2>4, <2>5 DEF Next, Train
<1> QED
  BY <1>1, <1>2, PTL DEF Spec

\* The types of the trainer's, the cache's and the client's state.
THEOREM CacheTypes == Spec => []TypeOK
<1>1. CacheInv => TypeOK
  BY DEF CacheInv
<1> QED
  BY <1>1, CacheHolds, PTL

\* Iterator, sampler and translation table count the same pages: a sampled label
\* is translated to the place of its key, wherever the walk starts and ends.
THEOREM SampledLabelsTranslate == Spec => []LabelsTranslate
<1>1. CacheInv => LabelsTranslate
  <2> SUFFICES ASSUME CacheInv, pc \in {"scan", "err"}, NEW n \in DOMAIN train
               PROVE  Translates(train[n])
    BY DEF LabelsTranslate, Translates
  <2>1. /\ TypeOK /\ PlaceInv /\ RangeInv /\ TableInv /\ WalkInv /\ LabelInv
    BY DEF CacheInv
  <2>2. CASE pc = "err"
    BY <2>1, <2>2 DEF LabelInv
  <2>3. CASE pc = "scan"
    <3>1. PICK p \in DOMAIN leaves : \E i \in 1..Size(p) : Passed(p, i) /\ train[n] = At(p, i)
      BY <2>1, <2>3 DEF WalkInv
    <3>2. PICK i \in 1..Size(p) : Passed(p, i) /\ train[n] = At(p, i)
      BY <3>1
    <3> QED
      BY <2>1, <2>3, <3>2, PassedTranslates
  <2> QED
    BY <2>2, <2>3
<1> QED
  BY <1>1, CacheHolds, PTL

\* The pages a client reads for a stored key hold its leaf: for every leaf list,
\* every router, every monotone model of a sample and every model of all keys.
THEOREM PredictionsHoldKeys == Spec => []KeyInRange
<1>1. CacheInv => KeyInRange
  <2> SUFFICES ASSUME CacheInv, pc = "serve", NEW k \in Stored
               PROVE  \E p \in FirstPage(k)..LastPage(k) :
                        get_wo_incar(tts[select_sec_model(k)][p + 1]) = LeafOf(k)
    BY DEF KeyInRange
  <2> QED
    BY ServedKey DEF CacheInv
<1> QED
  BY <1>1, CacheHolds, PTL

\* A client that trims the incarnations of its addresses, as all but those for
\* values of variable length do, finds every stored key.
THEOREM LookupsSucceed ==
  ASSUME \A s \in Setups : ~s.vlen
  PROVE  Spec => []LookupSucceeds
<1> DEFINE Found == ~setup.vlen /\ cpc # "assert"
<1>1. Init => Found
  BY DEF Init
<1>2. CacheInv /\ Found /\ [Next]_vars => Found'
  <2> SUFFICES ASSUME CacheInv, Found, [Next]_vars PROVE Found'
    OBVIOUS
  <2>1. CASE UNCHANGED vars
    BY <2>1 DEF vars, index, client
  <2>2. CASE Train
    BY <2>2 DEF Train, Dispatch, TrainNull, Seek, ScanKey, TrainMl, CalError, TrainDone, index, client
  <2>3. CASE (\E k \in Key : Lookup(k)) \/ LookupByRpc
    BY <2>3 DEF Lookup, LookupByRpc, index
  <2>4. CASE LookupByRead
    <3>1. /\ setup' = setup /\ cpc = "predicted"
          /\ cpc' = IF \E p \in ns..ne : AddrOf(p) \in DOMAIN leaves /\ ckey \in KeysOf(AddrOf(p))
                    THEN "ok" ELSE "assert"
      BY <2>4 DEF LookupByRead, index
    <3>2. pc = "serve" /\ ckey \in Stored /\ ns = FirstPage(ckey) /\ ne = LastPage(ckey)
      BY <3>1 DEF CacheInv, ClientInv
    <3>3. PICK p \in ns..ne : get_wo_incar(tts[select_sec_model(ckey)][p + 1]) = LeafOf(ckey)
      BY <3>2, ServedKey DEF CacheInv
    <3>4. AddrOf(p) = LeafOf(ckey)
      BY <3>3 DEF AddrOf
    <3>5. LeafOf(ckey) \in DOMAIN leaves /\ ckey \in KeysOf(LeafOf(ckey))
      BY <3>2, LeafOfKey DEF CacheInv, TypeOK
    <3> QED
      BY <3>1, <3>4, <3>5
  <2> QED
    BY <2>1, <2>2, <2>3, <2>4 DEF Next
<1>3. Found => LookupSucceeds
  BY DEF LookupSucceeds
<1> QED
  BY <1>1, <1>2, <1>3, CacheHolds, PTL DEF Spec

=============================================================================
