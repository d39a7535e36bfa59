------------------------------ MODULE MCService ------------------------------
(* Instances of Service for TLC: a client process of two threads and one of    *)
(* one thread; the two threads with number 0 share a server thread.            *)
EXTENDS Service

CONSTANTS c0, c1, d0, w0, w1, p, q

MCServerOf == (c0 :> w0) @@ (c1 :> w1) @@ (d0 :> w0)
MCSessionId == (c0 :> 1024) @@ (c1 :> 1025) @@ (d0 :> 2048)
MCProcOf == (c0 :> p) @@ (c1 :> p) @@ (d0 :> q)
MCRecvDepth == [e \in {c0, c1, d0, w0, w1} |-> IF e = w0 THEN 5 ELSE 2]

MCNumberFile == <<6, Junk, 4, 9>>
\* Orders 4 and 5 do not fit half a word and share the keys of 1 and 3; order 6 fails
\* the assertion.
MCOrderFile == <<<<0, 0, 2, 1>>, <<0, 1, 1, 7>>, <<0, 0, 3, 5>>,
                 <<1, 0, 2, 1>>, <<1, 0, 3, 5>>, <<2, 0, 0, 0>>>>
MCRatingFile == <<<<1, 3>>, <<2, 3>>>>
MCMapFile == <<<<10, 20>>, <<11, 20>>>>

\* Keys, values, sizes and offsets.
MCWord == 0..(2 ^ 18)

Flags(prog, data, nkeys, cnkeys, nsub, ncheck, workers, threads) ==
  [prog |-> prog, data |-> data, nkeys |-> nkeys, cnkeys |-> cnkeys, nsub |-> nsub,
   ncheck |-> ncheck, workers |-> workers, threads |-> threads]

\* The client of data_dist has no key list for "ar" and "map".
Fitting == {
  Flags("ycsb", "linear", 3, 1, 2, 1, {w0, w1}, {c0, c1}),
  Flags("ycsb", "file", 3, 2, 2, 1, {w0}, {c0}),
  Flags("ycsb", "linear", 3, 1, 1, 1, {w0}, {c0}),
  Flags("data_dist", "tpcc", 3, 1, 1, 1, {w0}, {c0, d0}),
  Flags("data_dist", "log", 3, 3, 3, 1, {w0}, {c0}),
  Flags("data_dist", "tpcc", 5, 5, 1, 1, {w0}, {}),
  Flags("data_dist", "tpcc", 6, 6, 1, 1, {w0}, {}),
  Flags("data_dist", "ar", 2, 2, 5, 1, {w0}, {}),
  Flags("data_dist", "map", 1, 1, 1, 1, {w0}, {}),
  Flags("data_dist", "log", 1, 2, 1, 1, {w0}, {c0}),
  Flags("ycsb", "linear", 3, 1, 2, 1, {w0}, {c0, c1}),
  Flags("data_dist", "tpcc", 3, 1, 1, 2, {w0}, {c0})}
=============================================================================
