----------------------------- MODULE MCAddrMan -----------------------------
(***************************************************************************)
(* An instance of AddrMan: four hosts, one of them on two ports, told by   *)
(* two sources that lead to different new buckets.  A new bucket holds one *)
(* entry and the only tried bucket two, so that new entries are shrunk     *)
(* away and tried ones evicted, into their own bucket or another.  The     *)
(* hosts with one port are interchangeable.                                *)
(***************************************************************************)
EXTENDS AddrMan

CONSTANTS h1, h2, h3, h4

MCServices == {<<h1, 1>>, <<h1, 2>>, <<h2, 1>>, <<h3, 1>>, <<h4, 1>>}
MCSources  == {1, 2}

MCGetNewBucket   == [p \in {h1, h2, h3, h4} \X MCSources |-> p[2]]
MCGetTriedBucket == [s \in MCServices |-> 1]

Interchangeable == Permutations({h2, h3, h4})

=============================================================================
