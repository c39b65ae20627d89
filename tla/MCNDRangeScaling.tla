--------------------------- MODULE MCNDRangeScaling ---------------------------
(****************************************************************************)
(* Small launches for NDRangeScaling: every factor and stride up to a bound *)
(* on groups of a few threads, and a kernel that reads each id and size in  *)
(* the direction of the pass or in another, the global id twice, and makes  *)
(* a call in a direction that is not known.                                 *)
(****************************************************************************)
EXTENDS NDRangeScaling

CONSTANTS MaxGroups, MaxLocal, MaxFactor, MaxStride

MCLaunches ==
    {x \in [pass : {"tc", "tv"}, direction : {0, 1}, groups : 1..MaxGroups, local : 1..MaxLocal,
            factor : 1..MaxFactor, stride : 1..MaxStride] :
        /\ x.local % x.factor = 0 /\ x.groups * x.local < Word
        /\ x.pass = "tv" => x.stride = 1}

Call(f, d) == [name |-> f, dim |-> d, inKernel |-> TRUE]

MCCalls ==
    <<Call("get_global_id", 0), Call("get_local_id", 0), Call("get_global_size", 0),
      Call("get_local_size", 1), Call("get_global_id", 1), Call("get_group_id", 1),
      Call("get_num_groups", 0), Call("get_global_id", 0), Call("get_local_size", NotConstant),
      [name |-> "get_local_id", dim |-> 1, inKernel |-> FALSE]>>
=============================================================================
