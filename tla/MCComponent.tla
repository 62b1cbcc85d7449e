---------------------------- MODULE MCComponent ----------------------------
(***************************************************************************)
(* Instance of Component for TLC.  The calls that choose the source and    *)
(* the sizes, those that set the threads' attributes, and those that set   *)
(* the options are each given their variety in behaviours of their own.    *)
(***************************************************************************)
EXTENDS Component, TLC

CONSTANTS a1, a2, a3, s1, s2, s3, reader, processor

MCPriorities == {-1, 0, 5}

Both(x, y) == (reader :> x) @@ (processor :> y)

SourceOffers ==
    [addresses |-> {a1, a2}, ids |-> {s1, s2}, orders |-> Endianness, pools |-> {1, 2},
     sizes |-> {1, 2}, masks |-> {Both(NoMask, NoMask)}, priorities |-> {Both(-1, -1)},
     permitted |-> TRUE, ttv |-> {FALSE}, pushes |-> {1}, tasksets |-> {}]

ThreadOffers(permitted) ==
    [addresses |-> {a3}, ids |-> {s3}, orders |-> {"4321"}, pools |-> {1}, sizes |-> {1},
     masks |-> {Both(NoMask, NoMask), Both({0}, {1}), Both({0, 1}, Malformed),
               Both({2}, NoMask)},
     priorities |-> {Both(-1, -1), Both(5, 0), Both(0, 5)},
     permitted |-> permitted, ttv |-> {FALSE}, pushes |-> {1},
     tasksets |-> {<<reader, {1}>>, <<reader, {3}>>, <<processor, {1, 3}>>}]

OptionOffers ==
    [addresses |-> {a3}, ids |-> {s3}, orders |-> {"4321"}, pools |-> {1}, sizes |-> {1},
     masks |-> {Both(NoMask, NoMask)}, priorities |-> {Both(-1, -1)},
     permitted |-> TRUE, ttv |-> BOOLEAN, pushes |-> {1, 3}, tasksets |-> {}]

MCOffers == {SourceOffers, ThreadOffers(TRUE), ThreadOffers(FALSE), OptionOffers}

\* Sources and stream IDs are only compared.
Symmetry == Permutations({a1, a2}) \cup Permutations({s1, s2})
=============================================================================
