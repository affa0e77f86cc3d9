--------------------------- MODULE MCAWSDataGather ---------------------------
(* An instance of AWSDataGather for TLC.                                       *)
EXTENDS AWSDataGather

\* One block, and two with a line feed after each.
OneOrTwoBlocks == {<<"b1">>, <<"b1", "\n", "b2", "\n">>}

HyphenatedName == <<"aws", "-", "data", "-", "gather">>

Pod == <<"aws", "-", "data", "-", "gather", "-", "hash", "-", "uid">>
=============================================================================
