------------------------------ MODULE MC_GetEvents -----------------------------
(* Instances of a stored query for TLC. *)
EXTENDS GetEvents

MCKeysOf == [t \in {<<0, 1>>, <<1, 2>>, <<2, 3>>, <<2, 4>>, <<3, 5>>} |->
    CASE t = <<0, 1>> -> {"a", "k"}
      [] t = <<1, 2>> -> {"b", "k"}
      [] t = <<2, 3>> -> {"b", "k"}
      [] t = <<2, 4>> -> {"a", "b", "l"}
      [] t = <<3, 5>> -> {"a"}]

MCTimes == DOMAIN MCKeysOf

MCWritten == {<<2, 3>>, <<3, 5>>}

F(from, to, max, groups) ==
    [since |-> from, until |-> to, limit |-> max, search |-> FALSE, conditions |-> groups]

MCFilters == {
    F(0, 9, 9, <<{"a", "b"}, {"k"}>>),
    F(1, 2, 2, <<{"b"}, {"k", "l"}>>),
    F(0, 9, 9, <<{"a"}, {"b"}>>),
    F(0, 9, 3, <<>>),
    F(0, 9, 9, <<{"a"}, {}>>),
    [F(0, 9, 9, <<{"a"}>>) EXCEPT !.search = TRUE]}
================================================================================
