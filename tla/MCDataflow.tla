----------------------------- MODULE MCDataflow -----------------------------
(***************************************************************************)
(* Files of up to three lines, CSV and JSON, blank and malformed lines     *)
(* included; every operator, alone and in the chains the benchmarks use.   *)
(***************************************************************************)
EXTENDS Dataflow

MCNumeralOf == ("1" :> 1) @@ ("01" :> 1) @@ ("2" :> 2)
MCDecimalOf == (1 :> "1") @@ (2 :> "2")
MCLowerOf == ("A" :> "a") @@ ("B" :> "b")

SeqsUpTo(S, n) == UNION {[1..k -> S] : k \in 0..n}

CsvFile(lines) == [format |-> "csv", header |-> <<"k", "v">>, lines |-> lines]
JsonFile(format, lines) == [format |-> format, header |-> <<>>, lines |-> lines]

\* Rows: blank, short, long, an empty key, keys that differ in case, numerals.
Row(cols) == <<"Row", cols>>
MainRows == {<<>>, Row(<<<<"a">>, <<"1">>>>), Row(<<<<"A", "b">>, <<"2">>>>),
             Row(<<<<"01">>, <<"b">>, <<>>>>)}
CsvRows == MainRows \cup {Row(<<<<>>, <<"1">>>>), Row(<<<<"a">>>>)}
KeyRows == {<<>>} \cup {Row(<<k, v>>) : k \in {<<"a">>}, v \in {<<"1">>, <<"2">>}}
           \cup {Row(<<<<"b">>, <<"2">>>>)}
JoinRows == {<<>>, Row(<<<<"a">>, <<"1">>>>), Row(<<<<"1">>, <<"2">>>>),
             Row(<<<<"a">>, <<"2">>>>)}
JsonLines == {<<>>, <<"Bad">>, <<"Val", Str(<<"a">>)>>,
              <<"Obj", [k |-> Str(<<"1">>), v |-> Arr(<<Num(1), Str(<<"b">>)>>)]>>,
              <<"Obj", [k |-> Num(1), v |-> Null]>>}
KeyedLines == {line \in JsonLines : line # <<>> /\ Kind(line) = "Obj"} \cup {<<>>}

SelectPlans == {
    <<<<"Filter", <<"equals", "k", <<"a">>>>>>>>,
    <<<<"Filter", <<"equals", "k", <<"1">>>>>>>>,
    <<<<"Filter", <<"gt", "v", 1>>>>, <<"Map", "double">>>>,
    <<<<"Filter", <<"lt", "k", 2>>>>>>,
    <<<<"Filter", <<"non_empty">>>>, <<"FlatMap", <<"json_expand">>>>>>,
    <<<<"Filter", <<"has_field", "v">>>>, <<"FlatMap", <<"explode_array", "v">>>>>>,
    <<<<"FlatMap", <<"split", "k">>>>, <<"Map", "lowercase">>>>,
    <<<<"FlatMap", <<"tokenize">>>>>>,
    <<<<"Map", "reverse">>>>,
    <<<<"Filter", <<"matches", "k">>>>>> }
Reducers == {<<"count">>, <<"collect">>, <<"sum", "v">>, <<"min", "v">>, <<"max", "v">>,
             <<"max">>, <<"median", "v">>}

Job(inputs, plan) == [inputs |-> inputs, plan |-> plan]
MCJobs ==
    {Job(<<CsvFile(l)>>, p) : l \in SeqsUpTo(CsvRows, 2) \cup [1..3 -> MainRows],
                              p \in SelectPlans}
    \cup {Job(<<JsonFile("jsonl", l)>>, p) : l \in SeqsUpTo(JsonLines, 2), p \in SelectPlans}
    \cup {Job(<<JsonFile("array", l)>>, p) :
              l \in SeqsUpTo(JsonLines \ {<<>>}, 2), p \in SelectPlans}
    \cup {Job(<<CsvFile(l)>>, <<<<"ReduceByKey", "k", red>>>>) :
              l \in SeqsUpTo(KeyRows, 3), red \in Reducers}
    \cup {Job(<<JsonFile("jsonl", l)>>, <<<<"Reduce", red>>>>) :
              l \in SeqsUpTo(JsonLines, 1), red \in Reducers}
    \cup {Job(<<CsvFile(l), CsvFile(r)>>, <<<<"Join", "k", type>>>>) :
              l \in SeqsUpTo(JoinRows, 2), r \in SeqsUpTo(JoinRows, 2),
              type \in {"Inner", "Left", "Right", "Full"}}
    \cup {Job(<<f>>, <<<<"ShuffleByKey", "k", 2>>>>) :
              f \in {CsvFile(l) : l \in SeqsUpTo(JoinRows, 2)}
                    \cup {JsonFile("jsonl", l) : l \in SeqsUpTo(JsonLines, 2)
                                                     \cup [1..3 -> KeyedLines]}}
    \cup {Job(<<CsvFile(l), CsvFile(r)>>, <<<<"Join", "k", "Left">>, second>>) :
              l \in [1..2 -> JoinRows \ {<<>>}], r \in {<<row>> : row \in JoinRows},
              second \in {<<"ShuffleByKey", "right_k", 2>>, <<"FlatMap", <<"split", "left_k">>>>}}
    \cup {Job(<<JsonFile("jsonl", l)>>, <<<<"ShuffleByKey", "k", 2>>, second>>) :
              l \in [1..2 -> KeyedLines],
              second \in {<<"Reduce", <<"count">>>>, <<"ShuffleByKey", "v", 2>>}}
    \cup {Job(<<[CsvFile(<<>>) EXCEPT !.header = <<>>]>>, <<<<"Map", "identity">>>>)}

MCHashes == [{<<"0_i32">>, <<"1">>, <<"a">>} -> 0..1]

=============================================================================
