------------------------------ MODULE Operators ------------------------------
(***************************************************************************)
(* What the operators compute on records.  A record is a JSON object: a    *)
(* function from field names to values.  A value is <<"Null">>,            *)
(* <<"Num", n>>, <<"Str", words>> or <<"Arr", values>>; a text is the      *)
(* sequence of its words, so that splitting a field, comparing without     *)
(* case and reading a numeral are what the code does to it.  Booleans,     *)
(* fractions and the range of i64 are left out.                            *)
(***************************************************************************)
EXTENDS Integers, Sequences, FiniteSets, FiniteSetsExt, SequencesExt, Functions, TLC

CONSTANTS
    NumeralOf,  \* words that parse as a number, with the number
    DecimalOf,  \* numbers, with the word Number::to_string gives
    LowerOf     \* words with capitals, with their to_lowercase

ASSUME NumeralAssumption == \A word \in DOMAIN NumeralOf : NumeralOf[word] \in Int

Str(words) == <<"Str", words>>
Num(n) == <<"Num", n>>
Null == <<"Null">>
Arr(values) == <<"Arr", values>>
Kind(v) == v[1]

\* An object with one field; a over b, with the fields of b that a lacks.
Field(name, v) == [f \in {name} |-> v]
Over(a, b) == [f \in DOMAIN a \cup DOMAIN b |-> IF f \in DOMAIN a THEN a[f] ELSE b[f]]

\* OpResult: what an operator returns, or an error.
Ok(v) == <<"Ok", v>>
Err == <<"Err">>
IsOk(res) == res[1] = "Ok"
Value(res) == res[2]

\* The elements of s at the positions in I, in their order.
Kept(s, I) ==
    LET kept[i \in 0..Len(s)] ==
            IF i = 0 THEN <<>>
            ELSE IF i \in I THEN Append(kept[i - 1], s[i]) ELSE kept[i - 1]
    IN  kept[Len(s)]

IsNumeral(words) == Len(words) = 1 /\ words[1] \in DOMAIN NumeralOf
Lower(word) == IF word \in DOMAIN LowerOf THEN LowerOf[word] ELSE word
Upper(word) ==
    IF word \in Range(LowerOf) THEN CHOOSE u \in DOMAIN LowerOf : LowerOf[u] = word
    ELSE word
MapWords(words, F(_)) == [i \in 1..Len(words) |-> F(words[i])]

-----------------------------------------------------------------------------
(* Read.  A file is a header and lines, <<>> when blank.  A line of a CSV  *)
(* file is <<"Row", texts>>; a line of a JSON file, or an element of a     *)
(* JSON array, is <<"Val", value>>, <<"Obj", record>> or <<"Bad">>.        *)

\* infer_number: what looks like a number becomes one.
InferNumber(words) == IF IsNumeral(words) THEN Num(NumeralOf[words[1]]) ELSE Str(words)

\* parse_csv_line_to_object: a column beyond the header is named by position,
\* and of two columns with one name the last is kept.
ParseCsvLine(header, cols) ==
    LET name(i) == IF i <= Len(header) THEN header[i] ELSE "col" \o ToString(i - 1)
    IN  [f \in {name(i) : i \in 1..Len(cols)} |->
            InferNumber(cols[Max({i \in 1..Len(cols) : name(i) = f})])]

\* normalize_json_value: what is not an object becomes the field of one.
NormalizeJson(line) == IF Kind(line) = "Obj" THEN line[2] ELSE Field("value", line[2])

\* Mutant of EveryNth: the index moves only with the lines that are taken.
EveryNthStuck(lines, partition, total) ==
    IF total = 1 THEN lines
    ELSE IF partition = 0 /\ lines # <<>> THEN <<lines[1]>> ELSE <<>>

\* Lines whose index, from 0, is the task's partition modulo the total.
EveryNth(lines, partition, total) ==
    Kept(lines, {i \in 1..Len(lines) : (i - 1) % total = partition})

Filled(lines) == Kept(lines, {i \in 1..Len(lines) : lines[i] # <<>>})

\* ReadOp::execute.  A CSV file counts the lines that are not blank, a JSON
\* file all of them.  Only the task's own lines are parsed, but an array
\* (format json, when the first character says so) as a whole.
Read(file, partition, total) ==
    LET csv == file.format = "csv"
        own == Filled(EveryNth(IF csv THEN Filled(file.lines) ELSE file.lines,
                               partition, total))
        parsed == IF file.format = "array" THEN file.lines ELSE own
    IN  IF \/ file.format \notin {"csv", "jsonl", "array"}
           \/ csv /\ file.header = <<>>
           \/ ~csv /\ \E k \in 1..Len(parsed) : Kind(parsed[k]) = "Bad"
        THEN Err
        ELSE Ok([k \in 1..Len(own) |-> IF csv THEN ParseCsvLine(file.header, own[k][2])
                                       ELSE NormalizeJson(own[k])])

-----------------------------------------------------------------------------
(* Filter, Map, FlatMap: a record at a time.                               *)

KnownPredicates == {"non_empty", "always_true", "always_false", "has_field",
                    "equals", "gt", "lt"}

\* eval_predicate.  Texts compare without case; a number is never equal to the
\* text of the predicate, and a text is never greater or smaller than a number.
EvalPredicate(rec, p) ==
    LET has == Len(p) > 1 /\ p[2] \in DOMAIN rec
        isA(kind) == has /\ Kind(rec[p[2]]) = kind
    IN  CASE p[1] = "always_true" -> TRUE
          [] p[1] = "always_false" -> FALSE
          [] p[1] = "non_empty" ->
                 DOMAIN rec # {} /\ \A f \in DOMAIN rec : Kind(rec[f]) # "Null"
          [] p[1] = "has_field" -> has
          [] p[1] = "equals" ->
                 isA("Str") /\ MapWords(rec[p[2]][2], Lower) = MapWords(p[3], Lower)
          [] p[1] = "gt" -> isA("Num") /\ rec[p[2]][2] > p[3]
          [] p[1] = "lt" -> isA("Num") /\ rec[p[2]][2] < p[3]

\* FilterOp::execute on one partition.
Filter(recs, p) ==
    IF p[1] \notin KnownPredicates THEN Err
    ELSE Ok(Kept(recs, {i \in 1..Len(recs) : EvalPredicate(recs[i], p)}))

KnownMaps == {"identity", "uppercase", "lowercase", "double"}

\* apply_fn on a text or a number; a text that looks like a number doubles.
ApplyScalar(v, func) ==
    LET text == Kind(v) = "Str"
    IN  CASE text /\ func = "uppercase" -> Str(MapWords(v[2], Upper))
          [] text /\ func = "lowercase" -> Str(MapWords(v[2], Lower))
          [] text /\ func = "double" /\ IsNumeral(v[2]) -> Num(2 * NumeralOf[v[2][1]])
          [] Kind(v) = "Num" /\ func = "double" -> Num(2 * v[2])
          [] OTHER -> v

\* apply_fn on a field: arrays element by element.
ApplyFn(v, func) ==
    IF Kind(v) = "Arr" THEN Arr([i \in 1..Len(v[2]) |-> ApplyScalar(v[2][i], func)])
    ELSE ApplyScalar(v, func)

\* An unknown function is noticed at the first text or number it meets.
Scalars(v) == IF Kind(v) = "Arr" THEN ToSet(v[2]) ELSE {v}
MapNotices(rec) ==
    \E f \in DOMAIN rec : \E v \in Scalars(rec[f]) : Kind(v) \in {"Str", "Num"}

\* MapOp::execute on one partition.
Map(recs, func) ==
    IF func \notin KnownMaps /\ \E k \in 1..Len(recs) : MapNotices(recs[k]) THEN Err
    ELSE Ok([k \in 1..Len(recs) |-> [f \in DOMAIN recs[k] |-> ApplyFn(recs[k][f], func)]])

\* A copy of the record for each of vs, in the field.
Spread(rec, f, vs) == [i \in 1..Len(vs) |-> [rec EXCEPT ![f] = vs[i]]]

\* split_field: a record per word; the record itself when there is none.
SplitField(rec, f) ==
    IF f \in DOMAIN rec /\ Kind(rec[f]) = "Str" /\ rec[f][2] # <<>>
    THEN Spread(rec, f, MapWords(rec[f][2], LAMBDA w : Str(<<w>>)))
    ELSE <<rec>>

\* explode_array: a record per element, none for an empty array.
ExplodeArray(rec, f) ==
    IF f \in DOMAIN rec /\ Kind(rec[f]) = "Arr" THEN Spread(rec, f, rec[f][2]) ELSE <<rec>>

\* json_expand: a record per field, in the order of their names.
JsonExpand(rec) ==
    LET names == SetToSeq(DOMAIN rec)
    IN  IF names = <<>> THEN <<rec>> ELSE [i \in 1..Len(names) |-> Field(names[i], rec[names[i]])]

KnownFlatMaps == {"identity", "split", "explode_array", "json_expand"}

\* apply: what one record becomes.
Expand(rec, func) ==
    CASE func[1] = "identity" -> <<rec>>
      [] func[1] = "split" -> SplitField(rec, func[2])
      [] func[1] = "explode_array" -> ExplodeArray(rec, func[2])
      [] func[1] = "json_expand" -> JsonExpand(rec)

\* FlatMapOp::execute on one partition: an unknown function is noticed when
\* there is a record.
FlatMap(recs, func) ==
    IF func[1] \in KnownFlatMaps
    THEN Ok(FlattenSeq([k \in 1..Len(recs) |-> Expand(recs[k], func)]))
    ELSE IF recs = <<>> THEN Ok(<<>>) ELSE Err

-----------------------------------------------------------------------------
(* Reduce and ReduceByKey.                                                 *)

\* ReducerKind::parse: a count and a collection take no field.
IsReducer(red) == red[1] \in {"sum", "min", "max"} \/ red \in {<<"count">>, <<"collect">>}

\* Records with a number in a field.
WithNumber(recs, f) ==
    Kept(recs, {i \in 1..Len(recs) : f \in DOMAIN recs[i] /\ Kind(recs[i][f]) = "Num"})

\* Mutant of Numbers: the accumulator starts as 0 and not as the first number.
NumbersFromZero(recs, f) ==
    <<0>> \o [k \in 1..Len(WithNumber(recs, f)) |-> WithNumber(recs, f)[k][f][2]]

\* extract_number: the numbers in a field.
Numbers(recs, f) ==
    LET with == WithNumber(recs, f) IN [k \in 1..Len(with) |-> with[k][f][2]]

\* The closures of apply_reducer.
Accumulated(how, a, b) ==
    CASE how = "sum" -> a + b
      [] how = "min" -> IF a <= b THEN a ELSE b
      [] how = "max" -> IF a >= b THEN a ELSE b

\* fold_numeric: from the first number on, 0 if there is none.
FoldNumeric(how, nums) ==
    LET acc[i \in 1..Len(nums)] ==
            IF i = 1 THEN nums[i] ELSE Accumulated(how, acc[i - 1], nums[i])
    IN  IF nums = <<>> THEN 0 ELSE acc[Len(nums)]

\* apply_reducer: one field, named after the reducer and its field.  A record is
\* no number, so that a reducer without a field finds none.
ResultField(red) == IF Len(red) > 1 THEN red[1] \o "_" \o red[2] ELSE red[1]
ApplyReducer(red, recs) ==
    Field(ResultField(red),
          CASE red[1] = "count" -> Num(Len(recs))
            [] red[1] = "collect" -> <<"Recs", recs>>
            [] OTHER -> Num(IF Len(red) > 1 THEN FoldNumeric(red[1], Numbers(recs, red[2]))
                            ELSE 0))

\* ReduceOp::execute, the partitions merged.
Reduce(recs, red) ==
    IF ~IsReducer(red) THEN Err ELSE Ok(<<ApplyReducer(red, recs)>>)

\* ReduceByKeyOp::execute, the partitions merged: keys must be texts.  The
\* groups come out in the order of a HashMap; a field of the aggregate that is
\* named like the key replaces it.
Group(recs, key, k) == Kept(recs, {i \in 1..Len(recs) : recs[i][key][2] = k})
ReduceByKey(recs, key, red) ==
    LET keys == SetToSeq({recs[i][key][2] : i \in 1..Len(recs)})
    IN  IF \/ ~IsReducer(red)
           \/ \E i \in 1..Len(recs) : ~(key \in DOMAIN recs[i] /\ Kind(recs[i][key]) = "Str")
        THEN Err
        ELSE Ok([i \in 1..Len(keys) |->
                    Over(ApplyReducer(red, Group(recs, key, keys[i])),
                         Field(key, Str(keys[i])))])

-----------------------------------------------------------------------------
(* Join and Shuffle.                                                       *)

\* The text of a key: extract_key and compute_bucket agree on it.
KeyText(v) == IF Kind(v) = "Num" THEN <<DecimalOf[v[2]]>> ELSE v[2]

HasKey(rec, key) == key \in DOMAIN rec /\ Kind(rec[key]) \in {"Str", "Num"}

\* prefix_fields, combine_records, combine_left_only, combine_right_only.
PrefixFields(rec, prefix) ==
    [f \in {prefix \o g : g \in DOMAIN rec} |-> rec[CHOOSE g \in DOMAIN rec : prefix \o g = f]]
Combined(l, r) == Over(PrefixFields(r, "right_"), PrefixFields(l, "left_"))
LeftOnly(l) == Over(Field("right_missing", Null), PrefixFields(l, "left_"))
RightOnly(r) == Over(Field("left_missing", Null), PrefixFields(r, "right_"))

\* Mutant of Matched: a right record is marked by its key only when it is the
\* first with that key.
MatchedFirstOfKey(left, right, key) ==
    {j \in 1..Len(right) :
        /\ \E i \in 1..Len(left) : KeyText(left[i][key]) = KeyText(right[j][key])
        /\ \A m \in 1..(j - 1) : KeyText(right[m][key]) # KeyText(right[j][key])}

\* matched_right: only the first of equal right records is marked.
Matched(left, right, key) ==
    {j \in 1..Len(right) :
        /\ \E i \in 1..Len(left) : KeyText(left[i][key]) = KeyText(right[j][key])
        /\ \A m \in 1..(j - 1) : right[m] # right[j]}

\* What a left record becomes: a pair with each right record of its key.
Pairs(l, right, key, type) ==
    LET partners ==
            Kept(right, {j \in 1..Len(right) : KeyText(right[j][key]) = KeyText(l[key])})
    IN  IF partners # <<>> THEN [j \in 1..Len(partners) |-> Combined(l, partners[j])]
        ELSE IF type \in {"Left", "Full"} THEN <<LeftOnly(l)>> ELSE <<>>

\* Right records that were not marked.
Unmatched(left, right, key) == Kept(right, (1..Len(right)) \ Matched(left, right, key))

\* JoinOp::execute on its two partitions.
Join(left, right, key, type) ==
    LET rest == IF type \in {"Right", "Full"} THEN Unmatched(left, right, key) ELSE <<>>
    IN  IF \E rec \in ToSet(left) \cup ToSet(right) : ~HasKey(rec, key) THEN Err
        ELSE Ok(FlattenSeq([i \in 1..Len(left) |-> Pairs(left[i], right, key, type)])
                \o [j \in 1..Len(rest) |-> RightOnly(rest[j])])

\* Mutant of HashInput: numbers are hashed like the other values.
HashInputOfTexts(rec, key) ==
    IF HasKey(rec, key) /\ Kind(rec[key]) = "Str" THEN KeyText(rec[key]) ELSE <<"0_i32">>

\* What compute_bucket hashes: the text of a text or of a number, else 0.
HashInput(rec, key) == IF HasKey(rec, key) THEN KeyText(rec[key]) ELSE <<"0_i32">>

\* compute_bucket.  A text the hash function does not list hashes to 0.
Bucket(rec, key, total, hash) ==
    LET text == HashInput(rec, key)
    IN  (IF text \in DOMAIN hash THEN hash[text] ELSE 0) % total

\* Operator::from_type: the buckets of a ShuffleByKey that asks for n.
AtLeastOne(n) == IF n = 0 THEN 1 ELSE n

\* ShuffleByKeyOp::execute, the partitions merged: a partition per bucket.
Shuffle(recs, key, total, hash) ==
    LET in(b) == {i \in 1..Len(recs) : Bucket(recs[i], key, total, hash) = b}
    IN  Ok([b \in 1..total |-> <<b - 1, Kept(recs, in(b - 1))>>])

=============================================================================
