----------------------------- MODULE JsonValue ------------------------------
(***************************************************************************)
(* JSON values as serde_json hands them to the handlers.  Every kind has a *)
(* field name of its own, so that values of two kinds differ.  An optional *)
(* value is a sequence of length 0 or 1.                                   *)
(***************************************************************************)
LOCAL INSTANCE Integers
LOCAL INSTANCE Sequences
LOCAL INSTANCE FiniteSets

Obj(m) == [obj |-> m]
Arr(s) == [arr |-> s]
Str(x) == [str |-> x]
Num(n) == [num |-> n]
\* The number n + 1/2: a number that is not an integer.
Frac(n) == [frac |-> n]
Bool(b) == [bool |-> b]
Null == [null |-> TRUE]

is_object(v) == "obj" \in DOMAIN v
is_array(v) == "arr" \in DOMAIN v
is_string(v) == "str" \in DOMAIN v
is_number(v) == "num" \in DOMAIN v \/ "frac" \in DOMAIN v
is_boolean(v) == "bool" \in DOMAIN v
is_null(v) == "null" \in DOMAIN v

\* as_i64, as_u64 succeed; as_f64, counted in halves.
is_i64(v) == "num" \in DOMAIN v
is_u64(v) == is_i64(v) /\ v.num >= 0
as_f64(v) == IF is_i64(v) THEN 2 * v.num ELSE 2 * v.frac + 1

NoKeys == [k \in {} |-> Null]

Has(v, k) == is_object(v) /\ k \in DOMAIN v.obj
Get(v, k) == v.obj[k]

\* An object with exactly one key, and that key.
OneKey(v) == is_object(v) /\ Cardinality(DOMAIN v.obj) = 1
TheKey(v) == CHOOSE k \in DOMAIN v.obj : TRUE

None == <<>>
Some(x) == <<x>>

\* A parser's answer: a value, or an error with the kind of the mistake.
Ok(x) == [ok |-> x]
Err(why) == [err |-> why]
IsOk(r) == "ok" \in DOMAIN r

\* A checked value, and a sequence of answers: its first error, or the values.
Invalid == Err("parsing_exception")
Checked(valid, x) == IF valid THEN Ok(x) ELSE Invalid
Collect(rs) == Checked(\A i \in DOMAIN rs : IsOk(rs[i]), [i \in DOMAIN rs |-> rs[i].ok])
=============================================================================
