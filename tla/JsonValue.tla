----------------------------- MODULE JsonValue -----------------------------
(***************************************************************************)
(* JSON documents and the path subset the DSL reads them with              *)
(* (jsonutil/value.go, dslconfig parseObjectPath).                         *)
(*                                                                         *)
(* A value is a tagged record.  Decoding the wire gives "num", "str",      *)
(* "bool", "null", "arr" and "obj"; "int" and "strs" are the Go int and    *)
(* []string that rules put into a document, equal on the wire to "num" and *)
(* "arr" but not to reflect.DeepEqual.  Text is a sequence of atoms, and a *)
(* path is the text <<"$", "a", "[*]", "b">> of $.a[*].b.                  *)
(***************************************************************************)
EXTENDS Integers, Sequences, SequencesExt, FiniteSetsExt, TLC

NoFields == [x \in {} |-> <<>>]
Obj(f) == [t |-> "obj", f |-> f]
Arr(e) == [t |-> "arr", e |-> e]
Str(s) == [t |-> "str", s |-> s]
Num(n) == [t |-> "num", n |-> n]
IntVal(n) == [t |-> "int", n |-> n]
Bool(b) == [t |-> "bool", b |-> b]
Strs(l) == [t |-> "strs", l |-> l]
Null == [t |-> "null"]

IsNum(v) == v.t \in {"num", "int"}
Has(v, k) == v.t = "obj" /\ k \in DOMAIN v.f

Star == "[*]"
Index == "[0]" :> 1 @@ "[1]" :> 2
Filter == "[?kind==image]" :> [field |-> "kind", want |-> <<"image">>]
Brackets == {Star} \cup DOMAIN Index \cup DOMAIN Filter

\* parseObjectPath: fields only, at least one.
ParseObjectPath(p) == /\ Len(p) >= 2 /\ p[1] = "$"
                      /\ \A i \in 2..Len(p) : p[i] \notin Brackets \cup {"$"}

\* jsonutil compilePath.
ValidPath(p) == Len(p) >= 2 /\ p[1] = "$"

Found(v) == [ok |-> TRUE, v |-> v]
Missing == [ok |-> FALSE, v |-> Null]

\* jsonGet, jsonPathExists, lookupBody: an object on every step.
RECURSIVE Walk(_, _)
Walk(v, ks) == IF ks = <<>> THEN Found(v)
               ELSE IF Has(v, Head(ks)) THEN Walk(v.f[Head(ks)], Tail(ks))
               ELSE Missing
JsonGet(root, path) == Walk(root, Tail(path))

(***************************************************************************)
(* visitPathValues: the values a path matches, and whether it matched.  A  *)
(* wildcard matches an empty array, and skips the elements the rest of the *)
(* path does not reach.                                                    *)
(***************************************************************************)
MatchesFilter(v, fl) == Has(v, fl.field) /\ v.f[fl.field] = Str(fl.want)

RECURSIVE Visit(_, _)
Visit(v, ks) ==
    LET None == [ok |-> FALSE, vals |-> <<>>]
        All(e) == [ok |-> TRUE,
                   vals |-> FlattenSeq([i \in 1..Len(e) |-> Visit(e[i], Tail(ks)).vals])]
    IN  IF ks = <<>> THEN [ok |-> TRUE, vals |-> <<v>>]
        ELSE LET k == Head(ks) IN
             IF k \notin Brackets THEN IF Has(v, k) THEN Visit(v.f[k], Tail(ks)) ELSE None
             ELSE IF v.t # "arr" THEN None
             ELSE IF k = Star THEN All(v.e)
             ELSE IF k \in DOMAIN Filter
                  THEN All(SelectSeq(v.e, LAMBDA x : MatchesFilter(x, Filter[k])))
             ELSE IF Index[k] <= Len(v.e) THEN Visit(v.e[Index[k]], Tail(ks)) ELSE None

GetValuesByPath(root, path) == Visit(root, Tail(path))

\* CoerceFloatOK: numbers, and strings that read as one.  Numerals gives the latter.
Numerals == <<"1">> :> 1 @@ <<"2">> :> 2 @@ <<"9">> :> 9
CoerceFloatOK(v) == IsNum(v) \/ (v.t = "str" /\ v.s \in DOMAIN Numerals)
CoerceFloat(v) == IF IsNum(v) THEN v.n
                  ELSE IF v.t = "str" /\ v.s \in DOMAIN Numerals THEN Numerals[v.s] ELSE 0

Total(s) == FoldLeft(LAMBDA a, b : a + b, 0, s)

FloatOf(r) == [ok |-> r.ok, n |-> Total([i \in 1..Len(r.vals) |-> CoerceFloat(r.vals[i])])]
\* GetFloatByPathWithMatch: the sum of what the path matches.
GetFloatByPath(root, path) ==
    FloatOf(GetValuesByPath(root, path))

\* GetStringByPath: the first string that is not blank.
FirstString(vals) == SelectInSeq(vals, LAMBDA v : v.t = "str" /\ v.s # <<>>)
FirstText(vals) == IF FirstString(vals) = 0 THEN <<>> ELSE vals[FirstString(vals)].s
GetStringByPath(root, path) ==
    FirstText(GetValuesByPath(root, path).vals)

(***************************************************************************)
(* UsageExpr and BalanceExpr: paths and numbers joined by + and -, read    *)
(* from the left, without parentheses.                                     *)
(***************************************************************************)
Terms(text) ==
    LET Step(st, a) == IF a \in {"+", "-"} THEN Append(st, [sign |-> IF a = "+" THEN 1 ELSE -1, t |-> <<>>])
                       ELSE [st EXCEPT ![Len(st)].t = Append(@, a)]
    IN  FoldLeft(Step, <<[sign |-> 1, t |-> <<>>]>>, text)

ParseUsageExpr(text) == \A i \in 1..Len(Terms(text)) :
                            LET t == Terms(text)[i].t IN t \in DOMAIN Numerals \/ ValidPath(t)

TermValue(t, root) == IF t \in DOMAIN Numerals THEN Numerals[t] ELSE GetFloatByPath(root, t).n
SumTerms(terms, root) == Total([i \in 1..Len(terms) |-> terms[i].sign * TermValue(terms[i].t, root)])
EvalUsageExpr(text, root) ==
    SumTerms(Terms(text), root)

\* jsonValueEqualsLiteral: numbers compare as numbers, other values as text.
ValueEqualsLiteral(root, path, lit) ==
    LET r == GetValuesByPath(root, path) IN
    \E i \in 1..Len(r.vals) :
        LET v == r.vals[i] IN
        IF CoerceFloatOK(v) /\ lit \in DOMAIN Numerals THEN CoerceFloat(v) = Numerals[lit]
        ELSE (IF v.t = "str" THEN v.s ELSE <<>>) = lit

\* ErrorWhenRule.Matches: a missing path never matches, for eq and ne alike.
ErrorWhenMatches(root, path, eq, ne) ==
    /\ root.f # NoFields
    /\ IF eq # <<>> THEN ValueEqualsLiteral(root, path, eq)
       ELSE /\ ne # <<>>
            /\ GetValuesByPath(root, path).ok /\ GetValuesByPath(root, path).vals # <<>>
            /\ ~ValueEqualsLiteral(root, path, ne)
=============================================================================
