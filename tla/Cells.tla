-------------------------------- MODULE Cells --------------------------------
(***************************************************************************)
(* The cells of tables, as records of their kind and content: what pandas, *)
(* Arrow and fastavro give for a value, as far as the code tells them      *)
(* apart.  NaN is null; widths of numbers are left out.                    *)
(***************************************************************************)
EXTENDS Naturals, Sequences, FiniteSets, SequencesExt

Null == [k |-> "null"]
Num(v) == [k |-> "num", v |-> v]
Time(v) == [k |-> "time", v |-> v]
Text(v) == [k |-> "text", v |-> v]
Flag(on) == [k |-> "flag", on |-> on]
Dict(f) == [k |-> "dict", f |-> f]
List(s) == [k |-> "list", s |-> s]

(* Texts, among them those whose form matters to AvroCells. *)
TextKinds == {"text", "stamp", "naive", "day", "digits", "uuid"}

Dicts(S) == {c \in S : c.k = "dict"}
Lists(S) == {c \in S : c.k = "list"}

(* dict.get() of what may be no dict. *)
Get(c, key) == IF c.k = "dict" /\ key \in DOMAIN c.f THEN c.f[key] ELSE Null

FieldCells(S, key) == {c.f[key] : c \in {d \in Dicts(S) : key \in DOMAIN d.f}}

Keys(S) == UNION {DOMAIN c.f : c \in Dicts(S)}
Elements(S) == UNION {Range(c.s) : c \in Lists(S)}
MaxLen(S) == Max({0} \cup {Len(c.s) : c \in Lists(S)})

(* What a sequence has at some of its places, in its order. *)
At(s, places) ==
    LET taken[i \in 0 .. Len(s)] ==
          IF i = 0 THEN <<>>
          ELSE IF i \in places THEN Append(taken[i - 1], s[i]) ELSE taken[i - 1]
    IN taken[Len(s)]
==============================================================================
