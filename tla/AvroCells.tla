------------------------------ MODULE AvroCells ------------------------------
(***************************************************************************)
(* What AvroToArrowConverter makes of one value of a record                *)
(* (src/sources/avro_ocf/helpers/avro_to_arrow.py l.104-204, 284-336).     *)
(*                                                                         *)
(* Besides Cells there are texts whose form matters: a point in time with  *)
(* an offset (stamp) or without (naive), a day, digits, a UUID; fastavro   *)
(* gives a datetime or a date for a logical type.  Time is counted in      *)
(* ticks, Second of them to a second; rounding to the microsecond is left  *)
(* out.                                                                    *)
(***************************************************************************)
EXTENDS Cells, Integers

CONSTANTS Second,         (* ticks in a second                        *)
          MoscowOffset,   (* default_tz_offset, in ticks              *)
          NsMin, NsMax    (* _NS_MIN and _NS_MAX, in ticks            *)

ASSUME ClockAssumption ==
    /\ Second \in Nat \ {0}
    /\ NsMin \in Int /\ NsMax \in Int /\ NsMin < NsMax
    /\ MoscowOffset \in Int /\ MoscowOffset % Second = 0

Stamp(local, offset) == [k |-> "stamp", local |-> local, offset |-> offset]
Naive(local) == [k |-> "naive", local |-> local]
Day(d) == [k |-> "day", d |-> d]
Digits(v) == [k |-> "digits", v |-> v]
Uuid(v) == [k |-> "uuid", v |-> v]
Bytes(v) == [k |-> "bytes", v |-> v]
DateTime(at) == [k |-> "datetime", at |-> at]
Date(d) == [k |-> "date", d |-> d]

(* In place of a cell that cannot be converted: the call raises. *)
Raised == [k |-> "raised"]

-----------------------------------------------------------------------------

Clamped(ticks) == CASE ticks < NsMin -> NsMin [] ticks > NsMax -> NsMax [] OTHER -> ticks

(* _parse_iso_to_epoch_ns_clamped: total_seconds() has the fraction of the *)
(* second already, to which the microseconds are added.                    *)
EpochNs(stamp) ==
    LET delta == stamp.local - stamp.offset IN Clamped(delta + (delta % Second))

(* _sanitize_value *)
Sanitized(value, of) ==
    CASE value.k = "uuid" -> Bytes(value.v)
      [] value.k = "digits" /\ of = "uint64" -> Num(value.v)
      [] value.k = "naive" /\ of = "timestamp" -> Stamp(value.local, MoscowOffset)
      [] value.k \in {"stamp", "naive"} /\ of = "date" -> Day(value.local \div Second)
      [] OTHER -> value

(* A text that is no point in time, a day alone included, stands for the   *)
(* first instant there is; what is neither number nor text is a null.      *)
TimestampCell(value) ==
    CASE value.k = "num" -> Time(Clamped(value.v))
      [] value.k = "stamp" -> Time(EpochNs(value))
      [] value.k \in {"text", "day"} -> Time(NsMin)
      [] OTHER -> Null

(* A column of dates is made of texts. *)
DateCell(value) ==
    CASE value.k = "day" -> Date(value.d) [] value.k = "null" -> Null [] OTHER -> Raised

(* A text in the form of a UUID has become its bytes: read as text again   *)
(* they are another one, or make the call raise when they are not UTF-8.   *)
PrimitiveCell(value, of) ==
    CASE of = "timestamp" -> TimestampCell(value)
      [] of = "date" -> DateCell(value)
      [] of = "string" /\ value.k = "bytes" -> Text(0)
      [] of = "uint64" -> IF value.k \in {"num", "null"} THEN value ELSE Raised
      [] OTHER -> value

Instant(value) == value.local - IF value.k = "naive" THEN MoscowOffset ELSE value.offset

(* What becomes of one value.  Left out: a UUID, a datetime, and all but   *)
(* whole seconds.                                                          *)
CarriesScalar(value, of, cell) ==
    /\ value = Null => cell = Null
    /\ of = "timestamp" /\ value.k \in {"stamp", "naive"} /\ value.local % Second = 0
          => cell = Time(Clamped(Instant(value)))
    /\ of = "date" /\ value.k \in {"stamp", "naive"} => cell = Date(value.local \div Second)
    /\ of = "uint64" /\ value.k = "digits" => cell = Num(value.v)
    /\ value.k \in {"num", "text", "flag"} /\ of \notin {"timestamp", "date"} => cell = value
==============================================================================
