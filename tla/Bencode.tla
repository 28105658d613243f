------------------------------ MODULE Bencode ------------------------------
(***************************************************************************)
(* The format of .torrent files, from the side of the writer: the bytes of *)
(* a tree, and the spans in which a reader finds its parts.  Metainfo has  *)
(* the reader's side; here the files for its instances are made.           *)
(***************************************************************************)
EXTENDS Integers, Sequences, SequencesExt

Digit10 == <<"0", "1", "2", "3", "4", "5", "6", "7", "8", "9">>

RECURSIVE Decimal(_)
Decimal(n) == (IF n < 10 THEN << >> ELSE Decimal(n \div 10)) \o <<Digit10[(n % 10) + 1]>>

EncodeInt(n) == <<"i">> \o (IF n < 0 THEN <<"-">> \o Decimal(-n) ELSE Decimal(n)) \o <<"e">>
EncodeString(s) == Decimal(Len(s)) \o <<":">> \o s

\* The nodes within a list or a dictionary, keys included, in the order they are
\* written.
Parts(t) ==
    IF t[1] = "list" THEN t[2]
    ELSE [k \in 1..(2 * Len(t[2])) |-> t[2][(k + 1) \div 2][IF k % 2 = 1 THEN 1 ELSE 2]]

RECURSIVE Encode(_)
Encode(t) ==
    CASE t[1] = "int" -> EncodeInt(t[2])
      [] t[1] = "str" -> EncodeString(t[2])
      [] OTHER -> <<IF t[1] = "list" THEN "l" ELSE "d">>
                      \o FlattenSeq([k \in DOMAIN Parts(t) |-> Encode(Parts(t)[k])]) \o <<"e">>

\* The spans of t when its encoding begins at p.
RECURSIVE SpansAt(_, _)
SpansAt(t, p) ==
    LET parts == Parts(t)
        cut(k) == p + 1 + Len(FlattenSeq([n \in 1..(k - 1) |-> Encode(parts[n])]))
        span(cuts) == [from |-> p, to |-> p + Len(Encode(t)), node |-> t, cuts |-> cuts]
    IN  CASE t[1] = "int" -> {span(<<IF t[2] < 0 THEN p + 2 ELSE p + 1>>)}
          [] t[1] = "str" -> {span(<<p + Len(Decimal(Len(t[2])))>>)}
          [] OTHER -> {span([k \in 1..(Len(parts) + 1) |-> cut(k)])}
                         \cup UNION {SpansAt(parts[k], cut(k)) : k \in DOMAIN parts}

FileOf(t) == [bytes |-> Encode(t), spans |-> SpansAt(t, 1)]
=============================================================================
