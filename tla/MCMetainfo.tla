----------------------------- MODULE MCMetainfo -----------------------------
(***************************************************************************)
(* Instances of Metainfo for TLC: the encodings of small trees, files with *)
(* the keys of a torrent in every order, and all short sequences of bytes. *)
(* Keys are one byte long, and a hash has one byte; an int is one of       *)
(* -8..7, so that a length of 9 does not fit it.                           *)
(***************************************************************************)
EXTENDS Metainfo, Bencode

Byte == {"l", "d", "i", "e", ":", "-", "0", "1"}

kAnnounce == <<"l">>
kInfo == <<"d">>
kLength == <<"i">>
kName == <<"e">>
kPieceLength == <<":">>
kPieces == <<"0">>

Key(k) == <<"str", k>>
Leaf == {<<"int", 0>>, <<"int", -11>>, <<"str", << >> >>, <<"str", <<"e">> >>, <<"str", <<":", "1">> >>}
Lists(T) == {<<"list", s>> : s \in (T \X T) \cup {<<t>> : t \in T}}
Dicts(T) == {<<"dict", s>> : s \in {<< <<Key(<<"l">>), a>>, <<Key(<<"e", "1">>), b>> >> : a, b \in T}
                                \cup {<< <<Key(<< >>), a>> >> : a \in T}}
SmallTrees == Leaf \cup Lists(Leaf) \cup Dicts(Leaf)
                   \cup Lists({<<"int", 1>>, <<"list", << <<"int", 0>> >> >>, <<"dict", << <<Key(<<"i">>), <<"int", 1>> >> >> >>})

\* Torrents: the info dictionary in the order o, after or before the tracker.
InfoEntries(length, each, hashes) ==
    << <<Key(kLength), <<"int", length>> >>, <<Key(kName), <<"str", <<"1">> >> >>,
       <<Key(kPieceLength), <<"int", each>> >>,
       <<Key(kPieces), <<"str", [k \in 1..hashes |-> "1"]>> >> >>
Torrents ==
    {<<"dict", << <<Key(kAnnounce), <<"str", <<"1">> >> >>,
                  <<Key(kInfo), <<"dict", [k \in 1..4 |-> InfoEntries(length, each, hashes)[o[k]]]>> >> >> >> :
        length \in {0, 4, 9}, each \in {0, 2, 3}, hashes \in {1, 2},
        o \in {p \in [1..4 -> 1..4] : \A a, b \in 1..4 : a # b => p[a] # p[b]}}

\* A torrent with two lengths, numbers that are blank or too large, and a file of
\* which the format reads only the beginning.
Twice == <<"dict", << <<Key(kInfo), <<"dict", InfoEntries(4, 2, 2) \o <<InfoEntries(5, 2, 3)[1]>> >> >> >> >>
Odd == {<<"i", "blank", "-", "1", "e">>, <<"i", "blank", "e">>, <<"i", "9", "9", "9", "e">>,
        <<"d", "-", "1", ":", "e", "i", "1", "e", "e">>}
Continued == {[FileOf(t) EXCEPT !.bytes = @ \o <<"1", "e">>] : t \in Leaf \cup Lists(Leaf)}

MCFiles ==
    {FileOf(t) : t \in SmallTrees \cup Torrents \cup {Twice}} \cup Continued
        \cup {[bytes |-> b, spans |-> {}] : b \in Odd \cup UNION {[1..n -> Byte] : n \in 1..4} \cup [1..5 -> Byte \ {"-", "0"}]}
MCTrailers == {<< >>, <<"e", "e">>, <<"l", "1", ":">>}
=============================================================================
