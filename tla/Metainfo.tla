------------------------------ MODULE Metainfo ------------------------------
(***************************************************************************)
(* Reading a .torrent file (src/src/bencode.c): the bencode decoder        *)
(* _be_decode(), and decodeFile(), which takes the fields it needs from    *)
(* the tree.                                                               *)
(*                                                                         *)
(* The decoder is recursive; its activations are a stack here, and a step  *)
(* is what one activation does up to its next call or return.  The file is *)
(* read into a block of exactly its size, so that what lies behind it is   *)
(* whatever the heap holds: Trailer, then zeros.                           *)
(*                                                                         *)
(* A node is <<"int", n>>, <<"str", bytes>>, <<"list", nodes>> or          *)
(* <<"dict", entries>>, an entry <<key, node>>; NULL is <<"null">>, a      *)
(* string included.                                                        *)
(*                                                                         *)
(* A file comes with spans: how the format reads it, for the files that    *)
(* are well formed (see Parsed).                                           *)
(***************************************************************************)
EXTENDS Integers, Sequences, SequencesExt

CONSTANTS
    Files,       \* the files: [bytes |-> their contents, spans |-> their reading]
    Trailers,    \* what may follow them in memory
    LongMax,     \* the largest long long
    IntSize,     \* an int is less than this, and not less than its negative
    HashSize,    \* bytes of a SHA1 hash
    BlockSize,   \* what decodeFile() allocates for a bt_info_t: less than its first field
    Info, Announce, Name, Length, PieceLength, Pieces   \* the keys, as bytes

VARIABLES
    input,       \* the file
    spans,       \* how the format reads it
    memory,      \* the file and what follows it
    pos,         \* *data: the next byte (from 1)
    data_len,    \* *data_len
    stack,       \* the activations that wait for another one, innermost last
    mode,        \* "decode", "loop" or "return"; then "file", "info" or "end"
    ret,         \* the node returned
    i, j,        \* decodeFile(): the entry of the file, and of its info dictionary
    out          \* the bt_info_t

file == <<input, spans, memory>>
vars == <<file, pos, data_len, stack, mode, ret, i, j, out>>

Null == <<"null">>
Digits == <<"0", "1", "2", "3", "4", "5", "6", "7", "8", "9">>
Digit == Range(Digits)

At(p) == IF p <= Len(memory) THEN memory[p] ELSE "nul"

Activation(type, key) == [type |-> type, items |-> << >>, key |-> key]
Top == stack[Len(stack)]

\* The bt_info_t, and which of its fields have been set.  Reading one that was not, a
\* value of another type or too short a string, or dividing by 0, is undefined.  Only
\* the beginning of announce lies in the block that is allocated (see StrayWrite).
NoInfo == [state |-> "ok", known |-> {}, announce |-> Null, name |-> Null, length |-> 0,
           piece_length |-> 0, num_pieces |-> 0, hashes |-> 0]
Undefined == [NoInfo EXCEPT !.state = "undefined"]

(***************************************************************************)
(* The leaves.                                                             *)
(***************************************************************************)
\* What strtoll() makes of digits.
ValueOf(ds) ==
    LET v[k \in 0..Len(ds)] ==
            IF k = 0 THEN 0 ELSE 10 * v[k - 1] + (CHOOSE d \in 0..9 : Digits[d + 1] = ds[k])
    IN  v[Len(ds)]
Clamp(n) == IF n > LongMax THEN LongMax ELSE IF n < -LongMax - 1 THEN -LongMax - 1 ELSE n

\* strtoll() at p: blanks, a sign, digits; without digits nothing is read.
RunEnd(p, S) ==
    IF p > Len(memory) THEN p
    ELSE CHOOSE q \in p..(Len(memory) + 1) :
             At(q) \notin S /\ \A r \in p..(q - 1) : At(r) \in S
SignAt(p) == RunEnd(p, {"blank"})
DigitsAt(p) == SignAt(p) + IF At(SignAt(p)) \in {"-", "+"} THEN 1 ELSE 0
NumberEnd(p) == IF At(DigitsAt(p)) \in Digit THEN RunEnd(DigitsAt(p), Digit) ELSE p
Number(p) ==
    IF At(DigitsAt(p)) \notin Digit THEN 0
    ELSE Clamp((IF At(SignAt(p)) = "-" THEN -1 ELSE 1)
                   * ValueOf(SubSeq(memory, DigitsAt(p), NumberEnd(p) - 1)))

\* Mutant: a string that ends the file is refused.
StringAtShort(p, len) ==
    LET colon == NumberEnd(p)
        n == Number(p)
    IN  IF At(colon) = ":" /\ n >= 0 /\ n < len - (colon - p) - 1
        THEN [node |-> <<"str", SubSeq(memory, colon + 1, colon + n)>>, next |-> colon + n + 1]
        ELSE [node |-> Null, next |-> colon]

\* _be_decode_str(), with len bytes left: the string, and where reading goes on.
StringAt(p, len) ==
    LET colon == NumberEnd(p)
        n == Number(p)
    IN  IF At(colon) = ":" /\ n >= 0 /\ n <= len - (colon - p) - 1
        THEN [node |-> <<"str", SubSeq(memory, colon + 1, colon + n)>>, next |-> colon + n + 1]
        ELSE [node |-> Null, next |-> colon]

\* Reading goes on at q.
Advance(q) == pos' = q /\ data_len' = data_len - (q - pos)

Returns(node) == mode' = "return" /\ ret' = node

(***************************************************************************)
(* _be_decode(), called.                                                   *)
(***************************************************************************)
DecodeNothing ==
    /\ mode = "decode"
    /\ data_len = 0 \/ At(pos) \notin {"l", "d", "i"} \cup Digit
    /\ Returns(Null)
    /\ UNCHANGED <<file, pos, data_len, stack, i, j, out>>

DecodeInt ==
    /\ mode = "decode" /\ data_len # 0 /\ At(pos) = "i"
    /\ LET end == NumberEnd(pos + 1)
       IN  IF At(end) = "e"
           THEN Returns(<<"int", Number(pos + 1)>>) /\ Advance(end + 1)
           ELSE Returns(Null) /\ Advance(end)
    /\ UNCHANGED <<file, stack, i, j, out>>

\* A string that is refused still gives a node, without a value.
DecodeString ==
    /\ mode = "decode" /\ data_len # 0 /\ At(pos) \in Digit
    /\ LET s == StringAt(pos, data_len)
       IN  Returns(IF s.node = Null THEN <<"str", Null>> ELSE s.node) /\ Advance(s.next)
    /\ UNCHANGED <<file, stack, i, j, out>>

DecodeOpen ==
    /\ mode = "decode" /\ data_len # 0 /\ At(pos) \in {"l", "d"}
    /\ stack' = Append(stack, Activation(IF At(pos) = "l" THEN "list" ELSE "dict", Null))
    /\ mode' = "loop"
    /\ Advance(pos + 1)
    /\ UNCHANGED <<file, ret, i, j, out>>

(***************************************************************************)
(* Its loops over the items of a list or dictionary.                       *)
(***************************************************************************)
NextItem ==
    /\ mode = "loop"
    /\ At(pos) # "e"
    /\ IF Top.type = "dict"
       THEN LET s == StringAt(pos, data_len)
            IN  stack' = [stack EXCEPT ![Len(stack)].key = s.node] /\ Advance(s.next)
       ELSE UNCHANGED <<stack, pos, data_len>>
    /\ mode' = "decode"
    /\ UNCHANGED <<file, ret, i, j, out>>

\* What a reader of the node sees: the items before the first NULL.
Seen(type, items) ==
    LET value(k) == IF type = "dict" THEN items[k][2] ELSE items[k]
        n == CHOOSE n \in 0..Len(items) :
                 /\ \A k \in 1..n : value(k) # Null
                 /\ n = Len(items) \/ value(n + 1) = Null
    IN  <<type, SubSeq(items, 1, n)>>

\* Mutant: the closing byte is passed and not counted.
CloseUncounted ==
    /\ stack' = Front(stack)
    /\ Returns(Seen(Top.type, Top.items))
    /\ pos' = pos + 1 /\ UNCHANGED data_len

\* Past the closing byte, whatever it is; the n items are terminated, which
\* overwrites an item n that was read but not counted; back to the caller.
Close ==
    /\ stack' = Front(stack)
    /\ Returns(Seen(Top.type, Top.items))
    /\ Advance(pos + 1)

\* Mutant: the item takes the place of the one before it.
WithItemOver ==
    Append(SubSeq(Top.items, 1, Len(Top.items) - 1), IF Top.type = "dict" THEN <<Top.key, ret>> ELSE ret)

\* The items with the one that comes back, and the word that the loop tests for
\* NULL: the item of a list, but of a dictionary of n entries word n of its array,
\* which is the key or the value of entry n / 2.
WithItem == Append(Top.items, IF Top.type = "dict" THEN <<Top.key, ret>> ELSE ret)
TestedWord ==
    LET n == Len(Top.items)
    IN  IF Top.type = "list" THEN ret ELSE WithItem[(n \div 2) + 1][(n % 2) + 1]

\* Mutant: an item that cannot be decoded is skipped.
ItemDoneSkips ==
    /\ mode = "return" /\ stack # << >>
    /\ stack' = IF TestedWord = Null THEN stack
                ELSE [stack EXCEPT ![Len(stack)].items = WithItem]
    /\ mode' = "loop"
    /\ UNCHANGED <<file, pos, data_len, ret, i, j, out>>

\* An item comes back.
ItemDone ==
    /\ mode = "return" /\ stack # << >>
    /\ \/ TestedWord = Null /\ Close
       \/ /\ TestedWord # Null
          /\ stack' = [stack EXCEPT ![Len(stack)].items = WithItem]
          /\ mode' = "loop"
          /\ UNCHANGED <<pos, data_len, ret>>
    /\ UNCHANGED <<file, i, j, out>>

EndOfItems ==
    /\ mode = "loop"
    /\ At(pos) = "e"
    /\ Top.items # << >>
    /\ Close
    /\ UNCHANGED <<file, i, j, out>>

\* An empty list or dictionary has no array: its terminator goes through NULL.
EndOfEmpty ==
    /\ mode = "loop"
    /\ At(pos) = "e"
    /\ Top.items = << >>
    /\ mode' = "end" /\ out' = Undefined
    /\ UNCHANGED <<file, pos, data_len, stack, ret, i, j>>

(***************************************************************************)
(* decodeFile().                                                           *)
(***************************************************************************)
Is(e, key, type) == e[1] = <<"str", key>> /\ e[2][1] = type /\ (type = "str" => e[2][2] # Null)
Other(e, keys) == e[1] # Null /\ \A key \in keys : e[1] # <<"str", key>>

\* long long to int; division truncates.
ToInt(n) == ((n + IntSize) % (2 * IntSize)) - IntSize
Abs(n) == IF n < 0 THEN -n ELSE n
Quotient(a, b) == (IF (a < 0) = (b < 0) THEN 1 ELSE -1) * (Abs(a) \div Abs(b))
CanDivide(a, b) == b # 0 /\ ~(a = -IntSize /\ b = -1)

PieceCount(length, each) ==
    Quotient(length, each) + (IF length > each * Quotient(length, each) THEN 1 ELSE 0)

\* One entry of the info dictionary.  "piece length" also gives the number of
\* pieces, from the length known by then, and "pieces" is cut up by that number.
TakeInfo(info, e) ==
    CASE Is(e, Name, "str") -> [info EXCEPT !.name = e[2][2]]
      [] Is(e, Length, "int") ->
            [info EXCEPT !.length = ToInt(e[2][2]), !.known = @ \cup {"length"}]
      [] Is(e, PieceLength, "int") /\ "length" \in info.known
                                  /\ CanDivide(info.length, ToInt(e[2][2])) ->
            [info EXCEPT !.piece_length = ToInt(e[2][2]), !.known = @ \cup {"num_pieces"},
                         !.num_pieces = PieceCount(info.length, ToInt(e[2][2]))]
      [] Is(e, Pieces, "str") /\ "num_pieces" \in info.known
                             /\ HashSize * info.num_pieces <= Len(e[2][2]) ->
            [info EXCEPT !.hashes = info.num_pieces, !.known = @ \cup {"hashes"}]
      [] Other(e, {Name, Length, PieceLength, Pieces}) -> info
      [] OTHER -> Undefined

\* The decoder is done: decodeFile() walks the tree,
decodeFile ==
    /\ mode = "return" /\ stack = << >>
    /\ IF ret[1] = "dict" THEN mode' = "file" /\ out' = NoInfo
                          ELSE mode' = "end" /\ out' = Undefined
    /\ i' = 1 /\ UNCHANGED <<file, pos, data_len, stack, ret, j>>

\* one entry after the other,
FileEntry ==
    /\ mode = "file" /\ i <= Len(ret[2])
    /\ LET e == ret[2][i]
       IN  \/ /\ Is(e, Announce, "str")
              /\ out' = [out EXCEPT !.announce = e[2][2]] /\ i' = i + 1 /\ UNCHANGED <<mode, j>>
           \/ /\ Is(e, Info, "dict")
              /\ mode' = "info" /\ j' = 1 /\ UNCHANGED <<i, out>>
           \/ /\ Other(e, {Announce, Info})
              /\ i' = i + 1 /\ UNCHANGED <<mode, j, out>>
           \/ /\ ~(Is(e, Announce, "str") \/ Is(e, Info, "dict") \/ Other(e, {Announce, Info}))
              /\ mode' = "end" /\ out' = Undefined /\ UNCHANGED <<i, j>>
    /\ UNCHANGED <<file, pos, data_len, stack, ret>>

\* and those of the info dictionary.
InfoEntry ==
    /\ mode = "info" /\ j <= Len(ret[2][i][2][2])
    /\ out' = TakeInfo(out, ret[2][i][2][2][j])
    /\ mode' = IF out'.state = "ok" THEN "info" ELSE "end"
    /\ j' = j + 1
    /\ UNCHANGED <<file, pos, data_len, stack, ret, i>>

\* The block is BlockSize bytes long, and a bt_info_t about twice that: a long
\* "announce", and each entry of the info dictionary that decodeFile() looks for, is
\* written behind the block.  Nothing that is used may be there, and the two actions
\* above are what happens then.  Otherwise the write destroys the tree, the heap's own
\* records or, as the blocks of the hashes are allocated there, is itself overwritten,
\* and anything may follow.
StrayWrite ==
    /\ \/ /\ mode = "file" /\ i <= Len(ret[2]) /\ Is(ret[2][i], Announce, "str")
          /\ Len(ret[2][i][2][2]) >= BlockSize
       \/ /\ mode = "info" /\ j <= Len(ret[2][i][2][2])
          /\ \E key \in {Name, Length, PieceLength, Pieces} :
                ret[2][i][2][2][j][1] = <<"str", key>>
    /\ mode' = "end" /\ out' = Undefined
    /\ UNCHANGED <<file, pos, data_len, stack, ret, i, j>>

InfoDone ==
    /\ mode = "info" /\ j > Len(ret[2][i][2][2])
    /\ mode' = "file" /\ i' = i + 1
    /\ UNCHANGED <<file, pos, data_len, stack, ret, j, out>>

FileDone ==
    /\ mode = "file" /\ i > Len(ret[2])
    /\ mode' = "end"
    /\ UNCHANGED <<file, pos, data_len, stack, ret, i, j, out>>

(***************************************************************************)
(* The format, as a reference for the decoder.  A span says that the bytes *)
(* from .. to - 1 of a file are the encoding of node, and its cuts where   *)
(* the parts of the encoding begin: the digits of an integer, the colon of *)
(* a string, the items of a list, the keys and values of a dictionary.     *)
(***************************************************************************)
IsInt(f, x) ==
    LET d == x.cuts[1]
        digits == SubSeq(f.bytes, d, x.to - 2)
        n == IF d = x.from + 1 THEN ValueOf(digits) ELSE -ValueOf(digits)
    IN  /\ f.bytes[x.from] = "i" /\ f.bytes[x.to - 1] = "e"
        /\ d = x.from + 1 \/ (d = x.from + 2 /\ f.bytes[x.from + 1] = "-")
        /\ d < x.to - 1 /\ \A p \in d..(x.to - 2) : f.bytes[p] \in Digit
        /\ n \in (-LongMax - 1)..LongMax /\ x.node = <<"int", n>>

IsString(f, x) ==
    LET c == x.cuts[1]
    IN  /\ c \in (x.from + 1)..(x.to - 1) /\ f.bytes[c] = ":"
        /\ \A p \in x.from..(c - 1) : f.bytes[p] \in Digit
        /\ ValueOf(SubSeq(f.bytes, x.from, c - 1)) = x.to - 1 - c
        /\ x.node = <<"str", SubSeq(f.bytes, c + 1, x.to - 1)>>

\* Item n of a list, or the value of entry n of a dictionary, and where it begins;
\* an entry of a dictionary begins with its key.
Item(x, n) == IF x.node[1] = "dict" THEN x.node[2][n][2] ELSE x.node[2][n]
ItemAt(x, n) == IF x.node[1] = "dict" THEN x.cuts[2 * n] ELSE x.cuts[n]
EntryAt(x, n) == IF x.node[1] = "dict" THEN x.cuts[2 * n - 1] ELSE x.cuts[n]
IsItem(y, x, n) == y.from = ItemAt(x, n) /\ y.to = EntryAt(x, n + 1) /\ y.node = Item(x, n)
IsKey(y, x, n) ==
    y.from = EntryAt(x, n) /\ y.to = ItemAt(x, n) /\ y.node[1] = "str" /\ y.node = x.node[2][n][1]

IsSeq(s) == s \in Seq(Range(s))

IsContainer(f, x) ==
    LET items == x.node[2]
        dict == x.node[1] = "dict"
    IN  /\ x.node = <<IF dict THEN "dict" ELSE "list", items>> /\ IsSeq(items)
        /\ f.bytes[x.from] = (IF dict THEN "d" ELSE "l") /\ f.bytes[x.to - 1] = "e"
        /\ EntryAt(x, 1) = x.from + 1 /\ EntryAt(x, Len(items) + 1) = x.to - 1
        /\ \A n \in DOMAIN items :
              /\ \E y \in f.spans : IsItem(y, x, n)
              /\ dict => \E y \in f.spans : IsKey(y, x, n)
              /\ dict => items[n] = <<items[n][1], items[n][2]>>

Parsed(f) ==
    \A x \in f.spans :
        /\ x.from \in 1..Len(f.bytes) /\ x.to \in (x.from + 1)..(Len(f.bytes) + 1)
        /\ CASE x.node[1] = "int" -> IsInt(f, x)
             [] x.node[1] = "str" -> IsString(f, x)
             [] OTHER -> IsContainer(f, x)

ASSUME FilesAssumption ==
    /\ \A f \in Files : f.bytes \in Seq(STRING) /\ Len(f.bytes) <= LongMax /\ Parsed(f)
    /\ Trailers \subseteq Seq(STRING)

ASSUME SizesAssumption == LongMax \in Nat /\ IntSize \in Nat \ {0} /\ HashSize \in Nat
                             /\ BlockSize \in Nat

ASSUME KeysAssumption ==
    Announce # Info /\ \A a, b \in 1..4 :
        <<Name, Length, PieceLength, Pieces>>[a] = <<Name, Length, PieceLength, Pieces>>[b] => a = b

(***************************************************************************)
(* The specification.                                                      *)
(***************************************************************************)
\* load_be_node(): the file is in memory, and be_decoden() is called.
Init ==
    /\ \E f \in Files : input = f.bytes /\ spans = f.spans
    /\ \E trailer \in Trailers : memory = input \o trailer
    /\ pos = 1 /\ data_len = Len(input)
    /\ stack = << >> /\ mode = "decode" /\ ret = Null
    /\ i = 0 /\ j = 0 /\ out = [NoInfo EXCEPT !.state = "none"]

Next ==
    \/ DecodeNothing \/ DecodeInt \/ DecodeString \/ DecodeOpen
    \/ NextItem \/ ItemDone \/ EndOfItems \/ EndOfEmpty
    \/ decodeFile \/ FileEntry \/ InfoEntry \/ StrayWrite \/ InfoDone \/ FileDone

Safety == Init /\ [][Next]_vars

\* The decoder is one thread that nothing blocks.
Spec == Safety /\ WF_vars(Next)

(***************************************************************************)
(* Properties.                                                             *)
(***************************************************************************)
\* The states are well formed, and the position and the bytes left always agree,
\* also where the decoder has left the file.
TypeOK ==
    /\ pos \in Nat /\ data_len \in Int
    /\ pos + data_len = Len(input) + 1
    /\ mode \in {"decode", "loop", "return", "file", "info", "end"}
    /\ IsSeq(stack)
    /\ \A k \in DOMAIN stack :
          /\ stack[k].type \in {"list", "dict"} /\ IsSeq(stack[k].items)
          /\ stack[k] = [type |-> stack[k].type, items |-> stack[k].items, key |-> stack[k].key]
    /\ out.state \in {"none", "ok", "undefined"}

\* What the decoder reads is what the format says stands there, and it stops where
\* that ends, whatever lies behind it in memory.  (A file with an empty list or
\* dictionary ends the program instead.)
RoundTrip ==
    mode = "return" /\ stack = << >> =>
        \A x \in spans : x.from = 1 => ret = x.node /\ pos = x.to

\* Why.  The activations are those of the spans around the place where the decoder
\* is: each has the items before that place, and its key, and the next activation
\* reads its next item.
IsNext(y, root, path, k) ==
    IF k = 0 THEN y = root ELSE IsItem(y, path[k], Len(stack[k].items) + 1)
Follows(root, path, k) ==
    LET x == path[k]
        n == Len(stack[k].items)
    IN  /\ x.node[1] = stack[k].type /\ IsNext(x, root, path, k - 1)
        /\ n <= Len(x.node[2]) /\ stack[k].items = SubSeq(x.node[2], 1, n)
        /\ k < Len(stack) \/ mode # "loop" =>
              /\ n < Len(x.node[2])
              /\ stack[k].type = "dict" => stack[k].key = x.node[2][n + 1][1]
Reading(root, path) ==
    LET here(y) == IsNext(y, root, path, Len(stack))
    IN  /\ \A k \in DOMAIN stack : Follows(root, path, k)
        /\ mode = "loop" => pos = EntryAt(path[Len(stack)], Len(Top.items) + 1)
        /\ mode = "decode" => \E y \in spans : here(y) /\ pos = y.from
        /\ mode = "return" => \E y \in spans : here(y) /\ pos = y.to /\ ret = y.node
SpansFollowed ==
    /\ mode = "loop" => stack # << >>
    /\ mode \in {"decode", "loop", "return"} => \A root \in spans : root.from = 1 =>
          \E path \in [DOMAIN stack -> {x \in spans : x.node[1] \in {"list", "dict"}}] :
              Reading(root, path)

\* The integers of a dictionary, and of a dictionary within it, are numbers.
IntIn(v) == v[1] = "int" => v[2] \in Int
IntsIn(v) ==
    IntIn(v) /\ (v[1] = "dict" => IsSeq(v[2]) /\ \A k \in DOMAIN v[2] : IntIn(v[2][k][2]))
AllIntsIn(v) == IntsIn(v) /\ (v[1] = "dict" => \A k \in DOMAIN v[2] : IntsIn(v[2][k][2]))
NodesKept ==
    /\ AllIntsIn(ret)
    /\ \A k \in DOMAIN stack : stack[k].type = "dict" =>
          \A n \in DOMAIN stack[k].items : AllIntsIn(stack[k].items[n][2])

\* The walks of decodeFile() are over dictionaries, and what it fills in are numbers.
FieldsKept ==
    /\ out \in [state : {"none", "ok", "undefined"}, known : SUBSET {"length", "num_pieces", "hashes"},
                announce : {out.announce}, name : {out.name}, length : Int, piece_length : Int,
                num_pieces : Int, hashes : Int]
    /\ mode \in {"decode", "loop", "return"} => out.state = "none"
    /\ mode \in {"file", "info"} => i \in Nat \ {0} /\ out.state = "ok" /\ ret[1] = "dict"
    /\ mode = "info" =>
          j \in Nat \ {0} /\ i <= Len(ret[2]) /\ Is(ret[2][i], Info, "dict")

\* The decoder and decodeFile() know at each step what the properties above need.
DecodingKept == SpansFollowed /\ NodesKept /\ FieldsKept

\* The decoder ends on every input, well formed, cut short or not bencoded at all (and
\* decodeFile() after it, unless an undefined step has made the rest unpredictable).
Terminates == <>(mode = "end")
=============================================================================
