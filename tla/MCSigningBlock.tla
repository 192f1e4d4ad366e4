--------------------------- MODULE MCSigningBlock ---------------------------
(***************************************************************************)
(* Lengths of one or two units.  Every array of up to two sub-blocks whose *)
(* length and offset fields are each free, some arrays of three or more,   *)
(* and for some arrays every head, end record, comment and second end      *)
(* record inside the comment.                                              *)
(***************************************************************************)
EXTENDS SigningBlock, TLC

Sub(type, length, offset) == [type |-> type, length |-> length, offset |-> offset]

Subs ==
    {Sub(t, l, o) : t \in {"sign", "profile", "other"}, l \in 0..2, o \in 0..4}

Arrays == {<<>>} \union {<<a>> : a \in Subs} \union {<<a, b>> : a, b \in Subs}

LongArrays ==
    {<<Sub("sign", 5, 5)>>, <<Sub("sign", 5, 6)>>,
     <<Sub("profile", 1, 3), Sub("sign", 1, 4), Sub("profile", 1, 5)>>,
     <<Sub("sign", 1, 3), Sub("property", 1, 4), Sub("sign", 1, 5)>>,
     <<Sub("property", 1, 3), Sub("resign", 2, 4), Sub("sign", 1, 6)>>,
     <<Sub("profile", 1, 4), Sub("sign", 1, 5), Sub("property", 1, 6),
       Sub("rotation", 1, 7)>>}

FewArrays ==
    {<<>>, <<Sub("sign", 1, 1)>>, <<Sub("sign", 1, 3)>>,
     <<Sub("sign", 1, 2), Sub("profile", 1, 3)>>,
     <<Sub("profile", 1, 2), Sub("profile", 1, 3)>>}

\* What a file adds to its array: contents before it, data beside what the
\* heads ask for, the fields of the head, the directory, the comment and bytes after
\* it.
Plain ==
    [contents |-> 1, extra |-> 0, size |-> 0, count |-> 0, magic |-> "new",
     version |-> 3, dir |-> 1, cdOffset |-> 0, cdSize |-> 0, comment |-> 0, tail |-> 0]

File(a, w) ==
    LET data  == DataLength(a) + w.extra
        block == w.contents + SubHeadLen * Len(a) + data
        cd    == block + HeadLen
        o     == cd + w.dir
    IN  [length |-> o + EocdLen + w.comment + w.tail,
         ends   |-> (o :> [cdOffset |-> cd + w.cdOffset, cdSize |-> w.dir + w.cdSize,
                           comment |-> w.comment]),
         heads  |-> (block :> [count |-> Len(a) + w.count, magic |-> w.magic,
                               size |-> cd - w.contents + w.size,
                               version |-> w.version]),
         subs   |-> [i \in {w.contents + SubHeadLen * (j - 1) : j \in DOMAIN a} |->
                        a[(i - w.contents) \div SubHeadLen + 1]]]

\* Another end record with its comment, somewhere in the comment.
Second(f, at, cd) ==
    [f EXCEPT !.ends = @ @@ (at :> [cdOffset |-> cd, cdSize |-> at - cd,
                                    comment |-> f.length - EocdLen - at])]

Ways ==
    {[Plain EXCEPT !.contents = c, !.dir = d, !.comment = k] :
        c \in 0..1, d \in 0..2, k \in 0..4}
    \union {[Plain EXCEPT !.extra = e, !.size = s, !.count = n] :
        e \in 0..1, s \in {-3, -2, -1, 0, 1}, n \in {-3, -1, 0, 1, 3}}
    \union {[Plain EXCEPT !.cdOffset = x, !.cdSize = s] : x \in {-2, -1, 0, 1, 2}, s \in {-1, 0, 1}}
    \union {[Plain EXCEPT !.magic = m, !.version = v] : m \in {"old", "new"}, v \in {-1, 2, 3}}
    \union {[Plain EXCEPT !.tail = 1], [Plain EXCEPT !.comment = 4, !.tail = 2], [Plain EXCEPT !.contents = 3]}

Empty == [length |-> 0, ends |-> <<>>, heads |-> <<>>, subs |-> <<>>]

\* Files as long as an int and longer.  The directory begins at a 32-bit offset,
\* so it is long in the longest.
LongFiles ==
    {File(a, [Plain EXCEPT !.contents = c, !.dir = d, !.version = v]) :
        a \in FewArrays, c \in 16..24 \union 40..43, d \in {1, 8, 16}, v \in {-1, 3}}

\* Files whose length in an int is that of a part of them, with an end record
\* that closes the part.
PartFiles ==
    LET part == File(<<Sub("sign", 1, 1)>>, Plain)
        With(f) ==
            [f EXCEPT !.ends  = @ @@ (f.length - (2 * MaxInt + 2) - EocdLen :>
                                         [cdOffset |-> Max(DOMAIN part.heads) + HeadLen,
                                          cdSize |-> 1, comment |-> 0]),
                      !.heads = @ @@ part.heads,
                      !.subs  = @ @@ part.subs]
    IN  {With(File(a, [Plain EXCEPT !.contents = 40, !.dir = d])) :
            a \in FewArrays, d \in 8..16}

MCFiles ==
    LongFiles \union PartFiles \union
    {File(a, Plain) : a \in Arrays \union LongArrays}
    \union {File(a, [Plain EXCEPT !.comment = 4, !.extra = -1]) : a \in {b \in Arrays : DataLength(b) > 0}}
    \union {File(a, w) : a \in FewArrays, w \in Ways}
    \union {LET f == File(a, [Plain EXCEPT !.comment = k])
            IN  Second(f, f.length - EocdLen - j, f.length - EocdLen - j - d) :
            a \in FewArrays, k \in 1..4, j \in 0..3, d \in 0..1}
    \union {Empty, [Empty EXCEPT !.length = 3]}

=============================================================================
